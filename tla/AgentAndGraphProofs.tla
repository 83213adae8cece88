------------------------- MODULE AgentAndGraphProofs -------------------------
(***************************************************************************)
(* Safety of the agents and of the evidence graph.  Of the agents'         *)
(* processes, for any number of them and of planners and whatever the      *)
(* order of timeouts, aborts, exits, closes and returns; of their          *)
(* selection, for every registry and requirement; and of the searches of   *)
(* the graph, for every store it can be built from.                        *)
(***************************************************************************)
EXTENDS ProcessAgent, AgentRouting, EvidenceGraph, FiniteSetTheorems, FunctionTheorems,
        SequenceTheorems, WellFoundedInduction, TLAPS

-----------------------------------------------------------------------------
(* Processes *)

Types ==
  /\ host \in [Invocations -> {"new", "waiting", "returned", "thrown"}]
  /\ child \in [Invocations -> {"none", "running", "unspawned", "ended", "closed"}]
  /\ code \in [Invocations -> {0, 1}]
  /\ held \in [Invocations -> BOOLEAN]
  /\ aborted \in [Invocations -> BOOLEAN]
  /\ timer \in [Invocations -> BOOLEAN]
  /\ result \in [Invocations -> {"none", "success", "failure"}]
  /\ prompt \in [Invocations -> BOOLEAN]
  /\ output \in [Invocations -> {"none", "part", "whole", "gone"}]
  /\ outlived \in [Invocations -> BOOLEAN]

\* Before the call, nothing of it is there.
Fresh(i) ==
  host[i] = "new" =>
    child[i] = "none" /\ result[i] = "none" /\ ~ prompt[i] /\ output[i] = "none"

\* The history variable saw every child that ran on.
SeenRunning(i) ==
  i \in Planners /\ host[i] \in {"returned", "thrown"} /\ child[i] = "running" => outlived[i]

\* SuccessIsFinal and PlannerFilesGone, of one invocation.
Final(i) ==
  i \in Agents /\ result[i] = "success" => child[i] = "closed" /\ code[i] = 0 /\ ~ prompt[i]

FilesGone(i) ==
  i \in Planners /\ host[i] \in {"returned", "thrown"} =>
    ~ prompt[i] /\ (output[i] \in {"part", "whole"} => outlived[i])

Sound(i) == Fresh(i) /\ SeenRunning(i) /\ Final(i) /\ FilesGone(i)

PInv == Types /\ \A i \in Invocations : Sound(i)

-----------------------------------------------------------------------------
\* The part of the state that belongs to an invocation.
Mine(i) == <<host[i], child[i], code[i], held[i], aborted[i], timer[i], result[i], prompt[i],
             output[i], outlived[i]>>

Step(i) ==
  \/ Refuse(i) \/ Spawn(i) \/ Timeout(i) \/ AbortEarly(i) \/ SpawnError(i)
  \/ WriteOutput(i) \/ Exit(i) \/ Close(i) \/ AgentReturns(i) \/ PlannerReturns(i)

\* A step of an invocation keeps the types of all.
LEMMA StepTypes ==
  ASSUME Types, NEW i \in Invocations, Step(i)
  PROVE  Types'
<1> USE DEF Types
<1>1. CASE Refuse(i)
  BY <1>1 DEF Refuse, Invocations
<1>2. CASE Spawn(i)
  BY <1>2 DEF Spawn
<1>3. CASE Timeout(i)
  BY <1>3 DEF Timeout, Resolve, ErrorResult
<1>4. CASE AbortEarly(i)
  BY <1>4 DEF AbortEarly, OnError, Resolve, ErrorResult
<1>5. CASE SpawnError(i)
  BY <1>5 DEF SpawnError, OnError, Resolve, ErrorResult
<1>6. CASE WriteOutput(i)
  BY <1>6 DEF WriteOutput
<1>7. CASE Exit(i)
  BY <1>7 DEF Exit
<1>8. CASE Close(i)
  BY <1>8 DEF Close, Resolve, PromptAfterClose
<1>9. CASE AgentReturns(i)
  BY <1>9 DEF AgentReturns
<1>10. CASE PlannerReturns(i)
  BY <1>10 DEF PlannerReturns, Unlinked
<1> QED
  BY <1>1, <1>2, <1>3, <1>4, <1>5, <1>6, <1>7, <1>8, <1>9, <1>10 DEF Step

\* A step of one invocation leaves the state of the others alone.
LEMMA StepLocal ==
  ASSUME Types, NEW i \in Invocations, Step(i), NEW j \in Invocations, j # i
  PROVE  UNCHANGED Mine(j)
<1> USE DEF Types, Mine
<1>1. CASE Refuse(i)
  BY <1>1 DEF Refuse
<1>2. CASE Spawn(i) \/ WriteOutput(i) \/ Exit(i) \/ AgentReturns(i) \/ PlannerReturns(i)
  BY <1>2 DEF Spawn, WriteOutput, Exit, AgentReturns, PlannerReturns
<1>3. CASE Timeout(i)
  BY <1>3 DEF Timeout, Resolve
<1>4. CASE AbortEarly(i)
  <2>1. UNCHANGED <<host, child, code, held, prompt, output, outlived>>
    BY <1>4 DEF AbortEarly
  <2>2. aborted'[j] = aborted[j]
    BY <1>4 DEF AbortEarly
  <2>3. timer'[j] = timer[j] /\ result'[j] = result[j]
    BY <1>4 DEF AbortEarly, OnError, Resolve
  <2> QED
    BY <2>1, <2>2, <2>3
<1>5. CASE SpawnError(i)
  BY <1>5 DEF SpawnError, OnError, Resolve
<1>6. CASE Close(i)
  BY <1>6 DEF Close, Resolve
<1> QED
  BY <1>1, <1>2, <1>3, <1>4, <1>5, <1>6 DEF Step

\* A step of an invocation keeps it sound.
LEMMA StepSound ==
  ASSUME Types, NEW i \in Invocations, Sound(i), Step(i)
  PROVE  Sound(i)'
<1> USE DEF Types, Sound, Fresh, SeenRunning, Final, FilesGone
<1>1. CASE Refuse(i)
  <2>1. i \in Planners => i \notin Agents
    BY InvocationAssumption
  <2> QED
    BY <1>1, <2>1 DEF Refuse
<1>2. CASE Spawn(i)
  BY <1>2 DEF Spawn
<1>3. CASE Timeout(i)
  BY <1>3 DEF Timeout, Resolve, ErrorResult, EmitsError
<1>4. CASE AbortEarly(i)
  BY <1>4 DEF AbortEarly, OnError, Resolve, ErrorResult
<1>5. CASE SpawnError(i)
  BY <1>5 DEF SpawnError, OnError, Resolve, ErrorResult
<1>6. CASE WriteOutput(i)
  BY <1>6 DEF WriteOutput
<1>7. CASE Exit(i)
  BY <1>7 DEF Exit
<1>8. CASE Close(i)
  <2>1. i \in Agents => ~ PromptAfterClose(i)
    BY InvocationAssumption DEF PromptAfterClose
  <2>2. ~ prompt[i] => ~ PromptAfterClose(i)
    BY DEF PromptAfterClose
  <2>3. /\ UNCHANGED <<host, code, held, aborted, output, outlived>>
        /\ child'[i] = "closed" /\ child[i] = "ended" /\ prompt'[i] = PromptAfterClose(i)
        /\ result'[i] = "success" => code[i] = 0 \/ result[i] = "success"
    BY <1>8 DEF Close, Resolve
  <2> QED
    BY <2>1, <2>2, <2>3
<1>9. CASE AgentReturns(i)
  <2>1. i \notin Planners
    BY <1>9, InvocationAssumption DEF AgentReturns
  <2> QED
    BY <1>9, <2>1 DEF AgentReturns
<1>10. CASE PlannerReturns(i)
  <2>1. i \notin Agents
    BY <1>10, InvocationAssumption DEF PlannerReturns
  <2>2. Unlinked(output[i]) \in {"none", "gone"}
    BY DEF Unlinked
  <2> QED
    BY <1>10, <2>1, <2>2 DEF PlannerReturns
<1> QED
  BY <1>1, <1>2, <1>3, <1>4, <1>5, <1>6, <1>7, <1>8, <1>9, <1>10 DEF Step

\* The invariant holds at first.
LEMMA InitPInv == Init => PInv
BY DEF Init, PInv, Types, Sound, Fresh, SeenRunning, Final, FilesGone

\* Every step keeps the invariant.
LEMMA NextPInv == PInv /\ [Next]_vars => PInv'
<1> SUFFICES ASSUME PInv, [Next]_vars PROVE PInv'
  OBVIOUS
<1>1. ASSUME NEW i \in Invocations, Step(i)
      PROVE  PInv'
  <2>1. Types'
    BY <1>1, StepTypes DEF PInv
  <2>2. ASSUME NEW j \in Invocations
        PROVE  Sound(j)'
    <3>1. CASE j = i
      BY <1>1, <3>1, StepSound DEF PInv
    <3>2. CASE j # i
      <4>1. UNCHANGED Mine(j)
        BY <1>1, <3>2, StepLocal DEF PInv
      <4> QED
        BY <4>1 DEF Mine, PInv, Sound, Fresh, SeenRunning, Final, FilesGone
    <3> QED
      BY <3>1, <3>2
  <2> QED
    BY <2>1, <2>2 DEF PInv
<1>2. CASE UNCHANGED vars
  BY <1>2 DEF vars, PInv, Types, Sound, Fresh, SeenRunning, Final, FilesGone
<1> QED
  BY <1>1, <1>2 DEF Next, Step

\* The invariant holds in every state.
THEOREM ProcessInvariance == Spec => []PInv
BY InitPInv, NextPInv, PTL DEF Spec

\* For any number of invocations and any order of their events: a reported
\* success is the end of the agent, of its pipes and of its prompt file.
THEOREM ReportedSuccessIsFinal == Spec => []SuccessIsFinal
<1>1. PInv => SuccessIsFinal
  BY DEF PInv, Sound, Final, SuccessIsFinal, Invocations
<1> QED
  BY <1>1, ProcessInvariance, PTL

\* A planner's files are gone when plan() is done, unless its process lives on.
THEOREM PlannersCleanUp == Spec => []PlannerFilesGone
<1>1. PInv => PlannerFilesGone
  BY DEF PInv, Sound, FilesGone, PlannerFilesGone, Invocations
<1> QED
  BY <1>1, ProcessInvariance, PTL

-----------------------------------------------------------------------------
(* How an agent is selected *)

Tallies == [count : Nat, sum : Nat]

\* The order lists the registered ids, each once.
RoutingInv ==
  /\ DOMAIN registry \subseteq Known /\ IsFiniteSet(DOMAIN registry)
  /\ mapOrder \in SetToSeqs(DOMAIN registry)
  /\ todo \in Seq(Declarations \cup {Broken})
  /\ tally \in [Known \X EventTypes -> Tallies]

\* A list of all elements of a set, each once, misses none.
LEMMA ListsAll ==
  ASSUME NEW S, IsFiniteSet(S), NEW ids \in SetToSeqs(S)
  PROVE  /\ Cardinality(S) \in Nat /\ DOMAIN ids = 1 .. Cardinality(S)
         /\ \A i \in DOMAIN ids : ids[i] \in S
         /\ \A i, j \in DOMAIN ids : i # j => ids[i] # ids[j]
         /\ \A e \in S : \E i \in DOMAIN ids : ids[i] = e
         /\ Len(ids) = Cardinality(S)
<1> DEFINE n == Cardinality(S)
<1>1. n \in Nat
  BY FS_CardinalityType
<1>2. /\ ids \in [1 .. n -> S] /\ DOMAIN ids = 1 .. n
      /\ \A i, j \in 1 .. n : i # j => ids[i] # ids[j]
  BY DEF SetToSeqs
<1>3. ids \in Injection(1 .. n, S)
  BY <1>2 DEF Injection, IsInjective
<1>4. Cardinality(1 .. n) = n
  BY <1>1, FS_Interval
<1>5. ids \in Surjection(1 .. n, S)
  BY <1>3, <1>4, FS_Injection
<1>6. \A e \in S : \E i \in 1 .. n : ids[i] = e
  BY <1>5 DEF Surjection
<1>7. Len(ids) = n
  <2>1. ids \in Seq(S)
    BY <1>1, <1>2
  <2> QED
    BY <1>1, <1>2, <2>1
<1> QED
  BY <1>1, <1>2, <1>6, <1>7

\* An id that is put last into the list joins the others.
LEMMA PutLastLists ==
  ASSUME NEW S, IsFiniteSet(S), NEW ids \in SetToSeqs(S), NEW id
  PROVE  /\ IsFiniteSet(S \cup {id})
         /\ PutLast(ids, id) \in SetToSeqs(S \cup {id})
<1> DEFINE n == Cardinality(S)
           T == S \cup {id}
<1>1. /\ IsFiniteSet(T)
      /\ Cardinality(T) = IF id \in S THEN n ELSE n + 1
  BY FS_AddElement
<1>2. /\ n \in Nat /\ DOMAIN ids = 1 .. n /\ Len(ids) = n
      /\ \A i \in 1 .. n : ids[i] \in S
      /\ \A i, j \in 1 .. n : i # j => ids[i] # ids[j]
      /\ \A e \in S : \E i \in 1 .. n : ids[i] = e
  BY ListsAll
<1>3. id \in Range(ids) <=> id \in S
  BY <1>2 DEF Range
<1>4. CASE id \in S
  <2>1. T = S /\ PutLast(ids, id) = ids
    BY <1>3, <1>4 DEF PutLast
  <2> QED
    BY <1>1, <2>1
<1>5. CASE id \notin S
  <2>1. ids \in [1 .. n -> S]
    BY DEF SetToSeqs
  <2>2. ids \in Seq(T)
    BY <1>2, <2>1
  <2>3. PutLast(ids, id) = Append(ids, id)
    BY <1>3, <1>5 DEF PutLast
  <2> DEFINE more == Append(ids, id)
  <2>4. /\ more \in [1 .. n + 1 -> T]
        /\ \A i \in 1 .. n : more[i] = ids[i]
        /\ more[n + 1] = id
    <3>1. more \in Seq(T) /\ Len(more) = n + 1
      <4>1. Append(ids, id) \in Seq(T) /\ Len(Append(ids, id)) = Len(ids) + 1
        BY <2>2
      <4> QED
        BY <1>2, <4>1
    <3>2. more \in [1 .. n + 1 -> T]
      <4> HIDE DEF more
      <4> QED
        BY <1>2, <3>1
    <3>3. \A i \in 1 .. n : more[i] = ids[i]
      BY <1>2, <2>2
    <3>4. more[n + 1] = id
      BY <1>2, <2>2
    <3> QED
      BY <3>2, <3>3, <3>4
  <2>5. \A i, j \in 1 .. n + 1 : i # j => more[i] # more[j]
    <3> HIDE DEF more
    <3>1. \A i \in 1 .. n + 1 : i \in 1 .. n \/ i = n + 1
      BY <1>2
    <3> QED
      BY <1>2, <1>5, <2>4, <3>1
  <2>6. Cardinality(T) = n + 1
    BY <1>1, <1>5
  <2> HIDE DEF more, T
  <2> QED
    BY <1>1, <2>3, <2>4, <2>5, <2>6 DEF SetToSeqs, more, T
<1> QED
  BY <1>4, <1>5

\* The invariant holds at first.
LEMMA InitRoutingInv == AInit => RoutingInv
<1> SUFFICES ASSUME AInit PROVE RoutingInv
  OBVIOUS
<1>1. DOMAIN registry \subseteq Known /\ IsFiniteSet(DOMAIN registry)
  BY RoutingAssumption DEF AInit, Known
<1>2. mapOrder \in SetToSeqs(DOMAIN registry)
  BY RoutingAssumption DEF AInit
<1>3. todo \in Seq(Declarations \cup {Broken}) /\ tally \in [Known \X EventTypes -> Tallies]
  BY DEF AInit, Tallies
<1> QED
  BY <1>1, <1>2, <1>3 DEF RoutingInv

\* A definition of a known id keeps the list and the registry together.
LEMMA PutKeeps ==
  ASSUME RoutingInv, NEW id \in Known, NEW def, PutDefinition(id, def)
  PROVE  /\ DOMAIN registry' \subseteq Known /\ IsFiniteSet(DOMAIN registry')
         /\ mapOrder' \in SetToSeqs(DOMAIN registry')
<1>1. DOMAIN registry' = DOMAIN registry \cup {id}
  BY DEF PutDefinition, Put
<1>2. mapOrder' = PutLast(mapOrder, id)
  BY DEF PutDefinition
<1> QED
  BY <1>1, <1>2, PutLastLists DEF RoutingInv

\* Every step keeps the invariant.
LEMMA NextRoutingInv == RoutingInv /\ [ANext]_avars => RoutingInv'
<1> SUFFICES ASSUME RoutingInv, [ANext]_avars PROVE RoutingInv'
  OBVIOUS
<1>1. ASSUME NEW decl \in Declarations, Register(decl) PROVE RoutingInv'
  <2>1. decl.id \in Known
    BY DEF Known
  <2> QED
    BY <1>1, <2>1, PutKeeps DEF Register, RoutingInv
<1>2. ASSUME NEW decls \in SeqOf(Declarations \cup {Broken}, 2), ApplyManifest(decls) PROVE RoutingInv'
  <2>1. decls \in Seq(Declarations \cup {Broken})
    <3>1. PICK m \in 0 .. 2 : decls \in [1 .. m -> Declarations \cup {Broken}]
      BY DEF SeqOf
    <3> QED
      BY <3>1
  <2> QED
    BY <1>2, <2>1 DEF ApplyManifest, RoutingInv
<1>3. CASE ApplyDeclaration
  <2> DEFINE decl == Head(todo)
  <2>1. decl \in Declarations /\ Tail(todo) \in Seq(Declarations \cup {Broken})
    BY <1>3 DEF ApplyDeclaration, RoutingInv
  <2>2. decl.id \in Known
    BY <2>1 DEF Known
  <2>3. PICK def : PutDefinition(decl.id, def)
    BY <1>3 DEF ApplyDeclaration
  <2> HIDE DEF decl
  <2>4. /\ DOMAIN registry' \subseteq Known /\ IsFiniteSet(DOMAIN registry')
        /\ mapOrder' \in SetToSeqs(DOMAIN registry')
    BY <2>2, <2>3, PutKeeps
  <2> QED
    BY <1>3, <2>1, <2>4 DEF ApplyDeclaration, RoutingInv
<1>4. CASE RefuseDeclaration
  BY <1>4 DEF RefuseDeclaration, RoutingInv
<1>5. ASSUME NEW e \in Happenings, Event(e) PROVE RoutingInv'
  <2>1. <<e.agent, e.type>> \in Known \X EventTypes /\ e.value \in Nat
    BY RoutingAssumption
  <2>2. tally' \in [Known \X EventTypes -> Tallies]
    BY <1>5, <2>1 DEF Event, RoutingInv, Tallies
  <2> QED
    BY <1>5, <2>2 DEF Event, RoutingInv
<1>6. CASE UNCHANGED avars
  BY <1>6 DEF avars, RoutingInv
<1> QED
  BY <1>1, <1>2, <1>3, <1>4, <1>5, <1>6 DEF ANext

\* The invariant holds in every state.
LEMMA RoutingInvHolds == ASpec => []RoutingInv
BY InitRoutingInv, NextRoutingInv, PTL DEF ASpec

-----------------------------------------------------------------------------
\* A set of naturals has a least element.
LEMMA LeastNumber ==
  ASSUME NEW S \in SUBSET Nat, S # {}
  PROVE  \E m \in S : \A k \in S : m <= k
<1> DEFINE Less == {ss \in Nat \X Nat : ss[1] < ss[2]}
<1>1. IsWellFoundedOn(Less, Nat)
  BY NatLessThanWellFounded DEF OpToRel
<1>2. PICK m \in S : \A k \in S : <<k, m>> \notin Less
  <2> HIDE DEF Less
  <2> QED BY <1>1, WFMin
<1>3. ASSUME NEW k \in S PROVE m <= k
  <2>1. k \in Nat /\ m \in Nat /\ ~ k < m
    BY <1>2
  <2> QED
    BY <2>1
<1> QED
  BY <1>3

\* The better of two agents has the greater score, or an equal one and the smaller id.
Better(score, b, c) == score[b] > score[c] \/ (score[b] = score[c] /\ b < c)

\* Of agents with scores up to a bound, one is better than all others.
LEMMA OneIsBest ==
  ASSUME NEW D, NEW E \in SUBSET D, E \in SUBSET Nat, E # {}, NEW M \in Nat,
         NEW score \in [D -> 0 .. M]
  PROVE  \E b \in E : \A c \in E \ {b} : Better(score, b, c)
<1> DEFINE Lacks == {M - score[e] : e \in E}
<1>1. Lacks \in SUBSET Nat /\ Lacks # {}
  <2>1. \A e \in E : M - score[e] \in Nat
    <3> TAKE e \in E
    <3>1. score[e] \in 0 .. M
      OBVIOUS
    <3> QED
      BY <3>1
  <2> QED
    BY <2>1
<1>2. PICK least \in Lacks : \A k \in Lacks : least <= k
  <2> HIDE DEF Lacks
  <2> QED
    BY <1>1, LeastNumber
<1>3. PICK top \in E : least = M - score[top]
  OBVIOUS
<1>4. \A e \in E : score[e] \in 0 .. M /\ score[e] <= score[top]
  <2> TAKE e \in E
  <2>1. score[e] \in 0 .. M /\ score[top] \in 0 .. M /\ M - score[e] \in Lacks
    OBVIOUS
  <2>2. M - score[top] <= M - score[e]
    BY <1>2, <1>3, <2>1
  <2> QED
    BY <2>1, <2>2
<1> DEFINE Ties == {e \in E : score[e] = score[top]}
<1>5. PICK b \in Ties : \A k \in Ties : b <= k
  <2>1. Ties \in SUBSET Nat /\ Ties # {}
    BY <1>3
  <2> HIDE DEF Ties
  <2> QED
    BY <2>1, LeastNumber
<1>6. b \in E /\ score[b] = score[top]
  OBVIOUS
<1>7. \A c \in E \ {b} : Better(score, b, c)
  <2> TAKE c \in E \ {b}
  <2>1. score[c] \in 0 .. M /\ score[top] \in 0 .. M /\ score[c] <= score[top] /\ b \in Nat /\ c \in Nat
    BY <1>4, <1>6
  <2>2. CASE score[c] = score[top]
    <3>1. b <= c /\ b # c
      BY <1>5, <2>2
    <3> QED
      BY <1>6, <2>1, <2>2, <3>1 DEF Better
  <2>3. CASE score[c] # score[top]
    <3>1. score[c] < score[top]
      BY <2>1, <2>3
    <3> QED
      BY <1>6, <2>1, <3>1 DEF Better
  <2> QED
    BY <2>2, <2>3
<1> QED
  BY <1>6, <1>7

\* Nobody is better than one that is better than he.
LEMMA BetterIsStrict ==
  ASSUME NEW E \in SUBSET Nat, NEW M \in Nat, NEW score \in [E -> 0 .. M],
         NEW b \in E, NEW c \in E, Better(score, b, c)
  PROVE  ~ Better(score, c, b)
<1>1. score[b] \in 0 .. M /\ score[c] \in 0 .. M
  OBVIOUS
<1> QED
  BY <1>1 DEF Better

\* What events tell of an agent is given in numbers.
LEMMA MetricsAreNumbers ==
  ASSUME RoutingInv, NEW id \in Known
  PROVE  /\ Metrics(id).historicalSuccess \in Int /\ Metrics(id).latency \in Int /\ Metrics(id).cost \in Int
         /\ NoMetrics.historicalSuccess \in Int /\ NoMetrics.latency \in Int /\ NoMetrics.cost \in Int
<1> DEFINE successes == tally[<<id, "NODE_EXECUTION_SUCCEEDED">>]
           failures  == tally[<<id, "TASK_FAILED">>]
           costs     == tally[<<id, "COST">>]
<1>1. successes \in Tallies /\ failures \in Tallies /\ costs \in Tallies
  <2>1. {"NODE_EXECUTION_SUCCEEDED", "TASK_FAILED", "COST"} = EventTypes
    BY DEF EventTypes
  <2> QED
    BY <2>1 DEF RoutingInv
<1>2. /\ successes.count \in Nat /\ successes.sum \in Nat /\ failures.count \in Nat
      /\ costs.count \in Nat /\ costs.sum \in Nat
  BY <1>1 DEF Tallies
<1> HIDE DEF successes, failures, costs
<1>3. Average(successes, 50) \in Int /\ Average(costs, 50) \in Int
  BY <1>2 DEF Average
<1>4. (IF successes.count + failures.count = 0 THEN 50
       ELSE (100 * successes.count) \div (successes.count + failures.count)) \in Int
  <2>1. 100 * successes.count \in Int /\ successes.count + failures.count \in Nat
    BY <1>2
  <2> QED
    BY <2>1
<1> QED
  BY <1>3, <1>4 DEF Metrics, NoMetrics, successes, failures, costs

\* The sum of the weights, in ten-thousandths.
AllWeights == 10000

\* Scores are naturals up to the sum of the weights.
LEMMA ScoresBounded ==
  ASSUME NEW q, NEW m, m.historicalSuccess \in Int, m.latency \in Int, m.cost \in Int
  PROVE  Score(q, m) \in 0 .. AllWeights
<1>1. \A n \in Int : Clamp(n) \in 0 .. 100
  BY DEF Clamp
<1>2. /\ Clamp(m.historicalSuccess) \in 0 .. 100
      /\ Clamp(100 - m.cost) \in 0 .. 100 /\ Clamp(100 - m.latency) \in 0 .. 100
  BY <1>1
<1> DEFINE tools == IF q.tools # {} THEN 10 * 100 ELSE 0
           past == Clamp(m.historicalSuccess)
           price == Clamp(100 - m.cost)
           speed == Clamp(100 - m.latency)
<1>3. tools \in {0, 1000}
  OBVIOUS
<1>4. Score(q, m) = 4000 + 20 * past + 1500 + 10 * price + 5 * speed + tools
  BY DEF Score
<1> HIDE DEF tools, past, price, speed
<1>5. past \in 0 .. 100 /\ price \in 0 .. 100 /\ speed \in 0 .. 100
  BY <1>2 DEF past, price, speed
<1> DEFINE sum == 4000 + 20 * past + 1500 + 10 * price + 5 * speed
<1>6. 5500 <= sum /\ sum <= 9000 /\ sum \in Int
  BY <1>5
<1>7. Score(q, m) = sum + tools
  BY <1>4
<1> HIDE DEF sum
<1> QED
  BY <1>3, <1>6, <1>7 DEF AllWeights

\* What every registered agent scores, who is eligible, and who is best of some.
Points(q, metrics) == [id \in DOMAIN registry |-> Score(q, metrics[id])]

EligibleIds(q) == {id \in DOMAIN registry : Eligible(q, registry[id])}

Best(E, score) == {b \in E : \A c \in E \ {b} : Better(score, b, c)}

\* However the registry is listed, the selected agent is the one that is better
\* than all others that are eligible.
LEMMA SelectedIsBest ==
  ASSUME RoutingInv, NEW q, NEW ids \in SetToSeqs(DOMAIN registry), NEW metrics
  PROVE  SelectAgent(q, ids, metrics) = Best(EligibleIds(q), Points(q, metrics))
<1> DEFINE matched == {i \in DOMAIN ids : Eligible(q, registry[ids[i]])}
           scored == [i \in matched |-> Score(q, metrics[ids[i]])]
           first == {j \in matched : \A k \in matched \ {j} : Precedes(ids, scored, j, k)}
<1>1. /\ \A i \in DOMAIN ids : ids[i] \in DOMAIN registry
      /\ \A i, j \in DOMAIN ids : i # j => ids[i] # ids[j]
      /\ \A e \in DOMAIN registry : \E i \in DOMAIN ids : ids[i] = e
  BY ListsAll DEF RoutingInv
<1>2. /\ \A i \in matched : ids[i] \in EligibleIds(q) /\ scored[i] = Points(q, metrics)[ids[i]]
      /\ \A e \in EligibleIds(q) : \E i \in matched : ids[i] = e
      /\ \A i, j \in matched : i # j => ids[i] # ids[j]
  BY <1>1 DEF EligibleIds, Points
<1> DEFINE points == Points(q, metrics)
<1> HIDE DEF points
<1>3. \A i, j \in matched : Precedes(ids, scored, i, j) <=> Better(points, ids[i], ids[j])
  BY <1>2 DEF Precedes, Better, points
<1>4. SelectAgent(q, ids, metrics) = {ids[i] : i \in first}
  BY DEF SelectAgent
<1> HIDE DEF matched, scored
<1>5. \A i \in first : ids[i] \in Best(EligibleIds(q), points)
  BY <1>2, <1>3 DEF Best
<1>6. \A b \in Best(EligibleIds(q), points) : \E i \in first : ids[i] = b
  <2> TAKE b \in Best(EligibleIds(q), points)
  <2>1. PICK i \in matched : ids[i] = b
    BY <1>2 DEF Best
  <2>2. \A k \in matched \ {i} : Precedes(ids, scored, i, k)
    BY <1>2, <1>3, <2>1 DEF Best
  <2> QED
    BY <2>1, <2>2
<1> QED
  BY <1>4, <1>5, <1>6 DEF points

\* Among agents with scores there is one that is best, if there are any.
LEMMA BestIsOne ==
  ASSUME NEW D \in SUBSET Nat, NEW E \in SUBSET D, NEW M \in Nat, NEW score \in [D -> 0 .. M]
  PROVE  /\ Best(E, score) \subseteq E
         /\ Cardinality(Best(E, score)) = IF E = {} THEN 0 ELSE 1
         /\ \A b \in Best(E, score), c \in E : score[c] <= score[b]
<1>1. Best(E, score) \subseteq E
  BY DEF Best
<1>2. Cardinality(Best(E, score)) = IF E = {} THEN 0 ELSE 1
  <2>1. CASE E = {}
    <3>1. Best(E, score) = {}
      BY <2>1 DEF Best
    <3> QED
      BY <2>1, <3>1, FS_EmptySet
  <2>2. CASE E # {}
    <3>1. PICK b \in E : \A c \in E \ {b} : Better(score, b, c)
      BY <2>2, E \in SUBSET Nat, OneIsBest
    <3>2. \A c \in Best(E, score) : c = b
      <4> SUFFICES ASSUME NEW c \in Best(E, score), c # b PROVE FALSE
        OBVIOUS
      <4>1. Better(score, b, c) /\ Better(score, c, b) /\ c \in E
        BY <3>1 DEF Best
      <4> QED
        BY <3>1, <4>1, b \in D, c \in D, BetterIsStrict
    <3>3. Best(E, score) = {b}
      BY <3>1, <3>2 DEF Best
    <3> QED
      BY <2>2, <3>3, FS_Singleton
  <2> QED
    BY <2>1, <2>2
<1>3. ASSUME NEW b \in Best(E, score), NEW c \in E PROVE score[c] <= score[b]
  <2>1. b \in E /\ (c = b \/ Better(score, b, c)) /\ score[b] \in 0 .. M /\ score[c] \in 0 .. M
    BY <1>3 DEF Best
  <2> QED
    BY <2>1 DEF Better
<1> QED
  BY <1>1, <1>2, <1>3

\* For every set of built-in agents, manifests, requirements and events: the choice
\* of an agent is settled by what is registered, not by how it came there.
THEOREM SelectionIsSettled == ASpec => []SelectionSettled
<1>1. RoutingInv => SelectionSettled
  <2> SUFFICES ASSUME RoutingInv PROVE SelectionSettled
    OBVIOUS
  <2>1. ASSUME NEW q, NEW id \in DOMAIN registry
        PROVE  Score(q, Metrics(id)) \in 0 .. AllWeights /\ Score(q, NoMetrics) \in 0 .. AllWeights
    <3>1. id \in Known
      BY DEF RoutingInv
    <3>2. /\ Metrics(id).historicalSuccess \in Int /\ Metrics(id).latency \in Int
          /\ Metrics(id).cost \in Int
      BY <3>1, MetricsAreNumbers
    <3>3. NoMetrics.historicalSuccess \in Int /\ NoMetrics.latency \in Int /\ NoMetrics.cost \in Int
      BY <3>1, MetricsAreNumbers
    <3> QED
      BY <3>2, <3>3, ScoresBounded
  <2>2. ASSUME NEW q, NEW metrics,
               \/ metrics = [id \in DOMAIN registry |-> Metrics(id)]
               \/ metrics = [id \in DOMAIN registry |-> NoMetrics]
        PROVE  /\ Points(q, metrics) \in [DOMAIN registry -> 0 .. AllWeights]
               /\ \A id \in DOMAIN registry : Points(q, metrics)[id] = Score(q, metrics[id])
    <3>1. \A id \in DOMAIN registry : Points(q, metrics)[id] = Score(q, metrics[id])
      BY DEF Points
    <3>2. DOMAIN Points(q, metrics) = DOMAIN registry
          /\ Points(q, metrics) = [id \in DOMAIN registry |-> Points(q, metrics)[id]]
      BY DEF Points
    <3>3. ASSUME NEW id \in DOMAIN registry PROVE Points(q, metrics)[id] \in 0 .. AllWeights
      <4>1. metrics[id] = Metrics(id) \/ metrics[id] = NoMetrics
        BY <2>2
      <4>2. CASE metrics[id] = Metrics(id)
        BY <2>1, <3>1, <4>2
      <4>3. CASE metrics[id] = NoMetrics
        BY <2>1, <3>1, <4>3
      <4> QED
        BY <4>1, <4>2, <4>3
    <3>4. Points(q, metrics) \in [DOMAIN registry -> 0 .. AllWeights]
      BY <3>2, <3>3
    <3> QED
      BY <3>1, <3>4
  <2>3. DOMAIN registry \in SUBSET Nat /\ mapOrder \in SetToSeqs(DOMAIN registry)
    BY RoutingAssumption DEF RoutingInv
  <2>4. ASSUME NEW q, NEW metrics,
               \/ metrics = [id \in DOMAIN registry |-> Metrics(id)]
               \/ metrics = [id \in DOMAIN registry |-> NoMetrics]
        PROVE  LET eligible == EligibleIds(q)
                   selected == SelectAgent(q, mapOrder, metrics)
               IN  /\ selected \subseteq eligible
                   /\ Cardinality(selected) = IF eligible = {} THEN 0 ELSE 1
                   /\ \A id \in selected, other \in eligible :
                        Score(q, metrics[other]) <= Score(q, metrics[id])
                   /\ \A ids \in SetToSeqs(DOMAIN registry) : SelectAgent(q, ids, metrics) = selected
    <3> DEFINE points == Points(q, metrics)
               best == Best(EligibleIds(q), points)
    <3>1. EligibleIds(q) \in SUBSET DOMAIN registry
      BY DEF EligibleIds
    <3>2. \A ids \in SetToSeqs(DOMAIN registry) : SelectAgent(q, ids, metrics) = best
      BY SelectedIsBest
    <3>3. points \in [DOMAIN registry -> 0 .. AllWeights]
      BY <2>2, <2>4
    <3>4. \A id \in DOMAIN registry : points[id] = Score(q, metrics[id])
      BY <2>2, <2>4
    <3> HIDE DEF points
    <3>5. /\ best \subseteq EligibleIds(q)
          /\ Cardinality(best) = IF EligibleIds(q) = {} THEN 0 ELSE 1
          /\ \A b \in best, c \in EligibleIds(q) : points[c] <= points[b]
      <4>1. AllWeights \in Nat
        BY DEF AllWeights
      <4> QED
        BY <2>3, <3>1, <3>3, <4>1, BestIsOne
    <3> HIDE DEF best
    <3>6. \A id \in best, other \in EligibleIds(q) : Score(q, metrics[other]) <= Score(q, metrics[id])
      BY <3>1, <3>4, <3>5, Zenon
    <3> QED
      BY <2>3, <3>2, <3>5, <3>6
  <2> QED
    BY <2>4 DEF SelectionSettled, EligibleIds
<1> QED
  BY <1>1, RoutingInvHolds, PTL

-----------------------------------------------------------------------------
(* The searches of the evidence graph *)

\* f begins with a and goes on n times as step says.
Repeats(f, a, step, n) == f[0] = a /\ \A d \in 1 .. n : f[d] = step[f[d - 1]]

\* A step can be repeated as often as one likes.
LEMMA Iterates ==
  ASSUME NEW n \in Nat, NEW S, NEW a \in S, NEW step \in [S -> S]
  PROVE  \E f \in [0 .. n -> S] : Repeats(f, a, step, n)
<1> DEFINE Right(m) == \E f \in [0 .. m -> S] : f[0] = a /\ \A d \in 1 .. m : f[d] = step[f[d - 1]]
           Wrong == {m \in Nat : ~ Right(m)}
<1>1. Right(0)
  <2>1. [d \in 0 .. 0 |-> a] \in [0 .. 0 -> S] /\ [d \in 0 .. 0 |-> a][0] = a
    OBVIOUS
  <2> WITNESS [d \in 0 .. 0 |-> a] \in [0 .. 0 -> S]
  <2> QED
    BY <2>1
<1>2. ASSUME NEW m \in Nat, Right(m) PROVE Right(m + 1)
  <2>1. PICK f \in [0 .. m -> S] : f[0] = a /\ \A d \in 1 .. m : f[d] = step[f[d - 1]]
    BY <1>2
  <2> DEFINE g == [d \in 0 .. m + 1 |-> IF d = m + 1 THEN step[f[m]] ELSE f[d]]
  <2>2. g \in [0 .. m + 1 -> S]
    OBVIOUS
  <2>3. g[0] = a
    BY <2>1
  <2>4. ASSUME NEW d \in 1 .. m + 1 PROVE g[d] = step[g[d - 1]]
    <3>1. CASE d = m + 1
      <4>1. g[d] = step[f[m]] /\ g[m] = f[m] /\ d - 1 = m
        BY <3>1
      <4> QED
        BY <4>1
    <3>2. CASE d # m + 1
      <4>1. d \in 1 .. m /\ g[d] = f[d] /\ g[d - 1] = f[d - 1]
        BY <3>2
      <4> QED
        BY <2>1, <4>1
    <3> QED
      BY <3>1, <3>2
  <2> HIDE DEF g
  <2> QED
    BY <2>2, <2>3, <2>4
<1>3. Wrong = {}
  <2> SUFFICES ASSUME Wrong # {} PROVE FALSE
    OBVIOUS
  <2>1. PICK m \in Wrong : \A k \in Wrong : m <= k
    <3> HIDE DEF Right
    <3> QED
      BY LeastNumber
  <2>2. m # 0 /\ m \in Nat
    BY <1>1
  <2>3. m - 1 \in Nat /\ (m - 1) + 1 = m
    BY <2>2
  <2>4. Right(m - 1)
    <3> HIDE DEF Right
    <3> QED
      BY <2>1, <2>2, <2>3
  <2> HIDE DEF Right
  <2>5. Right((m - 1) + 1)
    BY <1>2, <2>3, <2>4
  <2> QED
    BY <2>3, <2>5
<1> QED
  BY <1>3 DEF Repeats

\* What a set becomes by one more link.
Linked(X, closed) == X \cup {e.to : e \in {e \in built.edges : e.from \in X \ closed}}

\* What can be reached in one link more.
LEMMA OneLinkMore ==
  ASSUME NEW ids, NEW closed, NEW most \in Nat
  PROVE  /\ Within(ids, closed, most)[0] = ids
         /\ \A d \in 1 .. most :
              Within(ids, closed, most)[d] = Linked(Within(ids, closed, most)[d - 1], closed)
<1> DEFINE U == ids \cup {e.to : e \in built.edges}
           step == [X \in SUBSET U |-> Linked(X, closed)]
           Steps(f) == [d \in 0 .. most |->
                          IF d = 0 THEN ids
                          ELSE f[d - 1] \cup {e.to : e \in {e \in built.edges : e.from \in f[d - 1] \ closed}}]
           within == CHOOSE f : f = Steps(f)
<1>1. step \in [SUBSET U -> SUBSET U] /\ ids \in SUBSET U
  BY DEF Linked
<1>2. PICK g \in [0 .. most -> SUBSET U] : g[0] = ids /\ \A d \in 1 .. most : g[d] = step[g[d - 1]]
  <2> DEFINE S == SUBSET U
  <2>1. step \in [S -> S] /\ ids \in S
    BY <1>1
  <2> HIDE DEF step, S
  <2>2. \E g \in [0 .. most -> S] : Repeats(g, ids, step, most)
    BY <2>1, Iterates
  <2> QED
    BY <2>2 DEF S, Repeats
<1>3. g = Steps(g)
  <2>1. ASSUME NEW d \in 0 .. most PROVE g[d] = Steps(g)[d]
    <3>1. CASE d = 0
      BY <1>2, <3>1
    <3>2. CASE d # 0
      <4>1. d \in 1 .. most /\ d - 1 \in 0 .. most
        BY <3>2
      <4>2. g[d - 1] \in SUBSET U
        BY <4>1
      <4>3. g[d] = Linked(g[d - 1], closed)
        BY <1>2, <4>1, <4>2
      <4> QED
        BY <3>2, <4>3 DEF Linked
    <3> QED
      BY <3>1, <3>2
  <2>2. DOMAIN Steps(g) = 0 .. most /\ Steps(g) = [d \in 0 .. most |-> Steps(g)[d]]
    OBVIOUS
  <2> HIDE DEF Steps
  <2> QED
    BY <2>1, <2>2
<1>4. within = Steps(within)
  <2> HIDE DEF Steps
  <2>1. \E f : f = Steps(f)
    BY <1>3
  <2> QED
    BY <2>1
<1>5. Within(ids, closed, most) = within
  BY DEF Within
<1> HIDE DEF within
<1>6. within[0] = ids
  BY <1>4
<1>7. ASSUME NEW d \in 1 .. most PROVE within[d] = Linked(within[d - 1], closed)
  <2>1. d \in 0 .. most /\ d # 0
    OBVIOUS
  <2>2. within[d] = Steps(within)[d]
    BY <1>4
  <2> QED
    BY <2>1, <2>2 DEF Linked
<1> QED
  BY <1>5, <1>6, <1>7

\* Each edge begins where the walk has come, and that is not toId.
Open(w) ==
  \A i \in 1 .. Len(w) :
    /\ w[i].from = IF i = 1 THEN search.from ELSE w[i - 1].to
    /\ w[i].from # search.to

\* A walk goes on with an edge that leaves its end.
LEMMA OpenGoesOn ==
  ASSUME NEW E, NEW w \in Seq(E), NEW e \in E
  PROVE  /\ Append(w, e) \in Seq(E) /\ Len(Append(w, e)) = Len(w) + 1
         /\ EndOf(Append(w, e)) = e.to
         /\ Open(Append(w, e)) <=> Open(w) /\ e.from = EndOf(w) /\ EndOf(w) # search.to
<1> DEFINE v == Append(w, e)
           n == Len(w)
<1>1. /\ v \in Seq(E) /\ Len(v) = n + 1 /\ n \in Nat /\ v # <<>>
      /\ \A i \in 1 .. n : v[i] = w[i]
      /\ v[n + 1] = e
  BY AppendProperties
<1>2. EndOf(w) = IF n + 1 = 1 THEN search.from ELSE w[n].to
  <2>1. w = <<>> <=> n = 0
    BY EmptySeq
  <2> QED
    BY <1>1, <2>1 DEF EndOf, Last
<1>3. EndOf(v) = e.to
  BY <1>1 DEF EndOf, Last
<1> HIDE DEF v, n
<1>4. \A i \in 1 .. n : (IF i = 1 THEN search.from ELSE v[i - 1].to) = (IF i = 1 THEN search.from ELSE w[i - 1].to)
  <2> TAKE i \in 1 .. n
  <2>1. i = 1 \/ i - 1 \in 1 .. n
    BY <1>1
  <2> QED
    BY <1>1, <2>1
<1>5. (IF n + 1 = 1 THEN search.from ELSE v[(n + 1) - 1].to) = EndOf(w)
  <2>1. n + 1 = 1 \/ (n \in 1 .. n /\ (n + 1) - 1 = n)
    BY <1>1
  <2> QED
    BY <1>1, <1>2, <2>1
<1>6. Open(v) => Open(w) /\ e.from = EndOf(w) /\ EndOf(w) # search.to
  <2> SUFFICES ASSUME Open(v) PROVE Open(w) /\ e.from = EndOf(w) /\ EndOf(w) # search.to
    OBVIOUS
  <2>1. n + 1 \in 1 .. Len(v) /\ \A i \in 1 .. n : i \in 1 .. Len(v)
    BY <1>1
  <2>2. Open(w)
    BY <1>1, <1>4, <2>1 DEF Open, n
  <2> QED
    BY <1>1, <1>5, <2>1, <2>2 DEF Open
<1>7. Open(w) /\ e.from = EndOf(w) /\ EndOf(w) # search.to => Open(v)
  <2> SUFFICES ASSUME Open(w), e.from = EndOf(w), EndOf(w) # search.to, NEW i \in 1 .. Len(v)
               PROVE  /\ v[i].from = IF i = 1 THEN search.from ELSE v[i - 1].to
                      /\ v[i].from # search.to
    BY DEF Open
  <2>1. CASE i = n + 1
    BY <1>1, <1>5, <2>1
  <2>2. CASE i # n + 1
    <3>1. i \in 1 .. n
      BY <1>1, <2>2
    <3>2. w[i].from = (IF i = 1 THEN search.from ELSE w[i - 1].to) /\ w[i].from # search.to
      BY <3>1 DEF Open, n
    <3> QED
      BY <1>1, <1>4, <3>1, <3>2
  <2> QED
    BY <2>1, <2>2
<1> QED
  BY <1>1, <1>3, <1>6, <1>7 DEF v, n

\* The searches' walks are made of edges of the graph.
WalksOf(n) == {w \in Seq(built.edges) : Len(w) = n /\ Open(w)}

\* What walks become by one edge more.
Extended(X) == UNION {{Append(w, e) : e \in Out(EndOf(w))} : w \in {v \in X : EndOf(v) # search.to}}

\* The walks one edge longer.
LEMMA OneEdgeMore ==
  ASSUME NEW n \in Nat
  PROVE  WalksOf(n + 1) = Extended(WalksOf(n))
<1>1. ASSUME NEW v \in WalksOf(n + 1) PROVE v \in Extended(WalksOf(n))
  <2>1. v \in Seq(built.edges) /\ Len(v) = n + 1 /\ Open(v)
    BY DEF WalksOf
  <2>2. PICK w \in Seq(built.edges), e \in built.edges : v = Append(w, e)
    <3> DEFINE E == built.edges
    <3>1. v \in Seq(E) /\ v # <<>>
      BY <2>1
    <3> HIDE DEF E
    <3>2. \E w \in Seq(E), e \in E : v = Append(w, e)
      BY <3>1, SequenceEmptyOrAppend
    <3> QED
      BY <3>2 DEF E
  <2>3. w \in WalksOf(n) /\ e \in Out(EndOf(w)) /\ EndOf(w) # search.to
    BY <2>1, <2>2, OpenGoesOn DEF WalksOf, Out
  <2> QED
    BY <2>2, <2>3 DEF Extended
<1>2. ASSUME NEW v \in Extended(WalksOf(n)) PROVE v \in WalksOf(n + 1)
  <2>1. PICK w \in WalksOf(n) : EndOf(w) # search.to /\ v \in {Append(w, e) : e \in Out(EndOf(w))}
    BY DEF Extended
  <2>2. PICK e \in built.edges : v = Append(w, e) /\ e.from = EndOf(w)
    BY <2>1 DEF Out
  <2> QED
    BY <2>1, <2>2, OpenGoesOn DEF WalksOf
<1> QED
  BY <1>1, <1>2

\* The one walk without an edge.
LEMMA NoEdge == WalksOf(0) = {<<>>}
<1>1. <<>> \in WalksOf(0)
  BY DEF WalksOf, Open
<1>2. ASSUME NEW w \in WalksOf(0) PROVE w = <<>>
  BY EmptySeq DEF WalksOf
<1> QED
  BY <1>1, <1>2

\* Walks are what their name says.
LEMMA WalksAreOpen ==
  ASSUME Longest \in Nat
  PROVE  Walks = UNION {WalksOf(n) : n \in 0 .. Longest}
<1> DEFINE Steps(f) == [n \in 0 .. Longest |-> IF n = 0 THEN {<<>>} ELSE Extended(f[n - 1])]
           all == [n \in 0 .. Longest |-> WalksOf(n)]
           walks == CHOOSE f : f = Steps(f)
<1>1. all = Steps(all)
  <2>1. ASSUME NEW n \in 0 .. Longest PROVE all[n] = Steps(all)[n]
    <3>1. CASE n = 0
      BY <3>1, NoEdge
    <3>2. CASE n # 0
      <4>1. n - 1 \in Nat /\ n - 1 \in 0 .. Longest /\ (n - 1) + 1 = n
        BY <3>2
      <4>2. WalksOf((n - 1) + 1) = Extended(WalksOf(n - 1))
        BY <4>1, OneEdgeMore
      <4> QED
        BY <3>2, <4>1, <4>2
    <3> QED
      BY <3>1, <3>2
  <2> DEFINE more == Steps(all)
  <2>2. DOMAIN more = 0 .. Longest /\ more = [n \in 0 .. Longest |-> more[n]]
    OBVIOUS
  <2>3. DOMAIN all = 0 .. Longest /\ all = [n \in 0 .. Longest |-> all[n]]
    OBVIOUS
  <2> HIDE DEF Steps, all
  <2> QED
    BY <2>1, <2>2, <2>3
<1>2. walks = Steps(walks)
  <2> HIDE DEF Steps
  <2>1. \E f : f = Steps(f)
    BY <1>1
  <2> QED
    BY <2>1
<1>3. Walks = UNION {walks[n] : n \in 0 .. Longest}
  BY DEF Walks, Extended
<1> HIDE DEF walks
<1>4. \A n \in 0 .. Longest : walks[n] = WalksOf(n)
  <2> DEFINE Wrong == {n \in 0 .. Longest : walks[n] # WalksOf(n)}
  <2> SUFFICES ASSUME Wrong # {} PROVE FALSE
    OBVIOUS
  <2>1. PICK n \in Wrong : \A k \in Wrong : n <= k
    <3>1. Wrong \in SUBSET Nat
      OBVIOUS
    <3> HIDE DEF Wrong
    <3> QED
      BY <3>1, LeastNumber
  <2>2. n \in 0 .. Longest /\ walks[n] = Steps(walks)[n]
    BY <1>2
  <2>3. n # 0
    BY <2>2, NoEdge
  <2>4. n - 1 \in 0 .. Longest /\ n - 1 \in Nat /\ (n - 1) + 1 = n /\ n - 1 \notin Wrong
    BY <2>1, <2>3
  <2>5. walks[n - 1] = WalksOf(n - 1)
    BY <2>4
  <2>6. walks[n] = Extended(walks[n - 1])
    BY <2>2, <2>3
  <2>7. WalksOf((n - 1) + 1) = Extended(WalksOf(n - 1))
    BY <2>4, OneEdgeMore
  <2> QED
    BY <2>4, <2>5, <2>6, <2>7
<1> QED
  BY <1>3, <1>4

-----------------------------------------------------------------------------
\* A finite set is listed, every element once.
LEMMA SetListed ==
  ASSUME NEW S, IsFiniteSet(S)
  PROVE  /\ SetToSeq(S) \in Seq(S) /\ IsInjective(SetToSeq(S)) /\ Range(SetToSeq(S)) = S
         /\ Len(SetToSeq(S)) = Cardinality(S)
<1> DEFINE n == Cardinality(S)
           list == SetToSeq(S)
<1>1. n \in Nat /\ \E f \in Bijection(1 .. n, S) : TRUE
  BY FS_CardinalityType DEF ExistsBijection
<1>2. PICK f \in Bijection(1 .. n, S) : TRUE
  BY <1>1
<1>3. f \in [1 .. n -> S] /\ IsInjective(f)
  BY DEF Bijection, Injection
<1>4. list \in [1 .. n -> S] /\ IsInjective(list)
  BY <1>3 DEF SetToSeq
<1>5. list \in Surjection(1 .. n, S)
  <2>1. list \in Injection(1 .. n, S)
    BY <1>4 DEF Injection
  <2>2. Cardinality(1 .. n) = n
    BY <1>1, FS_Interval
  <2> HIDE DEF list
  <2> QED
    BY <2>1, <2>2, FS_Injection
<1>6. Range(list) = S
  BY <1>4, <1>5 DEF Surjection, Range
<1> HIDE DEF list, n
<1>7. list \in Seq(S) /\ Len(list) = n
  BY <1>1, <1>4
<1> QED
  BY <1>4, <1>6, <1>7 DEF list, n

\* A list without repetitions is as long as what it lists is large.
LEMMA ListCounts ==
  ASSUME NEW S, NEW s \in Seq(S), IsInjective(s)
  PROVE  Len(s) = Cardinality(Range(s))
<1> DEFINE n == Len(s)
<1>1. n \in Nat /\ s \in [1 .. n -> Range(s)] /\ DOMAIN s = 1 .. n
  BY DEF Range
<1>2. s \in Bijection(1 .. n, Range(s))
  BY <1>1 DEF Bijection, Injection, Surjection, Range
<1> HIDE DEF n
<1> QED
  BY <1>1, <1>2, FS_CountingElements DEF ExistsBijection, n

\* Two lists that share nothing make one.
LEMMA ListsJoin ==
  ASSUME NEW S, NEW s \in Seq(S), NEW t \in Seq(S), IsInjective(s), IsInjective(t),
         Range(s) \cap Range(t) = {}
  PROVE  s \o t \in Seq(S) /\ IsInjective(s \o t) /\ Range(s \o t) = Range(s) \cup Range(t)
<1>1. /\ s \o t \in Seq(S) /\ Len(s \o t) = Len(s) + Len(t) /\ Len(s) \in Nat /\ Len(t) \in Nat
      /\ \A i \in 1 .. Len(s) + Len(t) : (s \o t)[i] = IF i <= Len(s) THEN s[i] ELSE t[i - Len(s)]
  BY ConcatProperties
<1>2. Range(s \o t) = Range(s) \cup Range(t)
  BY RangeConcatenation
<1>3. ASSUME NEW i \in 1 .. Len(s), NEW j \in 1 .. Len(t) PROVE s[i] # t[j]
  <2>1. s[i] \in Range(s) /\ t[j] \in Range(t)
    BY DEF Range
  <2> QED
    BY <2>1
<1>4. ASSUME NEW i \in 1 .. Len(s) + Len(t), NEW j \in 1 .. Len(s) + Len(t), (s \o t)[i] = (s \o t)[j]
      PROVE  i = j
  <2>1. CASE i <= Len(s) /\ j <= Len(s)
    BY <1>1, <1>4, <2>1 DEF IsInjective
  <2>2. CASE i <= Len(s) /\ ~ j <= Len(s)
    <3>1. i \in 1 .. Len(s) /\ j - Len(s) \in 1 .. Len(t) /\ s[i] = t[j - Len(s)]
      BY <1>1, <1>4, <2>2
    <3> QED
      BY <1>3, <3>1
  <2>3. CASE ~ i <= Len(s) /\ j <= Len(s)
    <3>1. j \in 1 .. Len(s) /\ i - Len(s) \in 1 .. Len(t) /\ s[j] = t[i - Len(s)]
      BY <1>1, <1>4, <2>3
    <3> QED
      BY <1>3, <3>1
  <2>4. CASE ~ i <= Len(s) /\ ~ j <= Len(s)
    <3>1. /\ i - Len(s) \in 1 .. Len(t) /\ j - Len(s) \in 1 .. Len(t)
          /\ t[i - Len(s)] = t[j - Len(s)]
      BY <1>1, <1>4, <2>4
    <3>2. i - Len(s) = j - Len(s)
      BY <3>1 DEF IsInjective
    <3> QED
      BY <1>1, <3>2
  <2> QED
    BY <2>1, <2>2, <2>3, <2>4
<1>5. DOMAIN (s \o t) = 1 .. Len(s) + Len(t)
  BY <1>1
<1> QED
  BY <1>1, <1>2, <1>4, <1>5 DEF IsInjective

\* What a finite set is mapped to is finite.
LEMMA FiniteImage ==
  ASSUME NEW f, IsFiniteSet(DOMAIN f)
  PROVE  IsFiniteSet({f[x] : x \in DOMAIN f})
<1> DEFINE T == {f[x] : x \in DOMAIN f}
           g == [x \in DOMAIN f |-> f[x]]
<1>1. g \in Surjection(DOMAIN f, T)
  BY DEF Surjection
<1> HIDE DEF T
<1> QED
  BY <1>1, FS_Surjection DEF T

\* Rows are as their writers leave them.
RowsWell ==
  /\ rows \in [Tables -> Seq([id : Ids, links : SUBSET Ids])]
  /\ \A i \in DOMAIN rows["candidate_history"] : Has("candidate", rows["candidate_history"][i].id)
  /\ \A i \in DOMAIN rows["intelligence_extraction"] :
       Has("intelligence_source", rows["intelligence_extraction"][i].id)

\* The ids of the graph's nodes.
NodeIds == {n.id : n \in built.nodes}

\* The graph is finite, and its edges lead to its nodes.
GraphWell ==
  /\ IsFiniteSet(built.nodes) /\ IsFiniteSet(built.edges)
  /\ \A e \in built.edges : e.to \in NodeIds

\* The rows of a table are finitely many.
LEMMA TablesFinite ==
  ASSUME RowsWell, NEW t \in Tables
  PROVE  IsFiniteSet(DOMAIN rows[t]) /\ IsFiniteSet(Range(rows[t]))
<1>1. rows[t] \in Seq([id : Ids, links : SUBSET Ids])
  BY DEF RowsWell
<1>2. DOMAIN rows[t] = 1 .. Len(rows[t]) /\ Len(rows[t]) \in Nat
  BY <1>1
<1>3. IsFiniteSet(DOMAIN rows[t])
  BY <1>2, FS_Interval
<1> QED
  BY <1>3, FiniteImage DEF Range

\* The nodes of finitely many rows are finitely many.
LEMMA NodesFinite ==
  ASSUME RowsWell
  PROVE  IsFiniteSet(GraphNodes)
<1> DEFINE runs == Range(rows["trajectory"]) \cup Range(rows["evaluation_score"])
           derived == {"evaluation_score", "evaluation_raw", "candidate_history",
                       "candidate_benchmark", "intelligence_extraction"}
           Of(t) == {[kind |-> t, id |-> Derived(t, i)] : i \in DOMAIN rows[t]}
<1>1. IsFiniteSet({[kind |-> "trajectory", id |-> row.id] : row \in runs})
  <2> DEFINE f == [row \in runs |-> [kind |-> "trajectory", id |-> row.id]]
  <2>1. IsFiniteSet(runs)
    BY TablesFinite, FS_Union DEF Tables
  <2>2. {[kind |-> "trajectory", id |-> row.id] : row \in runs} = {f[row] : row \in DOMAIN f} /\ DOMAIN f = runs
    OBVIOUS
  <2> HIDE DEF f, runs
  <2> QED
    BY <2>1, <2>2, FiniteImage
<1>2. IsFiniteSet({[kind |-> "intelligence_source", id |-> row.id] : row \in Range(rows["intelligence_source"])})
  <2> DEFINE S == Range(rows["intelligence_source"])
             f == [row \in S |-> [kind |-> "intelligence_source", id |-> row.id]]
  <2>1. IsFiniteSet(S)
    BY TablesFinite DEF Tables
  <2>2. {[kind |-> "intelligence_source", id |-> row.id] : row \in S} = {f[row] : row \in DOMAIN f} /\ DOMAIN f = S
    OBVIOUS
  <2> HIDE DEF f, S
  <2>3. IsFiniteSet({[kind |-> "intelligence_source", id |-> row.id] : row \in S})
    BY <2>1, <2>2, FiniteImage
  <2> QED
    BY <2>3 DEF S
<1>3. IsFiniteSet(Candidates)
  <2> DEFINE t == rows["candidate"]
             f == [i \in DOMAIN t |-> t[i].id]
             T == {f[i] : i \in DOMAIN f}
  <2>1. IsFiniteSet(DOMAIN f)
    BY TablesFinite DEF Tables
  <2>2. Candidates \subseteq T
    BY DEF Candidates, Has
  <2> HIDE DEF f
  <2>3. IsFiniteSet(T)
    BY <2>1, FiniteImage
  <2> HIDE DEF T
  <2> QED
    BY <2>2, <2>3, FS_Subset
<1>4. IsFiniteSet({[kind |-> "candidate", id |-> c] : c \in Candidates})
  <2> DEFINE f == [c \in Candidates |-> [kind |-> "candidate", id |-> c]]
  <2>1. {[kind |-> "candidate", id |-> c] : c \in Candidates} = {f[c] : c \in DOMAIN f} /\ DOMAIN f = Candidates
    OBVIOUS
  <2> HIDE DEF f
  <2> QED
    BY <1>3, <2>1, FiniteImage
<1>5. ASSUME NEW t \in derived PROVE IsFiniteSet(Of(t))
  <2> DEFINE f == [i \in DOMAIN rows[t] |-> [kind |-> t, id |-> Derived(t, i)]]
  <2>1. IsFiniteSet(DOMAIN rows[t])
    BY TablesFinite DEF Tables
  <2>2. Of(t) = {f[i] : i \in DOMAIN f} /\ DOMAIN f = DOMAIN rows[t]
    OBVIOUS
  <2> HIDE DEF f, Of
  <2> QED
    BY <2>1, <2>2, FiniteImage
<1>6. IsFiniteSet(UNION {Of(t) : t \in derived})
  <2> HIDE DEF Of
  <2>1. /\ IsFiniteSet(Of("evaluation_score") \cup Of("evaluation_raw"))
        /\ IsFiniteSet(Of("candidate_history") \cup Of("candidate_benchmark"))
    BY <1>5, FS_Union
  <2>2. IsFiniteSet((Of("evaluation_score") \cup Of("evaluation_raw"))
                      \cup (Of("candidate_history") \cup Of("candidate_benchmark")))
    BY <2>1, FS_Union
  <2>3. IsFiniteSet(((Of("evaluation_score") \cup Of("evaluation_raw"))
                      \cup (Of("candidate_history") \cup Of("candidate_benchmark"))) \cup Of("intelligence_extraction"))
    BY <1>5, <2>2, FS_Union
  <2>4. UNION {Of(t) : t \in derived}
          = ((Of("evaluation_score") \cup Of("evaluation_raw"))
                \cup (Of("candidate_history") \cup Of("candidate_benchmark"))) \cup Of("intelligence_extraction")
    OBVIOUS
  <2> QED
    BY <2>3, <2>4
<1> DEFINE A == {[kind |-> "trajectory", id |-> row.id] : row \in runs}
           B == {[kind |-> "intelligence_source", id |-> row.id] : row \in Range(rows["intelligence_source"])}
           C == {[kind |-> "candidate", id |-> c] : c \in Candidates}
           D == UNION {Of(t) : t \in derived}
<1>7. GraphNodes = ((A \cup B) \cup C) \cup D
  BY DEF GraphNodes
<1> HIDE DEF A, B, C, D
<1>8. IsFiniteSet((A \cup B) \cup C)
  <2>1. IsFiniteSet(A \cup B)
    BY <1>1, <1>2, FS_Union DEF A, B
  <2> QED
    BY <1>4, <2>1, FS_Union DEF C
<1>9. IsFiniteSet(D)
  BY <1>6 DEF D
<1> QED
  BY <1>7, <1>8, <1>9, FS_Union

\* So are the edges of finitely many rows.
LEMMA EdgesFinite ==
  ASSUME RowsWell
  PROVE  /\ \A t \in Tables : IsFiniteSet(FromSubject(t)) /\ IsFiniteSet(ToSubject(t))
         /\ IsFiniteSet(References)
<1>1. ASSUME NEW t \in Tables PROVE IsFiniteSet(FromSubject(t))
  <2> DEFINE f == [i \in DOMAIN rows[t] |-> Edge(rows[t][i].id, Derived(t, i), t, i)]
  <2>1. FromSubject(t) = {f[i] : i \in DOMAIN f} /\ DOMAIN f = DOMAIN rows[t]
    BY DEF FromSubject
  <2> HIDE DEF f
  <2> QED
    BY <2>1, TablesFinite, FiniteImage
<1>2. ASSUME NEW t \in Tables PROVE IsFiniteSet(ToSubject(t))
  <2> DEFINE f == [i \in DOMAIN rows[t] |-> Edge(Derived(t, i), rows[t][i].id, t, i)]
  <2>1. ToSubject(t) = {f[i] : i \in DOMAIN f} /\ DOMAIN f = DOMAIN rows[t]
    BY DEF ToSubject
  <2> HIDE DEF f
  <2> QED
    BY <2>1, TablesFinite, FiniteImage
<1>3. IsFiniteSet(References)
  <2> DEFINE ids == {n.id : n \in GraphNodes}
             triples == (Candidates \X ids) \X (1 .. 2)
             f == [x \in triples |-> Edge(x[1][1], x[1][2], "references", x[2])]
  <2>1. IsFiniteSet(ids)
    <3> DEFINE g == [n \in GraphNodes |-> n.id]
    <3>1. ids = {g[n] : n \in DOMAIN g} /\ DOMAIN g = GraphNodes
      OBVIOUS
    <3> HIDE DEF g
    <3> QED
      BY <3>1, NodesFinite, FiniteImage
  <2>2. IsFiniteSet(Candidates)
    <3>1. ASSUME NEW c \in Candidates PROVE c \in ids
      <4>1. [kind |-> "candidate", id |-> c] \in GraphNodes /\ [kind |-> "candidate", id |-> c].id = c
        BY DEF GraphNodes
      <4> QED
        BY <4>1
    <3> HIDE DEF ids
    <3> QED
      BY <2>1, <3>1, FS_Subset
  <2>3. IsFiniteSet(triples)
    <3> DEFINE pairs == Candidates \X ids
               passes == 1 .. 2
    <3> HIDE DEF ids
    <3>1. IsFiniteSet(pairs)
      BY <2>1, <2>2, FS_Product
    <3>2. IsFiniteSet(passes)
      <4>1. passes = {1} \cup {2}
        OBVIOUS
      <4> HIDE DEF passes
      <4> QED
        BY <4>1, FS_Singleton, FS_Union
    <3> HIDE DEF pairs, passes
    <3>3. IsFiniteSet(pairs \X passes)
      BY <3>1, <3>2, FS_Product
    <3> QED
      BY <3>3 DEF pairs, passes
  <2>4. References \subseteq {f[x] : x \in DOMAIN f}
    <3> SUFFICES ASSUME NEW e \in References PROVE e \in {f[x] : x \in DOMAIN f}
      OBVIOUS
    <3>1. PICK c \in Candidates :
             e \in {Edge(c, ref, "references", pass) : ref \in LinksOf(c) \cap ids, pass \in 1 .. 2}
      BY DEF References
    <3>2. PICK ref \in LinksOf(c) \cap ids, pass \in 1 .. 2 : e = Edge(c, ref, "references", pass)
      BY <3>1
    <3>3. <<<<c, ref>>, pass>> \in triples
      OBVIOUS
    <3>4. f[<<<<c, ref>>, pass>>] = e
      BY <3>2, <3>3
    <3> QED
      BY <3>3, <3>4
  <2> HIDE DEF f
  <2>5. IsFiniteSet({f[x] : x \in DOMAIN f})
    <3>1. DOMAIN f = triples
      BY DEF f
    <3> HIDE DEF triples
    <3> QED
      BY <2>3, <3>1, FiniteImage
  <2> QED
    BY <2>4, <2>5, FS_Subset
<1> QED
  BY <1>1, <1>2, <1>3

\* An edge leads from or to the node of its row.
LEMMA RowNodes ==
  ASSUME NEW t \in {"evaluation_score", "evaluation_raw", "candidate_history",
                    "candidate_benchmark", "intelligence_extraction"},
         NEW i \in DOMAIN rows[t]
  PROVE  Derived(t, i) \in {n.id : n \in GraphNodes}
<1> DEFINE n == [kind |-> t, id |-> Derived(t, i)]
<1>1. n \in GraphNodes
  BY DEF GraphNodes
<1>2. n.id = Derived(t, i)
  OBVIOUS
<1> QED
  BY <1>1, <1>2

\* The edges of a graph lead to its nodes.
LEMMA TargetsKnown ==
  ASSUME RowsWell,
         NEW e \in FromSubject("evaluation_score") \cup ToSubject("candidate_history")
                     \cup FromSubject("candidate_benchmark")
                     \cup ToSubject("intelligence_extraction")
                     \cup References \cup Ambiguous
  PROVE  e.to \in {n.id : n \in GraphNodes}
<1>1. ASSUME NEW t \in {"evaluation_score", "evaluation_raw", "candidate_benchmark"}, e \in FromSubject(t)
      PROVE  e.to \in {n.id : n \in GraphNodes}
  <2>1. PICK i \in DOMAIN rows[t] : e = Edge(rows[t][i].id, Derived(t, i), t, i)
    BY <1>1 DEF FromSubject
  <2>2. e.to = Derived(t, i)
    BY <2>1 DEF Edge
  <2> QED
    BY <2>2, RowNodes
<1>2. CASE e \in ToSubject("candidate_history")
  <2> DEFINE h == rows["candidate_history"]
  <2>1. PICK i \in DOMAIN h : e = Edge(Derived("candidate_history", i), h[i].id, "candidate_history", i)
    BY <1>2 DEF ToSubject
  <2>2. e.to = h[i].id
    BY <2>1 DEF Edge
  <2>3. h[i].id \in Candidates
    <3> DEFINE R == [id : Ids, links : SUBSET Ids]
    <3>1. h \in Seq(R)
      BY DEF RowsWell, Tables
    <3>2. h[i] \in R
      <4>1. i \in DOMAIN h
        BY <2>1
      <4> HIDE DEF h, R
      <4> QED
        BY <3>1, <4>1
    <3> QED
      BY <3>2 DEF RowsWell, Candidates
  <2>4. [kind |-> "candidate", id |-> h[i].id] \in GraphNodes
    BY <2>3 DEF GraphNodes
  <2>5. [kind |-> "candidate", id |-> h[i].id].id = h[i].id
    OBVIOUS
  <2> HIDE DEF h
  <2> QED
    BY <2>2, <2>4, <2>5
<1>3. CASE e \in ToSubject("intelligence_extraction")
  <2> DEFINE h == rows["intelligence_extraction"]
             s == rows["intelligence_source"]
  <2>1. PICK i \in DOMAIN h : e = Edge(Derived("intelligence_extraction", i), h[i].id, "intelligence_extraction", i)
    BY <1>3 DEF ToSubject
  <2>2. e.to = h[i].id
    BY <2>1 DEF Edge
  <2>3. PICK j \in DOMAIN s : s[j].id = h[i].id
    BY DEF RowsWell, Has
  <2>4. [kind |-> "intelligence_source", id |-> s[j].id] \in GraphNodes
    BY DEF GraphNodes, Range
  <2>5. [kind |-> "intelligence_source", id |-> s[j].id].id = s[j].id
    OBVIOUS
  <2> HIDE DEF h, s
  <2> QED
    BY <2>2, <2>3, <2>4, <2>5
<1>4. CASE e \in References
  <2>1. PICK c \in Candidates :
           e \in {Edge(c, ref, "references", pass) :
                    ref \in LinksOf(c) \cap {n.id : n \in GraphNodes}, pass \in 1 .. 2}
    BY <1>4 DEF References
  <2>2. PICK ref \in LinksOf(c) \cap {n.id : n \in GraphNodes}, pass \in 1 .. 2 : e = Edge(c, ref, "references", pass)
    BY <2>1
  <2> QED
    BY <2>2 DEF Edge
<1>5. CASE e \in Ambiguous
  <2>1. e \in FromSubject("evaluation_raw")
    BY <1>5 DEF Ambiguous
  <2> QED
    BY <1>1, <2>1
<1> QED
  BY <1>1, <1>2, <1>3, <1>4, <1>5

\* So a graph that was made is well.
LEMMA GraphMade ==
  ASSUME RowsWell, BuildGraph
  PROVE  GraphWell'
<1>1. IsFiniteSet(built'.nodes)
  BY NodesFinite DEF BuildGraph
<1>2. IsFiniteSet(built'.edges)
  <2> DEFINE A == FromSubject("evaluation_score")
             B == ToSubject("candidate_history")
             C == FromSubject("candidate_benchmark")
             D == ToSubject("intelligence_extraction")
             F == Ambiguous
  <2>1. IsFiniteSet(A) /\ IsFiniteSet(B) /\ IsFiniteSet(C) /\ IsFiniteSet(D) /\ IsFiniteSet(References)
    BY EdgesFinite DEF Tables
  <2>2. IsFiniteSet(F)
    <3>1. IsFiniteSet(FromSubject("evaluation_raw"))
      BY EdgesFinite DEF Tables
    <3>2. Ambiguous \subseteq FromSubject("evaluation_raw")
      BY DEF Ambiguous
    <3> QED
      BY <3>1, <3>2, FS_Subset
  <2>3. built'.edges = A \cup B \cup C \cup D \cup References \cup F
    BY DEF BuildGraph
  <2> HIDE DEF A, B, C, D, F
  <2>4. IsFiniteSet(A \cup B)
    BY <2>1, FS_Union
  <2>5. IsFiniteSet((A \cup B) \cup C)
    BY <2>1, <2>4, FS_Union
  <2>6. IsFiniteSet(((A \cup B) \cup C) \cup D)
    BY <2>1, <2>5, FS_Union
  <2>7. IsFiniteSet((((A \cup B) \cup C) \cup D) \cup References)
    BY <2>1, <2>6, FS_Union
  <2>8. IsFiniteSet(((((A \cup B) \cup C) \cup D) \cup References) \cup F)
    BY <2>2, <2>7, FS_Union
  <2> QED
    BY <2>3, <2>8
<1>3. ASSUME NEW e \in built'.edges PROVE e.to \in NodeIds'
  <2>1. e.to \in {n.id : n \in GraphNodes}
    BY TargetsKnown DEF BuildGraph
  <2>2. built'.nodes = GraphNodes
    BY DEF BuildGraph
  <2> QED
    BY <2>1, <2>2 DEF NodeIds
<1> QED
  BY <1>1, <1>2, <1>3 DEF GraphWell

\* Writers leave rows as they are to be.
LEMMA RowsKept ==
  ASSUME RowsWell, NEW t \in Tables, NEW id \in Ids, NEW links \in SUBSET Ids, AddRow(t, id, links)
  PROVE  RowsWell'
<1> DEFINE R == [id : Ids, links : SUBSET Ids]
           row == [id |-> id, links |-> links]
           h == "candidate_history"
           x == "intelligence_extraction"
<1>1. rows' = [rows EXCEPT ![t] = Append(@, row)] /\ row \in R /\ rows \in [Tables -> Seq(R)]
  BY DEF AddRow, RowsWell
<1>2. Append(rows[t], row) \in Seq(R)
  <2>1. rows[t] \in Seq(R)
    BY <1>1
  <2> HIDE DEF R, row
  <2> QED
    BY <1>1, <2>1, AppendProperties
<1>3. rows' \in [Tables -> Seq(R)]
  <2> HIDE DEF R, row
  <2> QED
    BY <1>1, <1>2
<1>4. ASSUME NEW u \in Tables
      PROVE  /\ DOMAIN rows[u] \subseteq DOMAIN rows'[u]
             /\ \A i \in DOMAIN rows[u] : rows'[u][i] = rows[u][i]
             /\ \A i \in DOMAIN rows'[u] :
                  i \notin DOMAIN rows[u] => u = t /\ rows'[u][i] = row
  <2>1. rows[u] \in Seq(R)
    BY <1>1
  <2>2. CASE u # t
    BY <1>1, <2>2
  <2>3. CASE u = t
    <3>1. rows'[u] = Append(rows[u], row)
      BY <1>1, <2>3
    <3> HIDE DEF R, row
    <3> QED
      BY <1>1, <2>1, <2>3, <3>1, AppendProperties
  <2> QED
    BY <2>2, <2>3
<1>5. ASSUME NEW u \in Tables, NEW i, Has(u, i) PROVE \E j \in DOMAIN rows'[u] : rows'[u][j].id = i
  <2>1. PICK j \in DOMAIN rows[u] : rows[u][j].id = i
    BY <1>5 DEF Has
  <2>2. j \in DOMAIN rows'[u] /\ rows'[u][j] = rows[u][j]
    BY <1>4
  <2> QED
    BY <2>1, <2>2
<1>6. ASSUME NEW i \in DOMAIN rows'[h]
      PROVE  \E j \in DOMAIN rows'["candidate"] : rows'["candidate"][j].id = rows'[h][i].id
  <2>1. CASE i \in DOMAIN rows[h]
    <3>1. Has("candidate", rows[h][i].id) /\ rows'[h][i] = rows[h][i]
      BY <1>4, <2>1 DEF RowsWell, Tables
    <3> QED
      BY <1>5, <3>1 DEF Tables
  <2>2. CASE i \notin DOMAIN rows[h]
    <3>1. t = h /\ rows'[h][i].id = id
      BY <1>4, <2>2 DEF Tables
    <3>2. Has("candidate", id)
      BY <3>1 DEF AddRow
    <3> QED
      BY <1>5, <3>1, <3>2 DEF Tables
  <2> QED
    BY <2>1, <2>2
<1>7. ASSUME NEW i \in DOMAIN rows'[x]
      PROVE  \E j \in DOMAIN rows'["intelligence_source"] : rows'["intelligence_source"][j].id = rows'[x][i].id
  <2>1. CASE i \in DOMAIN rows[x]
    <3>1. Has("intelligence_source", rows[x][i].id) /\ rows'[x][i] = rows[x][i]
      BY <1>4, <2>1 DEF RowsWell, Tables
    <3> QED
      BY <1>5, <3>1 DEF Tables
  <2>2. CASE i \notin DOMAIN rows[x]
    <3>1. t = x /\ rows'[x][i].id = id
      BY <1>4, <2>2 DEF Tables
    <3>2. Has("intelligence_source", id)
      BY <3>1 DEF AddRow
    <3> QED
      BY <1>5, <3>1, <3>2 DEF Tables
  <2> QED
    BY <2>1, <2>2
<1> QED
  BY <1>3, <1>6, <1>7 DEF RowsWell, Has

-----------------------------------------------------------------------------
\* What holds of a number and is handed on holds of the numbers after it.
LEMMA HandedOn ==
  ASSUME NEW a \in Nat, NEW b \in Nat, NEW S, a \in S, \A k \in a .. b : k < b /\ k \in S => k + 1 \in S
  PROVE  a .. b \subseteq S
<1> DEFINE Wrong == {k \in a .. b : k \notin S}
<1> SUFFICES ASSUME Wrong # {} PROVE FALSE
  OBVIOUS
<1>1. PICK m \in Wrong : \A k \in Wrong : m <= k
  <2>1. Wrong \in SUBSET Nat
    OBVIOUS
  <2> HIDE DEF Wrong
  <2> QED
    BY <2>1, LeastNumber
<1>2. m # a /\ m \in a .. b
  OBVIOUS
<1>3. m - 1 \in a .. b /\ m - 1 < b /\ (m - 1) + 1 = m /\ m - 1 \notin Wrong
  BY <1>1, <1>2
<1>4. m - 1 \in S
  BY <1>3
<1>5. (m - 1) + 1 \in S
  BY <1>3, <1>4
<1> QED
  BY <1>3, <1>5

\* One can reach more in more links ...
LEMMA MoreIsReached ==
  ASSUME NEW ids, NEW closed, NEW most \in Nat, NEW i \in 0 .. most, NEW j \in i .. most
  PROVE  Within(ids, closed, most)[i] \subseteq Within(ids, closed, most)[j]
<1> DEFINE w == Within(ids, closed, most)
           S == {k \in i .. most : w[i] \subseteq w[k]}
<1>1. \A d \in 1 .. most : w[d - 1] \subseteq w[d]
  BY OneLinkMore DEF Linked
<1> HIDE DEF w
<1>2. \A k \in i .. most : k < most /\ k \in S => k + 1 \in S
  <2> TAKE k \in i .. most
  <2> HAVE k < most /\ k \in S
  <2>1. k + 1 \in 1 .. most /\ (k + 1) - 1 = k /\ k + 1 \in i .. most
    OBVIOUS
  <2>2. w[(k + 1) - 1] \subseteq w[k + 1]
    BY <1>1, <2>1
  <2> QED
    BY <2>1, <2>2
<1>3. i .. most \subseteq S
  <2>1. i \in S
    OBVIOUS
  <2>2. i \in Nat /\ most \in Nat
    OBVIOUS
  <2> HIDE DEF S
  <2> QED
    BY ONLY <1>2, <2>1, <2>2, HandedOn
<1> QED
  BY <1>3 DEF w

\* ... but no more once a link adds nothing.
LEMMA NothingMore ==
  ASSUME NEW ids, NEW closed, NEW most \in Nat, NEW i \in 0 .. most,
         Linked(Within(ids, closed, most)[i], closed) = Within(ids, closed, most)[i],
         NEW j \in i .. most
  PROVE  Within(ids, closed, most)[j] = Within(ids, closed, most)[i]
<1> DEFINE w == Within(ids, closed, most)
           S == {k \in i .. most : w[k] = w[i]}
<1>1. \A d \in 1 .. most : w[d] = Linked(w[d - 1], closed)
  BY OneLinkMore
<1>2. Linked(w[i], closed) = w[i]
  OBVIOUS
<1> HIDE DEF w
<1>3. \A k \in i .. most : k < most /\ k \in S => k + 1 \in S
  <2> TAKE k \in i .. most
  <2> HAVE k < most /\ k \in S
  <2>1. k + 1 \in 1 .. most /\ (k + 1) - 1 = k /\ k + 1 \in i .. most
    OBVIOUS
  <2>2. w[k + 1] = Linked(w[(k + 1) - 1], closed)
    BY <1>1, <2>1
  <2>3. w[k] = w[i]
    OBVIOUS
  <2>4. w[k + 1] = Linked(w[i], closed)
    BY <2>1, <2>2, <2>3
  <2>5. w[k + 1] = w[i]
    BY <1>2, <2>4
  <2> QED
    BY <2>1, <2>5
<1>4. i .. most \subseteq S
  <2>1. i \in S
    OBVIOUS
  <2>2. i \in Nat /\ most \in Nat
    OBVIOUS
  <2> HIDE DEF S
  <2> QED
    BY ONLY <1>3, <2>1, <2>2, HandedOn
<1> QED
  BY <1>4 DEF w

\* Links lead to nodes.
LEMMA NodesReached ==
  ASSUME GraphWell, NEW ids, NEW closed, NEW most \in Nat, NEW d \in 0 .. most
  PROVE  Within(ids, closed, most)[d] \subseteq ids \cup NodeIds
<1> DEFINE w == Within(ids, closed, most)
           S == {k \in 0 .. most : w[k] \subseteq ids \cup NodeIds}
<1>1. w[0] = ids /\ \A k \in 1 .. most : w[k] = Linked(w[k - 1], closed)
  BY OneLinkMore
<1> HIDE DEF w
<1>2. \A k \in 0 .. most : k < most /\ k \in S => k + 1 \in S
  <2> TAKE k \in 0 .. most
  <2> HAVE k < most /\ k \in S
  <2>1. k + 1 \in 1 .. most /\ (k + 1) - 1 = k /\ k + 1 \in 0 .. most
    OBVIOUS
  <2>2. w[k + 1] = Linked(w[(k + 1) - 1], closed)
    BY <1>1, <2>1
  <2>3. w[k + 1] = Linked(w[k], closed)
    BY <2>1, <2>2
  <2>4. Linked(w[k], closed) \subseteq ids \cup NodeIds
    BY DEF Linked, GraphWell
  <2> QED
    BY <2>1, <2>3, <2>4
<1>3. 0 .. most \subseteq S
  <2>1. 0 \in S
    BY <1>1
  <2> HIDE DEF S
  <2> QED
    BY <1>2, <2>1, HandedOn
<1> QED
  BY <1>3 DEF w

-----------------------------------------------------------------------------
(* neighborsOf *)

\* What a search for neighbours keeps: the nodes it visited, the edges it saw, and its queue.
NeighborSearch ==
  search \in [query : {"neighbors"}, from : KnownIds, visited : SUBSET KnownIds,
              seen : Seq(built.edges), queue : Seq([id : KnownIds, depth : Nat])]

\* What is at most so many links away.
Around == Within({search.from}, {}, MaxDepth)

\* The nodes in the queue.
Queued == {search.queue[i].id : i \in 1 .. Len(search.queue)}

\* The search has come to the nodes d links away.  Nodes are queued at their distance ...
Distances(d) ==
  \A i \in 1 .. Len(search.queue) :
    LET entry == search.queue[i]
    IN  /\ entry.depth \in {d, d + 1} /\ entry.depth <= MaxDepth
        /\ entry.id \in Around[entry.depth]
        /\ entry.depth > 0 => entry.id \notin Around[entry.depth - 1]

\* ... the nearest first, each once ...
Ordered ==
  \A i, j \in 1 .. Len(search.queue) :
    i < j => /\ search.queue[i].depth <= search.queue[j].depth
             /\ search.queue[i].id # search.queue[j].id

\* ... and of the others the edges were seen, once, unless they are too far away.
Left(d) == (Around[d] \ Queued) \cap Around[MaxDepth - 1]

\* The edges that were seen are those of the nodes left behind, each once, and lead to visited nodes.
EdgesSeen(d) ==
  /\ \A e \in built.edges : e.from \in Left(d) => e.to \in search.visited
  /\ Range(search.seen) = {e \in built.edges : e.from \in Left(d)}
  /\ IsInjective(search.seen)

\* All that holds of a search for neighbours that has come d links far.
Level(d) ==
  /\ Distances(d) /\ Ordered
  /\ search.visited = Around[d] \cup Queued
  /\ EdgesSeen(d)

\* Entries of the queue.
LEMMA EntriesTyped ==
  ASSUME NeighborSearch
  PROVE  /\ search.queue \in Seq([id : KnownIds, depth : Nat])
         /\ \A i \in 1 .. Len(search.queue) : search.queue[i] \in [id : KnownIds, depth : Nat]
         /\ \A i \in 1 .. Len(search.queue) : search.queue[i].depth \in Nat
         /\ Len(search.queue) \in Nat
         /\ search.queue # <<>> => 1 \in 1 .. Len(search.queue) /\ Head(search.queue) = search.queue[1]
<1> DEFINE T == [id : KnownIds, depth : Nat]
           q == search.queue
<1>1. q \in Seq(T)
  BY DEF NeighborSearch
<1>2. \A x \in T : x.depth \in Nat
  OBVIOUS
<1> HIDE DEF T, q
<1>3. \A i \in 1 .. Len(q) : q[i] \in T
  BY <1>1
<1>4. Len(q) \in Nat /\ (q # <<>> => 1 \in 1 .. Len(q) /\ Head(q) = q[1])
  BY <1>1, EmptySeq
<1> QED
  BY <1>1, <1>2, <1>3, <1>4 DEF T, q

\* When only farther nodes are queued, the search has come to them.
LEMMA LevelEnds ==
  ASSUME NeighborSearch, NEW d \in 0 .. MaxDepth, Level(d), search.queue # <<>>,
         Head(search.queue).depth # d
  PROVE  d + 1 \in 0 .. MaxDepth /\ Level(d + 1)
<1> DEFINE q == search.queue
           n == Len(q)
<1>1. /\ MaxDepth \in Nat /\ n \in Nat /\ 1 \in 1 .. n /\ Head(q) = q[1]
      /\ \A i \in 1 .. n : q[i].depth \in Nat
  BY DepthAssumption, EntriesTyped
<1>2. ASSUME NEW i \in 1 .. n PROVE q[i].depth = d + 1
  <2>1. q[i].depth \in {d, d + 1} /\ q[1].depth \in {d, d + 1} /\ q[1].depth # d
    BY <1>1 DEF Level, Distances
  <2>2. i = 1 \/ q[1].depth <= q[i].depth
    BY <1>1 DEF Level, Ordered
  <2> QED
    BY <1>1, <2>1, <2>2
<1>3. d + 1 \in 0 .. MaxDepth /\ d + 1 \in 1 .. MaxDepth /\ d \in 0 .. MaxDepth - 1 /\ (d + 1) - 1 = d
  <2>1. q[1].depth <= MaxDepth
    BY <1>1 DEF Level, Distances
  <2>2. d + 1 <= MaxDepth
    BY <1>1, <1>2, <2>1
  <2> QED
    BY <1>1, <2>2
<1>4. Queued \cap Around[d] = {} /\ Queued \subseteq Around[d + 1]
  <2> SUFFICES ASSUME NEW i \in 1 .. n PROVE q[i].id \notin Around[d] /\ q[i].id \in Around[d + 1]
    BY DEF Queued
  <2>1. /\ q[i].id \in Around[q[i].depth]
        /\ q[i].depth > 0 => q[i].id \notin Around[q[i].depth - 1]
    BY DEF Level, Distances
  <2> QED
    BY <1>2, <1>3, <2>1
<1>5. Around[d + 1] = Linked(Around[d], {}) /\ Around[d] \subseteq Around[MaxDepth - 1]
  <2>1. MaxDepth - 1 \in d .. MaxDepth /\ d \in 0 .. MaxDepth
    BY <1>1, <1>3
  <2> QED
    BY <1>1, <1>3, <2>1, OneLinkMore, MoreIsReached DEF Around
<1>6. Left(d) = Around[d]
  BY <1>4, <1>5 DEF Left
<1>7. search.visited = Around[d + 1]
  <2>1. search.visited = Around[d] \cup Queued
    BY DEF Level
  <2>2. ASSUME NEW e \in built.edges, e.from \in Around[d] PROVE e.to \in search.visited
    BY <1>6, <2>2 DEF Level, EdgesSeen
  <2>3. Around[d + 1] \subseteq search.visited
    BY <1>5, <2>1, <2>2 DEF Linked
  <2>4. search.visited \subseteq Around[d + 1]
    BY <1>4, <1>5, <2>1 DEF Linked
  <2> QED
    BY <2>3, <2>4
<1>8. Left(d + 1) = Left(d)
  <2>1. Around[d + 1] \ Queued = Around[d]
    BY <1>4, <1>7 DEF Level
  <2> QED
    BY <1>5, <1>6, <2>1 DEF Left
<1>9. Distances(d + 1)
  BY <1>2 DEF Level, Distances
<1>10. search.visited = Around[d + 1] \cup Queued
  BY <1>4, <1>7
<1> QED
  BY <1>3, <1>8, <1>9, <1>10 DEF Level, EdgesSeen

\* When nothing is queued, everything that is near enough was visited.
LEMMA NeighborsFound ==
  ASSUME GraphWell, NeighborSearch, NEW d \in 0 .. MaxDepth, Level(d), search.queue = <<>>
  PROVE  NeighborsExact
<1> DEFINE passed == {e \in built.edges : e.from \in Around[MaxDepth - 1]}
<1>1. MaxDepth \in Nat /\ MaxDepth - 1 \in 0 .. MaxDepth /\ MaxDepth \in d .. MaxDepth
  BY DepthAssumption
<1>2. Queued = {} /\ search.visited = Around[d] /\ Left(d) = Around[d] \cap Around[MaxDepth - 1]
  BY DEF Level, Queued, Left
<1>3. Around[MaxDepth] = Around[d] /\ Around[MaxDepth - 1] \subseteq Around[d]
  <2>1. CASE d = MaxDepth
    <3>1. MaxDepth \in MaxDepth - 1 .. MaxDepth
      BY <1>1
    <3> QED
      BY <1>1, <2>1, <3>1, MoreIsReached DEF Around
  <2>2. CASE d # MaxDepth
    <3>1. MaxDepth - 1 \in d .. MaxDepth
      BY <1>1, <2>2
    <3>2. Around[d] \subseteq Around[MaxDepth - 1]
      BY <1>1, <3>1, MoreIsReached DEF Around
    <3>3. Linked(Around[d], {}) = Around[d]
      <4>1. \A e \in built.edges : e.from \in Around[d] => e.to \in Around[d]
        BY <1>2, <3>2 DEF Level, EdgesSeen
      <4> QED
        BY <4>1 DEF Linked
    <3>4. \A j \in d .. MaxDepth : Around[j] = Around[d]
      BY <1>1, <3>3, NothingMore DEF Around
    <3> QED
      BY <1>1, <3>1, <3>4
  <2> QED
    BY <2>1, <2>2
<1>4. Range(search.seen) = passed /\ IsInjective(search.seen) /\ search.seen \in Seq(built.edges)
  BY <1>2, <1>3 DEF Level, EdgesSeen, NeighborSearch
<1>5. Len(search.seen) = Cardinality(passed)
  <2> DEFINE E == built.edges
             s == search.seen
  <2>1. s \in Seq(E) /\ IsInjective(s)
    BY <1>4
  <2> HIDE DEF E, s
  <2>2. Len(s) = Cardinality(Range(s))
    BY <2>1, ListCounts
  <2> QED
    BY <1>4, <2>2 DEF s
<1>6. search.visited \ {search.from} \subseteq NodeIds
  <2>1. Around[d] \subseteq {search.from} \cup NodeIds
    BY <1>1, NodesReached DEF Around
  <2> QED
    BY <1>2, <2>1
<1> QED
  BY <1>2, <1>3, <1>4, <1>5, <1>6 DEF NeighborsExact, Around, NodeIds

\* A queue after its head has gone and others have come.
LEMMA QueueMoves ==
  ASSUME NEW T, NEW q \in Seq(T), q # <<>>, NEW N \in Seq(T)
  PROVE  /\ Tail(q) \o N \in Seq(T)
         /\ Len(Tail(q) \o N) = (Len(q) - 1) + Len(N)
         /\ \A i \in 1 .. Len(q) - 1 : (Tail(q) \o N)[i] = q[i + 1]
         /\ \A i \in 1 .. Len(N) : (Tail(q) \o N)[(Len(q) - 1) + i] = N[i]
<1>1. /\ Tail(q) \in Seq(T) /\ Len(Tail(q)) = Len(q) - 1 /\ Len(Tail(q)) \in Nat /\ Len(N) \in Nat
      /\ \A i \in 1 .. Len(q) - 1 : Tail(q)[i] = q[i + 1]
  BY HeadTailProperties, LenProperties
<1> DEFINE t == Tail(q)
<1> HIDE DEF t
<1>2. t \in Seq(T)
  BY <1>1 DEF t
<1>3. /\ t \o N \in Seq(T) /\ Len(t \o N) = Len(t) + Len(N)
      /\ \A i \in 1 .. Len(t) + Len(N) : (t \o N)[i] = IF i <= Len(t) THEN t[i] ELSE N[i - Len(t)]
  BY <1>2, ConcatProperties
<1>4. ASSUME NEW i \in 1 .. Len(t) PROVE (t \o N)[i] = t[i]
  BY <1>1, <1>3 DEF t
<1>5. ASSUME NEW i \in 1 .. Len(N) PROVE (t \o N)[Len(t) + i] = N[i]
  <2>1. /\ Len(t) + i \in 1 .. Len(t) + Len(N) /\ ~ Len(t) + i <= Len(t)
        /\ (Len(t) + i) - Len(t) = i
    BY <1>1 DEF t
  <2> QED
    BY <1>3, <2>1
<1> QED
  BY <1>1, <1>3, <1>4, <1>5 DEF t

\* The nodes an edge away that were not visited, with their distance.
Targets(edges) == {e.to : e \in edges}

Entries(ids, depth) == {[id |-> id, depth |-> depth] : id \in ids}

\* What a turn of the search does.
LEMMA Turn ==
  ASSUME GraphWell, NeighborSearch, VisitNext,
         NEW edges, edges = IF search.queue[1].depth < MaxDepth THEN Out(search.queue[1].id) ELSE {},
         NEW new, new = Targets(edges) \ search.visited
  PROVE  /\ built' = built /\ rows' = rows /\ NeighborSearch' /\ search'.from = search.from
         /\ search'.visited = search.visited \cup new
         /\ search'.seen = search.seen \o SetToSeq(edges)
         /\ search'.queue = Tail(search.queue) \o SetToSeq(Entries(new, search.queue[1].depth + 1))
         /\ IsFiniteSet(edges) /\ edges \subseteq built.edges /\ new \subseteq NodeIds
         /\ IsFiniteSet(Entries(new, search.queue[1].depth + 1))
         /\ Entries(new, search.queue[1].depth + 1) \subseteq [id : KnownIds, depth : Nat]
<1> DEFINE entry == search.queue[1]
           N == SetToSeq(Entries(new, entry.depth + 1))
           L == SetToSeq(edges)
           q2 == Tail(search.queue) \o N
           s2 == search.seen \o L
           v2 == search.visited \cup new
<1>1. /\ search.queue # <<>> /\ Head(search.queue) = entry /\ entry \in [id : KnownIds, depth : Nat]
      /\ entry.depth \in Nat
  BY EntriesTyped DEF VisitNext
<1>2. IsFiniteSet(edges) /\ edges \subseteq built.edges
  <2>1. edges \subseteq built.edges
    BY DEF Out
  <2> QED
    BY <2>1, FS_Subset DEF GraphWell
<1>3. IsFiniteSet(new) /\ new \subseteq NodeIds
  <2> DEFINE f == [e \in edges |-> e.to]
             T == {f[e] : e \in DOMAIN f}
  <2>1. Targets(edges) = T /\ DOMAIN f = edges
    BY DEF Targets
  <2> HIDE DEF f
  <2>2. IsFiniteSet(T)
    BY <1>2, <2>1, FiniteImage
  <2>3. new \subseteq T
    BY <2>1
  <2> HIDE DEF T
  <2>4. IsFiniteSet(new)
    BY <2>2, <2>3, FS_Subset
  <2>5. Targets(edges) \subseteq NodeIds
    BY <1>2 DEF Targets, GraphWell
  <2> QED
    BY <2>4, <2>5
<1>4. IsFiniteSet(Entries(new, entry.depth + 1))
  <2> DEFINE f == [id \in new |-> [id |-> id, depth |-> entry.depth + 1]]
  <2>1. Entries(new, entry.depth + 1) = {f[id] : id \in DOMAIN f} /\ DOMAIN f = new
    BY DEF Entries
  <2> HIDE DEF f
  <2> QED
    BY <1>3, <2>1, FiniteImage
<1>5. Entries(new, entry.depth + 1) \subseteq [id : KnownIds, depth : Nat]
  BY <1>1, <1>3 DEF Entries, KnownIds, NodeIds
<1>6. built' = built /\ rows' = rows
  BY DEF VisitNext
<1>7. search' = [search EXCEPT !.queue = q2, !.visited = v2, !.seen = s2]
  <2> DEFINE head == Head(search.queue)
             out == IF Expanded(head) THEN Out(head.id) ELSE {}
             news == {e.to : e \in out} \ search.visited
             S == {[id |-> id, depth |-> head.depth + 1] : id \in news}
  <2>1. search' = [search EXCEPT !.queue = Tail(@) \o SetToSeq(S), !.visited = @ \cup news,
                                 !.seen = @ \o SetToSeq(out)]
    BY DEF VisitNext
  <2>2. head = entry
    BY <1>1
  <2> HIDE DEF head
  <2>3. out = edges
    BY <2>2 DEF Expanded
  <2> HIDE DEF out
  <2>4. news = new
    BY <2>3 DEF Targets
  <2> HIDE DEF news
  <2>5. S = Entries(new, entry.depth + 1)
    BY <2>2, <2>4 DEF Entries
  <2> HIDE DEF S
  <2> QED
    BY <2>1, <2>3, <2>4, <2>5
<1>8. q2 \in Seq([id : KnownIds, depth : Nat])
  <2> DEFINE T == [id : KnownIds, depth : Nat]
             q == search.queue
             S == Entries(new, entry.depth + 1)
  <2>1. q \in Seq(T) /\ q # <<>> /\ IsFiniteSet(S) /\ S \subseteq T
    BY <1>1, <1>4, <1>5 DEF NeighborSearch
  <2>2. N = SetToSeq(S)
    OBVIOUS
  <2> HIDE DEF T, q, S, N
  <2>3. N \in Seq(T)
    BY <2>1, <2>2, SetListed
  <2>4. Tail(q) \o N \in Seq(T)
    BY <2>1, <2>3, QueueMoves
  <2> QED
    BY <2>4 DEF T, q
<1>9. s2 \in Seq(built.edges)
  <2> DEFINE E == built.edges
             s == search.seen
  <2>1. s \in Seq(E) /\ edges \subseteq E
    BY <1>2 DEF NeighborSearch
  <2> HIDE DEF E, s
  <2>2. L \in Seq(E)
    BY <1>2, <2>1, SetListed
  <2> HIDE DEF L
  <2>3. s \o L \in Seq(E)
    BY <2>1, <2>2, ConcatProperties
  <2> QED
    BY <2>3 DEF E, s
<1>10. v2 \in SUBSET KnownIds
  BY <1>3 DEF NeighborSearch, KnownIds, NodeIds
<1> HIDE DEF q2, s2, v2
<1>11. /\ search'.queue = q2 /\ search'.visited = v2 /\ search'.seen = s2 /\ search'.from = search.from
       /\ search' \in [query : {"neighbors"}, from : KnownIds, visited : SUBSET KnownIds,
                       seen : Seq(built.edges), queue : Seq([id : KnownIds, depth : Nat])]
  <2> DEFINE T == [id : KnownIds, depth : Nat]
             E == built.edges
  <2>1. search \in [query : {"neighbors"}, from : KnownIds, visited : SUBSET KnownIds,
                    seen : Seq(E), queue : Seq(T)]
    BY DEF NeighborSearch
  <2>2. q2 \in Seq(T) /\ s2 \in Seq(E)
    BY <1>8, <1>9
  <2> HIDE DEF T, E
  <2>3. /\ search'.queue = q2 /\ search'.visited = v2 /\ search'.seen = s2 /\ search'.from = search.from
        /\ search' \in [query : {"neighbors"}, from : KnownIds, visited : SUBSET KnownIds,
                        seen : Seq(E), queue : Seq(T)]
    BY <1>7, <1>10, <2>1, <2>2
  <2> QED
    BY <2>3 DEF T, E
<1>12. NeighborSearch'
  BY <1>6, <1>11 DEF NeighborSearch, KnownIds
<1> QED
  BY <1>2, <1>3, <1>4, <1>5, <1>6, <1>11, <1>12 DEF q2, s2, v2

\* A turn at the nodes the search has come to keeps it there.
LEMMA LevelGoesOn ==
  ASSUME GraphWell, NeighborSearch, VisitNext, NEW d \in 0 .. MaxDepth, Level(d),
         Head(search.queue).depth = d
  PROVE  NeighborSearch' /\ Level(d)'
<1> DEFINE q == search.queue
           q2 == search'.queue
           n == Len(q)
           entry == q[1]
           edges == IF q[1].depth < MaxDepth THEN Out(q[1].id) ELSE {}
           new == Targets(edges) \ search.visited
           S == Entries(new, d + 1)
           N == SetToSeq(S)
<1>1. /\ MaxDepth \in Nat /\ n \in Nat /\ 1 \in 1 .. n /\ entry.depth = d
      /\ \A i \in 1 .. n : q[i].depth \in Nat
  BY DepthAssumption, EntriesTyped DEF VisitNext
<1>2. /\ built' = built /\ NeighborSearch' /\ search'.from = search.from
      /\ search'.visited = search.visited \cup new
      /\ search'.seen = search.seen \o SetToSeq(edges)
      /\ q2 = Tail(q) \o N
      /\ IsFiniteSet(edges) /\ edges \subseteq built.edges
      /\ IsFiniteSet(S) /\ S \subseteq [id : KnownIds, depth : Nat]
  <2>1. new = Targets(edges) \ search.visited
    OBVIOUS
  <2>2. edges = IF search.queue[1].depth < MaxDepth THEN Out(search.queue[1].id) ELSE {}
    OBVIOUS
  <2>3. S = Entries(new, search.queue[1].depth + 1)
    BY <1>1
  <2> HIDE DEF new, edges, S
  <2> QED
    BY <2>1, <2>2, <2>3, Turn
<1>3. N \in Seq(S) /\ IsInjective(N) /\ Range(N) = S /\ Len(N) \in Nat /\ DOMAIN N = 1 .. Len(N)
  <2>1. IsFiniteSet(S)
    BY <1>2
  <2> HIDE DEF S
  <2> QED
    BY <2>1, SetListed
<1>4. /\ Len(q2) = (n - 1) + Len(N)
      /\ \A j \in 1 .. n - 1 : q2[j] = q[j + 1]
      /\ \A j \in 1 .. Len(N) : q2[(n - 1) + j] = N[j]
  <2> DEFINE T == [id : KnownIds, depth : Nat]
  <2>1. q \in Seq(T) /\ q # <<>>
    BY EntriesTyped DEF VisitNext
  <2>2. S \subseteq T /\ N \in Seq(S)
    BY <1>2, <1>3
  <2>3. q2 = Tail(q) \o N
    BY <1>2
  <2> HIDE DEF T, q, N, S, q2
  <2>4. N \in Seq(T)
    BY <2>2
  <2> QED
    BY <2>1, <2>3, <2>4, QueueMoves
<1> HIDE DEF q2, N, S
<1>5. ASSUME NEW i \in 1 .. Len(q2)
      PROVE  \/ i \in 1 .. n - 1 /\ i + 1 \in 1 .. n /\ q2[i] = q[i + 1]
             \/ i > n - 1 /\ \E k \in 1 .. Len(N) : i = (n - 1) + k /\ q2[i] = N[k]
  <2>1. CASE i \in 1 .. n - 1
    <3>1. i + 1 \in 1 .. n
      BY <1>1, <2>1
    <3>2. q2[i] = q[i + 1]
      BY <1>4, <2>1
    <3> QED
      BY <2>1, <3>1, <3>2
  <2>2. CASE i \notin 1 .. n - 1
    <3> DEFINE l == Len(N)
    <3>3. i \in 1 .. (n - 1) + l /\ n \in Nat /\ l \in Nat
      BY <1>1, <1>3, <1>4
    <3> HIDE DEF n, l
    <3>4. i - (n - 1) \in 1 .. l /\ i = (n - 1) + (i - (n - 1)) /\ i > n - 1
      BY <2>2, <3>3
    <3>1. i - (n - 1) \in 1 .. Len(N) /\ i = (n - 1) + (i - (n - 1)) /\ i > n - 1
      BY <3>4 DEF l
    <3>2. q2[i] = N[i - (n - 1)]
      BY <1>4, <3>1
    <3> QED
      BY <3>1, <3>2
  <2> QED
    BY <2>1, <2>2
<1>18. /\ Len(q2) \in Nat
       /\ \A i \in 1 .. n : i # 1 => \E j \in 1 .. Len(q2) : q2[j] = q[i]
       /\ \A k \in 1 .. Len(N) : \E j \in 1 .. Len(q2) : q2[j] = N[k]
  <2>1. ASSUME NEW i \in 1 .. n, i # 1 PROVE \E j \in 1 .. Len(q2) : q2[j] = q[i]
    <3>1. i - 1 \in 1 .. n - 1 /\ i - 1 \in 1 .. Len(q2) /\ (i - 1) + 1 = i
      BY <1>1, <1>3, <1>4, <2>1
    <3> QED
      BY <1>4, <3>1
  <2>2. ASSUME NEW k \in 1 .. Len(N) PROVE \E j \in 1 .. Len(q2) : q2[j] = N[k]
    <3>1. (n - 1) + k \in 1 .. Len(q2)
      BY <1>1, <1>3, <1>4
    <3> QED
      BY <1>4, <3>1
  <2>3. Len(q2) \in Nat
    BY <1>1, <1>3, <1>4
  <2> QED
    BY <2>1, <2>2, <2>3
<1>6. /\ \A k \in 1 .. Len(N) : N[k].id \in new /\ N[k].depth = d + 1
      /\ \A k, l \in 1 .. Len(N) : k # l => N[k].id # N[l].id
      /\ \A x \in new : \E k \in 1 .. Len(N) : N[k].id = x
  <2>1. \A y \in S : y.id \in new /\ y.depth = d + 1 /\ y = [id |-> y.id, depth |-> d + 1]
    BY DEF Entries, S
  <2>2. \A x \in new : [id |-> x, depth |-> d + 1] \in S /\ [id |-> x, depth |-> d + 1].id = x
    BY DEF Entries, S
  <2> HIDE DEF new
  <2>3. \A k \in 1 .. Len(N) : N[k] \in S
    BY <1>3
  <2>4. ASSUME NEW k \in 1 .. Len(N), NEW l \in 1 .. Len(N), k # l PROVE N[k].id # N[l].id
    <3>1. N[k] # N[l]
      BY <1>3, <2>4 DEF IsInjective
    <3> QED
      BY <2>1, <2>3, <3>1
  <2>5. ASSUME NEW x \in new PROVE \E k \in 1 .. Len(N) : N[k].id = x
    <3>1. [id |-> x, depth |-> d + 1] \in Range(N)
      BY <1>3, <2>2
    <3> QED
      BY <1>3, <2>2, <3>1 DEF Range
  <2> QED
    BY <2>1, <2>3, <2>4, <2>5
<1>7. Around' = Around
  BY <1>2 DEF Around, Within
<1>8. /\ entry.id \in Queued /\ entry.id \in Around[d]
      /\ d > 0 => entry.id \notin Around[d - 1]
      /\ search.visited = Around[d] \cup Queued
  BY <1>1 DEF Level, Distances, Queued
<1>9. ASSUME NEW x \in new
      PROVE  d < MaxDepth /\ x \in Around[d + 1] /\ x \notin Around[d] /\ x \notin Queued
  <2>1. PICK e \in edges : e.to = x
    BY DEF Targets
  <2>2. d < MaxDepth /\ e \in built.edges /\ e.from = entry.id
    BY <1>1 DEF Out
  <2>3. d + 1 \in 1 .. MaxDepth /\ (d + 1) - 1 = d
    BY <1>1, <2>2
  <2>4. Around[d + 1] = Linked(Around[d], {})
    BY <1>1, <2>3, OneLinkMore DEF Around
  <2>5. x \in Linked(Around[d], {})
    BY <1>8, <2>1, <2>2 DEF Linked
  <2> QED
    BY <1>8, <2>2, <2>4, <2>5
<1> HIDE DEF new, edges
<1>10. Queued' = (Queued \ {entry.id}) \cup new
  <2>1. ASSUME NEW x \in Queued' PROVE x \in (Queued \ {entry.id}) \cup new
    <3>1. PICK i \in 1 .. Len(q2) : x = q2[i].id
      BY DEF Queued, q2
    <3>2. CASE i + 1 \in 1 .. n /\ q2[i] = q[i + 1] /\ i \in 1 .. n - 1
      <4>1. 1 < i + 1
        BY <1>1, <3>2
      <4>2. q[i + 1].id # entry.id
        BY <1>1, <3>2, <4>1 DEF Level, Ordered
      <4> QED
        BY <3>1, <3>2, <4>2 DEF Queued
    <3>3. CASE \E k \in 1 .. Len(N) : q2[i] = N[k]
      BY <1>6, <3>1, <3>3
    <3> QED
      BY <1>5, <3>2, <3>3
  <2>2. ASSUME NEW x \in Queued, x # entry.id PROVE x \in Queued'
    <3>1. PICK i \in 1 .. n : x = q[i].id
      BY DEF Queued
    <3>2. PICK j \in 1 .. Len(q2) : q2[j] = q[i]
      BY <1>18, <2>2, <3>1
    <3> QED
      BY <3>1, <3>2 DEF Queued, q2
  <2>3. ASSUME NEW x \in new PROVE x \in Queued'
    <3>1. PICK k \in 1 .. Len(N) : N[k].id = x
      BY <1>6
    <3>2. PICK j \in 1 .. Len(q2) : q2[j] = N[k]
      BY <1>18
    <3> QED
      BY <3>1, <3>2 DEF Queued, q2
  <2> QED
    BY <2>1, <2>2, <2>3
<1>11. Distances(d)'
  <2> SUFFICES ASSUME NEW i \in 1 .. Len(q2)
               PROVE  /\ q2[i].depth \in {d, d + 1} /\ q2[i].depth <= MaxDepth
                      /\ q2[i].id \in Around[q2[i].depth]
                      /\ q2[i].depth > 0 => q2[i].id \notin Around[q2[i].depth - 1]
    BY <1>7 DEF Distances, q2
  <2>1. CASE i + 1 \in 1 .. n /\ q2[i] = q[i + 1]
    BY <2>1 DEF Level, Distances
  <2>2. CASE \E k \in 1 .. Len(N) : q2[i] = N[k]
    <3>1. q2[i].id \in new /\ q2[i].depth = d + 1
      BY <1>6, <2>2
    <3>2. d + 1 <= MaxDepth /\ (d + 1) - 1 = d
      BY <1>1, <1>9, <3>1
    <3> QED
      BY <1>9, <3>1, <3>2
  <2> QED
    BY <1>5, <2>1, <2>2
<1>12. Ordered'
  <2> SUFFICES ASSUME NEW i \in 1 .. Len(q2), NEW j \in 1 .. Len(q2), i < j
               PROVE  q2[i].depth <= q2[j].depth /\ q2[i].id # q2[j].id
    BY DEF Ordered, q2
  <2>1. CASE i + 1 \in 1 .. n /\ q2[i] = q[i + 1] /\ j + 1 \in 1 .. n /\ q2[j] = q[j + 1]
    <3>1. i + 1 < j + 1
      BY <1>18
    <3> QED
      BY <2>1, <3>1 DEF Level, Ordered
  <2>2. CASE /\ i + 1 \in 1 .. n /\ q2[i] = q[i + 1]
             /\ \E k \in 1 .. Len(N) : q2[j] = N[k]
    <3>1. q2[j].id \in new /\ q2[j].depth = d + 1
      BY <1>6, <2>2
    <3>2. q2[i].depth \in {d, d + 1} /\ q2[i].id \in Queued
      BY <2>2 DEF Level, Distances, Queued
    <3> QED
      BY <1>9, <3>1, <3>2
  <2>3. CASE /\ \E k \in 1 .. Len(N) : i = (n - 1) + k /\ q2[i] = N[k]
             /\ \E k \in 1 .. Len(N) : j = (n - 1) + k /\ q2[j] = N[k]
    <3>1. PICK k \in 1 .. Len(N) : i = (n - 1) + k /\ q2[i] = N[k]
      BY <2>3
    <3>2. PICK l \in 1 .. Len(N) : j = (n - 1) + l /\ q2[j] = N[l]
      BY <2>3
    <3>3. k # l
      BY <3>1, <3>2
    <3> QED
      BY <1>1, <1>6, <3>1, <3>2, <3>3
  <2>4. i > n - 1 => ~ j \in 1 .. n - 1
    BY <1>1
  <2> QED
    BY <1>5, <2>1, <2>2, <2>3, <2>4
<1>13. search'.visited = Around[d] \cup Queued'
  BY <1>2, <1>8, <1>10
<1>14. Left(d)' = Left(d) \cup ({entry.id} \cap Around[MaxDepth - 1])
  <2>1. Around[d] \ Queued' = (Around[d] \ Queued) \cup {entry.id}
    BY <1>8, <1>9, <1>10
  <2>2. Left(d)' = (Around[d] \ Queued') \cap Around[MaxDepth - 1]
    BY <1>7 DEF Left
  <2> QED
    BY <2>1, <2>2 DEF Left
<1>15. edges = {e \in built.edges : e.from = entry.id /\ entry.id \in Around[MaxDepth - 1]}
  <2>1. CASE d < MaxDepth
    <3>1. MaxDepth - 1 \in d .. MaxDepth /\ d \in 0 .. MaxDepth
      BY <1>1, <2>1
    <3>2. Around[d] \subseteq Around[MaxDepth - 1]
      BY <1>1, <3>1, MoreIsReached DEF Around
    <3> QED
      BY <1>1, <1>8, <2>1, <3>2 DEF edges, Out
  <2>2. CASE ~ d < MaxDepth
    <3>1. d = MaxDepth /\ d > 0
      BY <1>1, <2>2, DepthAssumption
    <3> QED
      BY <1>1, <1>8, <2>2, <3>1 DEF edges
  <2> QED
    BY <2>1, <2>2
<1>16. EdgesSeen(d)'
  <2> DEFINE E == built.edges
             s == search.seen
             L == SetToSeq(edges)
  <2>1. s \in Seq(E) /\ edges \subseteq E /\ IsFiniteSet(edges) /\ IsInjective(s)
    BY <1>2 DEF NeighborSearch, Level, EdgesSeen
  <2>2. Range(s) \cap edges = {}
    <3>1. entry.id \notin Left(d)
      BY <1>8 DEF Left
    <3>2. \A e \in Range(s) : e.from \in Left(d)
      BY DEF Level, EdgesSeen
    <3>3. \A e \in edges : e.from = entry.id
      BY <1>15
    <3> QED
      BY <3>1, <3>2, <3>3
  <2>3. IsInjective(s \o L) /\ Range(s \o L) = Range(s) \cup edges
    <3> HIDE DEF E, s
    <3>1. L \in Seq(E) /\ IsInjective(L) /\ Range(L) = edges
      BY <2>1, SetListed
    <3> HIDE DEF L
    <3> QED
      BY <2>1, <2>2, <3>1, ListsJoin
  <2>4. IsInjective(search'.seen) /\ Range(search'.seen) = Range(search.seen) \cup edges
    BY <1>2, <2>3
  <2>5. Range(search'.seen) = {e \in built'.edges : e.from \in Left(d)'}
    BY <1>2, <1>14, <1>15, <2>4 DEF Level, EdgesSeen
  <2>6. ASSUME NEW e \in built.edges, e.from \in Left(d)' PROVE e.to \in search'.visited
    <3>1. CASE e.from \in Left(d)
      BY <1>2, <3>1 DEF Level, EdgesSeen
    <3>2. CASE e \in edges
      BY <1>2, <3>2 DEF new, Targets
    <3> QED
      BY <1>14, <1>15, <2>6, <3>1, <3>2
  <2> QED
    BY <1>2, <2>4, <2>5, <2>6 DEF EdgesSeen
<1>17. Level(d)'
  BY <1>7, <1>11, <1>12, <1>13, <1>16 DEF Level
<1> QED
  BY <1>2, <1>17

-----------------------------------------------------------------------------
(* path *)

\* What a search for paths keeps: the walks it found and those on its stack.
PathSearch ==
  search \in [query : {"path"}, from : KnownIds, to : KnownIds,
              found : Seq(Seq(built.edges)), stack : Seq(Seq(built.edges))]

\* Where a walk is after i edges.
At(w, i) == IF i = 0 THEN search.from ELSE w[i].to

\* A walk begins where the search does and is at its end after its last edge.
LEMMA WalkEnds ==
  ASSUME NEW E, NEW w \in Seq(E)
  PROVE  EndOf(w) = At(w, Len(w))
<1>1. Len(w) \in Nat /\ (w = <<>> <=> Len(w) = 0)
  BY EmptySeq
<1> QED
  BY <1>1 DEF EndOf, At, Last

\* Its edges go from where it was to where it goes.
LEMMA OpenAt ==
  ASSUME NEW E, NEW w \in Seq(E)
  PROVE  Open(w) <=> \A i \in 1 .. Len(w) : w[i].from = At(w, i - 1) /\ At(w, i - 1) # search.to
<1>1. ASSUME NEW i \in 1 .. Len(w)
      PROVE  At(w, i - 1) = IF i = 1 THEN search.from ELSE w[i - 1].to
  BY DEF At
<1> QED
  BY <1>1 DEF Open

\* The one walk is the beginning of the other.
Begins(u, w) == Len(u) <= Len(w) /\ \A k \in 1 .. Len(u) : u[k] = w[k]

\* What begins a walk with one edge more begins the walk, or is as long as that.
LEMMA BeginsLonger ==
  ASSUME NEW E, NEW w \in Seq(E), NEW e \in E, NEW u \in Seq(E), Begins(u, Append(w, e))
  PROVE  Begins(u, w) \/ Begins(w, u)
<1>1. /\ Len(w) \in Nat /\ Len(u) \in Nat /\ Len(Append(w, e)) = Len(w) + 1
      /\ \A k \in 1 .. Len(w) : Append(w, e)[k] = w[k]
  BY AppendProperties
<1>2. Len(u) <= Len(w) + 1 /\ \A k \in 1 .. Len(u) : u[k] = Append(w, e)[k]
  BY <1>1 DEF Begins
<1>3. CASE Len(u) <= Len(w)
  <2>1. \A k \in 1 .. Len(u) : k \in 1 .. Len(w)
    BY <1>1, <1>3
  <2> QED
    BY <1>1, <1>2, <1>3, <2>1 DEF Begins
<1>4. CASE ~ Len(u) <= Len(w)
  <2>1. Len(w) <= Len(u) /\ \A k \in 1 .. Len(w) : k \in 1 .. Len(u)
    BY <1>1, <1>4
  <2> QED
    BY <1>1, <1>2, <2>1 DEF Begins
<1> QED
  BY <1>3, <1>4

\* A walk begins what it begins with one edge more.
LEMMA BeginsShorter ==
  ASSUME NEW E, NEW w \in Seq(E), NEW e \in E, NEW u \in Seq(E), Begins(Append(w, e), u)
  PROVE  Begins(w, u)
<1>1. /\ Len(w) \in Nat /\ Len(u) \in Nat /\ Len(Append(w, e)) = Len(w) + 1
      /\ \A k \in 1 .. Len(w) : Append(w, e)[k] = w[k]
  BY AppendProperties
<1>2. Len(w) + 1 <= Len(u) /\ \A k \in 1 .. Len(w) + 1 : Append(w, e)[k] = u[k]
  BY <1>1 DEF Begins
<1>3. Len(w) <= Len(u) /\ \A k \in 1 .. Len(w) : k \in 1 .. Len(w) + 1
  BY <1>1, <1>2
<1> QED
  BY <1>1, <1>2, <1>3 DEF Begins

\* Walks that begin each other with the same length are the same.
LEMMA BeginsSame ==
  ASSUME NEW E, NEW w \in Seq(E), NEW u \in Seq(E), Begins(u, w), Len(u) = Len(w)
  PROVE  u = w
<1>1. Len(u) \in Nat /\ u \in [1 .. Len(u) -> E] /\ w \in [1 .. Len(w) -> E]
  BY SeqDef, LenProperties
<1> QED
  BY <1>1 DEF Begins

\* An open walk goes on from a walk that begins it by an edge that leaves its end.
LEMMA BeginsGoesOn ==
  ASSUME NEW w \in Seq(built.edges), Open(w), NEW u \in Seq(built.edges), Begins(u, w), u # w
  PROVE  /\ EndOf(u) # search.to
         /\ \E e \in Out(EndOf(u)) : Begins(Append(u, e), w)
<1> DEFINE n == Len(u)
           E == built.edges
<1>1. n \in Nat /\ Len(w) \in Nat /\ n <= Len(w) /\ \A k \in 1 .. n : u[k] = w[k]
  BY LenProperties DEF Begins
<1>2. n # Len(w)
  <2> HIDE DEF E
  <2>1. u \in Seq(E) /\ w \in Seq(E)
    BY DEF E
  <2> QED
    BY <2>1, BeginsSame
<1>3. n + 1 \in 1 .. Len(w) /\ (n + 1) - 1 = n
  BY <1>1, <1>2
<1>4. EndOf(u) = At(w, n)
  <2>1. EndOf(u) = At(u, n)
    BY WalkEnds
  <2>2. n = 0 \/ n \in 1 .. n
    BY <1>1
  <2> QED
    BY <1>1, <2>1, <2>2 DEF At
<1>5. w[n + 1].from = EndOf(u) /\ EndOf(u) # search.to
  BY <1>3, <1>4, OpenAt
<1>6. w[n + 1] \in E
  <2> HIDE DEF E, n
  <2>1. w \in Seq(E)
    BY DEF E
  <2> QED
    BY <1>3, <2>1, ElementOfSeq
<1>7. Begins(Append(u, w[n + 1]), w)
  <2> DEFINE v == Append(u, w[n + 1])
  <2>1. /\ Len(v) = n + 1 /\ \A k \in 1 .. n : v[k] = u[k]
        /\ v[n + 1] = w[n + 1]
    <3> HIDE DEF E
    <3>1. u \in Seq(E)
      BY DEF E
    <3> QED
      BY <1>6, <3>1, AppendProperties
  <2> HIDE DEF v, n
  <2>2. ASSUME NEW k \in 1 .. n + 1 PROVE v[k] = w[k]
    <3>1. k \in 1 .. n \/ k = n + 1
      BY <1>1
    <3> QED
      BY <1>1, <2>1, <3>1
  <2>3. n + 1 <= Len(w)
    BY <1>1, <1>3
  <2> QED
    BY <2>1, <2>2, <2>3 DEF Begins, v
<1> QED
  BY <1>5, <1>6, <1>7 DEF Out

\* What is on the stack are open walks, none of which begins another ...
StackWell ==
  /\ \A i \in 1 .. Len(search.stack) : Open(search.stack[i]) /\ Len(search.stack[i]) <= Longest + 1
  /\ \A i, j \in 1 .. Len(search.stack) : i # j => ~ Begins(search.stack[i], search.stack[j])

\* ... or one of those that were found, which end in toId, each found once ...
FoundWell ==
  /\ \A j \in 1 .. Len(search.found) :
       /\ Open(search.found[j]) /\ Len(search.found[j]) <= Longest
       /\ EndOf(search.found[j]) = search.to
       /\ \A i \in 1 .. Len(search.stack) : ~ Begins(search.stack[i], search.found[j])
  /\ IsInjective(search.found)

\* ... and every walk that ends there, or is too long, was found or is begun.
NoneForgotten ==
  \A w \in Seq(built.edges) :
    Open(w) /\ (EndOf(w) = search.to \/ Len(w) = Longest + 1) =>
      \/ \E j \in 1 .. Len(search.found) : search.found[j] = w
      \/ \E i \in 1 .. Len(search.stack) : Begins(search.stack[i], w)

\* All that holds of a search for paths.
PathInv == PathSearch /\ StackWell /\ FoundWell /\ NoneForgotten

\* The bound of the walks is a number.
LEMMA LongestIsNumber ==
  ASSUME GraphWell
  PROVE  Longest \in Nat /\ IsFiniteSet(NodeIds \cup {search.from})
<1>1. IsFiniteSet(NodeIds)
  <2> DEFINE f == [n \in built.nodes |-> n.id]
  <2>1. NodeIds = {f[n] : n \in DOMAIN f} /\ DOMAIN f = built.nodes
    BY DEF NodeIds
  <2> HIDE DEF f
  <2> QED
    BY <2>1, FiniteImage DEF GraphWell
<1>2. IsFiniteSet(NodeIds \cup {search.from})
  BY <1>1, FS_Singleton, FS_Union
<1> QED
  BY <1>2, FS_CardinalityType DEF Longest, NodeIds

\* A stack after its last element has gone and others have come.
LEMMA StackMoves ==
  ASSUME NEW T, NEW s \in Seq(T), s # <<>>, NEW N \in Seq(T)
  PROVE  /\ Len(s) \in Nat /\ Len(s) \in 1 .. Len(s) /\ Last(s) = s[Len(s)] /\ Last(s) \in T
         /\ Front(s) \in Seq(T) /\ Len(Front(s)) = Len(s) - 1
         /\ \A i \in 1 .. Len(s) - 1 : Front(s)[i] = s[i]
         /\ Front(s) \o N \in Seq(T)
         /\ Len(Front(s) \o N) = (Len(s) - 1) + Len(N) /\ Len(N) \in Nat
         /\ \A i \in 1 .. Len(s) - 1 : (Front(s) \o N)[i] = s[i]
         /\ \A i \in 1 .. Len(N) : (Front(s) \o N)[(Len(s) - 1) + i] = N[i]
<1>1. /\ Len(s) \in Nat /\ Len(s) \in 1 .. Len(s) /\ Last(s) = s[Len(s)] /\ Last(s) \in T
  <2>1. Len(s) \in Nat /\ Len(s) # 0
    BY EmptySeq
  <2>2. Len(s) \in 1 .. Len(s)
    BY <2>1
  <2> QED
    BY <2>1, <2>2, ElementOfSeq DEF Last
<1>2. /\ Front(s) \in Seq(T) /\ Len(Front(s)) = Len(s) - 1 /\ Len(N) \in Nat
      /\ \A i \in 1 .. Len(s) - 1 : Front(s)[i] = s[i]
  <2> DEFINE m == Len(s) - 1
  <2>1. m \in Int /\ 1 \in Int /\ (m - 1) + 1 = m /\ (IF 1 <= m THEN m ELSE 0) = m
    <3>1. Len(s) \in Nat /\ Len(s) >= 1
      BY <1>1
    <3> DEFINE l == Len(s)
    <3>2. l \in Nat /\ l >= 1
      BY <3>1
    <3> HIDE DEF l
    <3>3. l - 1 \in Int /\ ((l - 1) - 1) + 1 = l - 1 /\ (IF 1 <= l - 1 THEN l - 1 ELSE 0) = l - 1
      BY <3>2
    <3> QED
      BY <3>3 DEF l
  <2>2. Front(s) = SubSeq(s, 1, m)
    BY DEF Front
  <2>3. ASSUME NEW i \in 1 .. m PROVE s[i] \in T /\ (1 + i) - 1 = i
    <3>1. i \in 1 .. Len(s)
      BY <1>1
    <3> QED
      BY <1>1, <3>1, ElementOfSeq
  <2>4. Len(N) \in Nat
    BY LenProperties
  <2> HIDE DEF m
  <2>5. /\ SubSeq(s, 1, m) \in Seq(T)
        /\ Len(SubSeq(s, 1, m)) = IF 1 <= m THEN (m - 1) + 1 ELSE 0
        /\ \A i \in 1 .. (m - 1) + 1 : SubSeq(s, 1, m)[i] = s[(1 + i) - 1]
    BY <2>1, <2>3, SubSeqProperties
  <2>6. Front(s) \in Seq(T) /\ Len(Front(s)) = m
    BY <2>1, <2>2, <2>5
  <2>7. \A i \in 1 .. m : Front(s)[i] = s[i]
    BY <2>1, <2>2, <2>3, <2>5
  <2> QED
    BY <2>4, <2>6, <2>7 DEF m
<1> DEFINE t == Front(s)
           n == Len(s) - 1
<1>3. t \in Seq(T) /\ Len(t) = n /\ n \in Nat
  BY <1>1, <1>2
<1> HIDE DEF t, n
<1>4. /\ t \o N \in Seq(T) /\ Len(t \o N) = n + Len(N)
      /\ \A i \in 1 .. n + Len(N) : (t \o N)[i] = IF i <= n THEN t[i] ELSE N[i - n]
  BY <1>3, ConcatProperties
<1>5. ASSUME NEW i \in 1 .. n PROVE (t \o N)[i] = t[i]
  BY <1>2, <1>3, <1>4 DEF t, n
<1>6. ASSUME NEW i \in 1 .. Len(N) PROVE (t \o N)[n + i] = N[i]
  <2>1. n + i \in 1 .. n + Len(N) /\ ~ n + i <= n /\ (n + i) - n = i
    BY <1>2, <1>3
  <2> QED
    BY <1>4, <2>1
<1> QED
  BY <1>1, <1>2, <1>4, <1>5, <1>6 DEF t, n

\* A walk is taken from the stack and found.
LEMMA WalkFound ==
  ASSUME GraphWell, PathInv, search.stack # <<>>, Len(Last(search.stack)) <= Longest,
         EndOf(Last(search.stack)) = search.to,
         built' = built,
         search' = [search EXCEPT !.stack = Front(@), !.found = Append(@, Last(search.stack))]
  PROVE  PathInv'
<1> DEFINE E == built.edges
           T == Seq(built.edges)
           st == search.stack
           n == Len(st)
           fd == search.found
           walk == Last(st)
<1>1. st \in Seq(T) /\ fd \in Seq(T) /\ search \in [query : {"path"}, from : KnownIds, to : KnownIds, found : Seq(T), stack : Seq(T)]
  BY DEF PathInv, PathSearch
<1>2. /\ n \in Nat /\ n \in 1 .. n /\ walk = st[n] /\ walk \in T
      /\ Front(st) \in Seq(T) /\ Len(Front(st)) = n - 1
      /\ \A i \in 1 .. n - 1 : Front(st)[i] = st[i]
  <2> HIDE DEF T, st
  <2>1. <<>> \in Seq(T)
    OBVIOUS
  <2> QED
    BY <1>1, <2>1, StackMoves DEF st
<1>3. /\ Append(fd, walk) \in Seq(T) /\ Len(Append(fd, walk)) = Len(fd) + 1 /\ Len(fd) \in Nat
      /\ \A j \in 1 .. Len(fd) : Append(fd, walk)[j] = fd[j]
      /\ Append(fd, walk)[Len(fd) + 1] = walk
      /\ DOMAIN Append(fd, walk) = 1 .. Len(fd) + 1
  <2> HIDE DEF T, fd, walk
  <2> QED
    BY <1>1, <1>2, AppendProperties
<1>4. /\ search'.stack = Front(st) /\ search'.found = Append(fd, walk)
      /\ search'.from = search.from /\ search'.to = search.to
      /\ search' \in [query : {"path"}, from : KnownIds, to : KnownIds, found : Seq(T), stack : Seq(T)]
  <2> DEFINE a == Front(st)
             b == Append(fd, walk)
  <2>1. search' = [search EXCEPT !.stack = a, !.found = b] /\ a \in Seq(T) /\ b \in Seq(T)
    BY <1>2, <1>3
  <2> HIDE DEF T, a, b
  <2> QED
    BY <1>1, <2>1 DEF a, b
<1>5. PathSearch'
  BY <1>4 DEF PathSearch, KnownIds
<1>6. Longest' = Longest /\ \A w : EndOf(w)' = EndOf(w) /\ (Open(w)' <=> Open(w))
  BY <1>4 DEF Longest, EndOf, Open
<1>7. \A i \in 1 .. n - 1 : i \in 1 .. n /\ i # n
  BY <1>2
<1>8. StackWell'
  <2> DEFINE a == Front(st)
  <2>1. Len(a) = n - 1 /\ \A i \in 1 .. n - 1 : a[i] = st[i] /\ i \in 1 .. n
    BY <1>2, <1>7
  <2>2. search'.stack = a
    BY <1>4
  <2> HIDE DEF a
  <2>3. \A i \in 1 .. Len(a) : Open(a[i]) /\ Len(a[i]) <= Longest + 1
    BY <2>1 DEF PathInv, StackWell
  <2>4. \A i, j \in 1 .. Len(a) : i # j => ~ Begins(a[i], a[j])
    BY <2>1 DEF PathInv, StackWell
  <2> QED
    BY <1>4, <1>6, <2>2, <2>3, <2>4 DEF StackWell, Open
<1>9. \A i \in 1 .. n : \A j \in 1 .. Len(fd) : ~ Begins(st[i], fd[j])
  BY DEF PathInv, FoundWell
<1>10. ASSUME NEW j \in 1 .. Len(fd) PROVE fd[j] # walk
  <2>1. Begins(walk, walk)
    <3>1. Len(walk) \in Nat
      BY <1>2, LenProperties
    <3> QED
      BY <3>1 DEF Begins
  <2> QED
    BY <1>2, <1>9, <2>1
<1>11. FoundWell'
  <2> DEFINE f2 == Append(fd, walk)
  <2>1. ASSUME NEW j \in 1 .. Len(f2)
        PROVE  /\ Open(f2[j]) /\ Len(f2[j]) <= Longest /\ EndOf(f2[j]) = search.to
               /\ \A i \in 1 .. n - 1 : ~ Begins(st[i], f2[j])
    <3>1. CASE j \in 1 .. Len(fd)
      BY <1>3, <1>7, <3>1 DEF PathInv, FoundWell
    <3>2. CASE j = Len(fd) + 1
      <4>1. f2[j] = st[n] /\ f2[j] = walk
        BY <1>2, <1>3, <3>2
      <4> HIDE DEF f2, walk
      <4> QED
        BY <1>2, <1>7, <4>1 DEF PathInv, StackWell, walk
    <3> QED
      BY <1>3, <3>1, <3>2
  <2>2. IsInjective(f2)
    <3> SUFFICES ASSUME NEW i \in 1 .. Len(fd) + 1, NEW j \in 1 .. Len(fd) + 1, f2[i] = f2[j]
                 PROVE  i = j
      BY <1>3 DEF IsInjective
    <3>1. i \in 1 .. Len(fd) \/ i = Len(fd) + 1
      BY <1>3
    <3>2. j \in 1 .. Len(fd) \/ j = Len(fd) + 1
      BY <1>3
    <3>3. IsInjective(fd) /\ DOMAIN fd = 1 .. Len(fd)
      BY <1>1 DEF PathInv, FoundWell
    <3> HIDE DEF fd, walk
    <3> QED
      BY <1>3, <1>10, <3>1, <3>2, <3>3 DEF IsInjective
  <2> HIDE DEF f2
  <2>3. search'.found = f2
    BY <1>4 DEF f2
  <2> QED
    BY <1>2, <1>4, <1>6, <2>1, <2>2, <2>3 DEF FoundWell, Open, EndOf
<1>12. NoneForgotten'
  <2> SUFFICES ASSUME NEW w \in Seq(built.edges), Open(w),
                      EndOf(w) = search.to \/ Len(w) = Longest + 1
               PROVE  \/ \E j \in 1 .. Len(fd) + 1 : Append(fd, walk)[j] = w
                      \/ \E i \in 1 .. n - 1 : Begins(Front(st)[i], w)
    BY <1>2, <1>3, <1>4, <1>6 DEF NoneForgotten
  <2>1. \/ \E j \in 1 .. Len(fd) : fd[j] = w
        \/ \E i \in 1 .. n : Begins(st[i], w)
    BY DEF PathInv, NoneForgotten
  <2>2. CASE \E j \in 1 .. Len(fd) : fd[j] = w
    <3>1. \A j \in 1 .. Len(fd) : j \in 1 .. Len(fd) + 1
      BY <1>3
    <3> QED
      BY <1>3, <2>2, <3>1
  <2>3. CASE \E i \in 1 .. n - 1 : Begins(st[i], w)
    BY <1>2, <2>3
  <2>4. CASE Begins(walk, w)
    <3>1. walk = w
      BY <1>2, <2>4, BeginsGoesOn
    <3>2. Len(fd) + 1 \in 1 .. Len(fd) + 1
      BY <1>3
    <3> QED
      BY <1>3, <3>1, <3>2
  <2>5. \A i \in 1 .. n : i \in 1 .. n - 1 \/ i = n
    BY <1>2
  <2> QED
    BY <1>2, <2>1, <2>2, <2>3, <2>4, <2>5
<1> QED
  BY <1>5, <1>8, <1>11, <1>12 DEF PathInv

\* A walk goes on by every edge that leaves its end.
Longer(walk) == {Append(walk, e) : e \in Out(EndOf(walk))}

\* A walk is taken from the stack and goes on.
LEMMA WalkGoesOn ==
  ASSUME GraphWell, PathInv, search.stack # <<>>, Len(Last(search.stack)) <= Longest,
         EndOf(Last(search.stack)) # search.to,
         built' = built,
         search' = [search EXCEPT !.stack = Front(@) \o SetToSeq(Longer(Last(search.stack)))]
  PROVE  PathInv'
<1> DEFINE E == built.edges
           T == Seq(built.edges)
           st == search.stack
           n == Len(st)
           fd == search.found
           walk == Last(st)
           S == Longer(walk)
           N == SetToSeq(S)
           a == Front(st) \o N
<1>1. st \in Seq(T) /\ fd \in Seq(T) /\ search \in [query : {"path"}, from : KnownIds, to : KnownIds, found : Seq(T), stack : Seq(T)]
  BY DEF PathInv, PathSearch
<1>2. n \in Nat /\ n \in 1 .. n /\ walk = st[n] /\ walk \in T
  <2> HIDE DEF T, st
  <2>1. <<>> \in Seq(T)
    OBVIOUS
  <2> QED
    BY <1>1, <2>1, StackMoves DEF st
<1>3. S \subseteq T /\ IsFiniteSet(S)
  <2> DEFINE out == Out(EndOf(walk))
             f == [e \in out |-> Append(walk, e)]
  <2>1. IsFiniteSet(out) /\ out \subseteq E
    <3>1. out \subseteq E
      BY DEF Out
    <3> QED
      BY <3>1, FS_Subset DEF GraphWell
  <2>2. S = {f[e] : e \in DOMAIN f} /\ DOMAIN f = out
    BY DEF Longer
  <2>3. ASSUME NEW e \in out PROVE f[e] \in T
    <3>1. e \in E /\ walk \in Seq(E) /\ f[e] = Append(walk, e)
      BY <1>2, <2>1
    <3> HIDE DEF E, walk, f
    <3>2. f[e] \in Seq(E)
      BY <3>1, AppendProperties
    <3> QED
      BY <3>2 DEF E
  <2> HIDE DEF f, out, S
  <2> QED
    BY <2>1, <2>2, <2>3, FiniteImage
<1>4. N \in Seq(S) /\ IsInjective(N) /\ Range(N) = S /\ DOMAIN N = 1 .. Len(N)
  <2> HIDE DEF S
  <2> QED
    BY <1>3, SetListed
<1>5. /\ a \in Seq(T) /\ Len(a) = (n - 1) + Len(N) /\ Len(N) \in Nat
      /\ \A i \in 1 .. n - 1 : a[i] = st[i]
      /\ \A k \in 1 .. Len(N) : a[(n - 1) + k] = N[k]
  <2> HIDE DEF T, S, N
  <2>1. N \in Seq(T)
    BY <1>3, <1>4
  <2>2. st \in Seq(T) /\ st # <<>>
    BY <1>1
  <2> HIDE DEF st
  <2> QED
    BY ONLY <2>1, <2>2, StackMoves DEF a, n
<1> HIDE DEF a, N
<1>6. /\ search'.stack = a /\ search'.found = fd
      /\ search'.from = search.from /\ search'.to = search.to
      /\ search' \in [query : {"path"}, from : KnownIds, to : KnownIds, found : Seq(T), stack : Seq(T)]
  <2>1. search' = [search EXCEPT !.stack = a]
    BY DEF a, N
  <2> HIDE DEF T
  <2> QED
    BY <1>1, <1>5, <2>1
<1>7. PathSearch'
  BY <1>6 DEF PathSearch, KnownIds
<1>8. Longest' = Longest /\ \A w : EndOf(w)' = EndOf(w) /\ (Open(w)' <=> Open(w))
  BY <1>6 DEF Longest, EndOf, Open
<1>9. ASSUME NEW i \in 1 .. Len(a)
      PROVE  \/ i \in 1 .. n - 1 /\ i \in 1 .. n /\ i # n /\ a[i] = st[i]
             \/ i > n - 1 /\ \E k \in 1 .. Len(N) : i = (n - 1) + k /\ a[i] = N[k]
  <2>1. CASE i \in 1 .. n - 1
    BY <1>2, <1>5, <2>1
  <2>2. CASE i \notin 1 .. n - 1
    <3> DEFINE l == Len(N)
    <3>1. i \in 1 .. (n - 1) + l /\ n \in Nat /\ l \in Nat
      BY <1>2, <1>5
    <3> HIDE DEF n, l
    <3>2. i - (n - 1) \in 1 .. l /\ i = (n - 1) + (i - (n - 1)) /\ i > n - 1
      BY <2>2, <3>1
    <3>3. i - (n - 1) \in 1 .. Len(N)
      BY <3>2 DEF l
    <3>4. a[(n - 1) + (i - (n - 1))] = N[i - (n - 1)]
      BY <1>5, <3>3
    <3> QED
      BY <3>2, <3>3, <3>4
  <2> QED
    BY <2>1, <2>2
<1>10. /\ \A i \in 1 .. n : i # n => \E j \in 1 .. Len(a) : a[j] = st[i]
       /\ \A y \in S : \E j \in 1 .. Len(a) : a[j] = y
  <2>1. ASSUME NEW i \in 1 .. n, i # n PROVE \E j \in 1 .. Len(a) : a[j] = st[i]
    <3>1. i \in 1 .. n - 1 /\ i \in 1 .. Len(a)
      BY <1>2, <1>5, <2>1
    <3> QED
      BY <1>5, <3>1
  <2>2. ASSUME NEW y \in S PROVE \E j \in 1 .. Len(a) : a[j] = y
    <3> HIDE DEF S
    <3>1. PICK k \in 1 .. Len(N) : N[k] = y
      BY <1>4 DEF Range
    <3> DEFINE l == Len(N)
    <3>2. Len(a) = (n - 1) + l /\ n \in Nat /\ n >= 1 /\ l \in Nat /\ k \in 1 .. l
      BY <1>2, <1>5
    <3>3. a[(n - 1) + k] = y
      BY <1>5, <3>1
    <3> HIDE DEF n, l
    <3>4. (n - 1) + k \in 1 .. Len(a)
      BY <3>2
    <3> QED
      BY <3>3, <3>4
  <2> QED
    BY <2>1, <2>2
<1>11. ASSUME NEW k \in 1 .. Len(N)
       PROVE  \E e \in E : N[k] = Append(walk, e) /\ e.from = EndOf(walk)
  <2>1. N[k] \in S
    <3> HIDE DEF S
    <3> QED
      BY <1>4
  <2> QED
    BY <2>1 DEF Longer, Out
<1>12. ASSUME NEW k \in 1 .. Len(N)
       PROVE  Open(N[k]) /\ Len(N[k]) = Len(walk) + 1
  <2>1. PICK e \in E : N[k] = Append(walk, e) /\ e.from = EndOf(walk)
    BY <1>11
  <2>2. Open(walk) /\ walk \in Seq(built.edges)
    BY <1>2 DEF PathInv, StackWell
  <2> HIDE DEF walk
  <2> QED
    BY <2>1, <2>2, OpenGoesOn DEF walk
<1>13. ASSUME NEW u \in T, NEW k \in 1 .. Len(N), ~ Begins(walk, u)
       PROVE  /\ ~ Begins(N[k], u)
              /\ Begins(u, N[k]) => Begins(u, walk)
  <2>1. PICK e \in E : N[k] = Append(walk, e)
    BY <1>11
  <2>2. walk \in Seq(E) /\ u \in Seq(E)
    BY <1>2
  <2> HIDE DEF walk, E
  <2> QED
    BY <1>13, <2>1, <2>2, BeginsShorter, BeginsLonger
<1>14. StackWell'
  <2>1. ASSUME NEW i \in 1 .. Len(a) PROVE Open(a[i]) /\ Len(a[i]) <= Longest + 1
    <3>1. CASE i \in 1 .. n /\ a[i] = st[i]
      BY <3>1 DEF PathInv, StackWell
    <3>2. CASE \E k \in 1 .. Len(N) : a[i] = N[k]
      <4>1. Open(a[i]) /\ Len(a[i]) = Len(walk) + 1
        BY <1>12, <3>2
      <4>2. Len(walk) <= Longest /\ Len(walk) \in Nat /\ Longest \in Nat
        BY <1>2, LongestIsNumber, LenProperties
      <4> QED
        BY <4>1, <4>2
    <3> QED
      BY <1>9, <3>1, <3>2
  <2>2. ASSUME NEW i \in 1 .. Len(a), NEW j \in 1 .. Len(a), i # j PROVE ~ Begins(a[i], a[j])
    <3>1. CASE i \in 1 .. n /\ a[i] = st[i] /\ j \in 1 .. n /\ a[j] = st[j]
      BY <2>2, <3>1 DEF PathInv, StackWell
    <3>2. CASE i \in 1 .. n /\ i # n /\ a[i] = st[i] /\ \E k \in 1 .. Len(N) : a[j] = N[k]
      <4>1. PICK k \in 1 .. Len(N) : a[j] = N[k]
        BY <3>2
      <4>2. ~ Begins(walk, st[i]) /\ ~ Begins(st[i], walk)
        BY <1>2, <3>2 DEF PathInv, StackWell
      <4>3. st[i] \in T
        <5> HIDE DEF T, st
        <5> QED
          BY <1>1, <3>2, ElementOfSeq
      <4> QED
        BY <1>13, <3>2, <4>1, <4>2, <4>3
    <3>3. CASE j \in 1 .. n /\ j # n /\ a[j] = st[j] /\ \E k \in 1 .. Len(N) : a[i] = N[k]
      <4>1. PICK k \in 1 .. Len(N) : a[i] = N[k]
        BY <3>3
      <4>2. ~ Begins(walk, st[j])
        BY <1>2, <3>3 DEF PathInv, StackWell
      <4>3. st[j] \in T
        <5> HIDE DEF T, st
        <5> QED
          BY <1>1, <3>3, ElementOfSeq
      <4> QED
        BY <1>13, <3>3, <4>1, <4>2, <4>3
    <3>4. CASE /\ \E k \in 1 .. Len(N) : i = (n - 1) + k /\ a[i] = N[k]
               /\ \E k \in 1 .. Len(N) : j = (n - 1) + k /\ a[j] = N[k]
      <4>1. PICK k \in 1 .. Len(N) : i = (n - 1) + k /\ a[i] = N[k]
        BY <3>4
      <4>2. PICK l \in 1 .. Len(N) : j = (n - 1) + l /\ a[j] = N[l]
        BY <3>4
      <4>3. k # l
        BY <2>2, <4>1, <4>2
      <4>4. N[k] # N[l]
        BY <1>4, <4>3 DEF IsInjective
      <4>5. Len(N[k]) = Len(N[l])
        BY <1>12
      <4>6. N[k] \in Seq(E) /\ N[l] \in Seq(E)
        <5> HIDE DEF S
        <5> QED
          BY <1>3, <1>4
      <4> HIDE DEF E
      <4>7. ~ Begins(N[k], N[l])
        BY <4>4, <4>5, <4>6, BeginsSame
      <4> QED
        BY <4>1, <4>2, <4>7
    <3> QED
      BY <1>9, <3>1, <3>2, <3>3, <3>4
  <2>3. /\ \A i \in 1 .. Len(a) : Open(a[i]) /\ Len(a[i]) <= Longest + 1
        /\ \A i, j \in 1 .. Len(a) : i # j => ~ Begins(a[i], a[j])
        /\ Longest' = Longest
    BY <1>8, <2>1, <2>2
  <2> QED
    BY ONLY <1>6, <2>3 DEF StackWell, Open
<1>15. FoundWell'
  <2>1. ASSUME NEW j \in 1 .. Len(fd)
        PROVE  /\ Open(fd[j]) /\ Len(fd[j]) <= Longest /\ EndOf(fd[j]) = search.to
               /\ \A i \in 1 .. Len(a) : ~ Begins(a[i], fd[j])
    <3>1. Open(fd[j]) /\ Len(fd[j]) <= Longest /\ EndOf(fd[j]) = search.to
      BY DEF PathInv, FoundWell
    <3>2. \A i \in 1 .. n : ~ Begins(st[i], fd[j])
      BY DEF PathInv, FoundWell
    <3>3. fd[j] \in T
      <4> HIDE DEF T, fd
      <4> QED
        BY <1>1, ElementOfSeq
    <3>4. ASSUME NEW i \in 1 .. Len(a) PROVE ~ Begins(a[i], fd[j])
      <4>1. CASE i \in 1 .. n /\ a[i] = st[i]
        BY <3>2, <4>1
      <4>2. CASE \E k \in 1 .. Len(N) : a[i] = N[k]
        BY <1>2, <1>13, <3>2, <3>3, <4>2
      <4> QED
        BY <1>9, <4>1, <4>2
    <3> QED
      BY <3>1, <3>4
  <2>2. IsInjective(fd)
    BY DEF PathInv, FoundWell
  <2>3. /\ \A j \in 1 .. Len(fd) :
             /\ Open(fd[j]) /\ Len(fd[j]) <= Longest /\ EndOf(fd[j]) = search.to
             /\ \A i \in 1 .. Len(a) : ~ Begins(a[i], fd[j])
        /\ Longest' = Longest /\ IsInjective(fd)
    BY <1>8, <2>1, <2>2
  <2>4. search'.stack = a /\ search'.found = fd /\ search'.from = search.from /\ search'.to = search.to
    BY <1>6
  <2> HIDE DEF fd, T, E, st, n, walk, S
  <2> QED
    BY ONLY <2>3, <2>4 DEF FoundWell, Open, EndOf
<1>16. NoneForgotten'
  <2> SUFFICES ASSUME NEW w \in Seq(built.edges), Open(w),
                      EndOf(w) = search.to \/ Len(w) = Longest + 1
               PROVE  \/ \E j \in 1 .. Len(fd) : fd[j] = w
                      \/ \E i \in 1 .. Len(a) : Begins(a[i], w)
    BY <1>6, <1>8 DEF NoneForgotten
  <2>1. \/ \E j \in 1 .. Len(fd) : fd[j] = w
        \/ \E i \in 1 .. n : Begins(st[i], w)
    BY DEF PathInv, NoneForgotten
  <2>2. CASE \E i \in 1 .. n : i # n /\ Begins(st[i], w)
    BY <1>10, <2>2
  <2>3. CASE Begins(walk, w)
    <3>1. walk # w
      <4>1. Len(walk) <= Longest /\ Len(walk) \in Nat /\ Longest \in Nat
        BY <1>2, LongestIsNumber, LenProperties
      <4> QED
        BY <4>1
    <3>2. PICK e \in Out(EndOf(walk)) : Begins(Append(walk, e), w)
      BY <1>2, <2>3, <3>1, BeginsGoesOn
    <3>3. Append(walk, e) \in S
      BY DEF Longer
    <3>4. PICK j \in 1 .. Len(a) : a[j] = Append(walk, e)
      BY <1>10, <3>3
    <3> QED
      BY <3>2, <3>4
  <2> QED
    BY <1>2, <2>1, <2>2, <2>3
<1> QED
  BY <1>7, <1>14, <1>15, <1>16 DEF PathInv

\* What an open walk begins with is an open walk.
LEMMA OpenBegins ==
  ASSUME NEW w \in Seq(built.edges), Open(w), NEW k \in 0 .. Len(w)
  PROVE  WalksOf(k) # {}
<1> DEFINE E == built.edges
           v == SubSeq(w, 1, k)
<1>1. k \in Nat /\ k <= Len(w) /\ \A i \in 1 .. k : i \in 1 .. Len(w)
  BY LenProperties
<1>2. v \in Seq(E) /\ Len(v) = k /\ \A i \in 1 .. k : v[i] = w[i]
  <2> HIDE DEF E
  <2>1. w \in Seq(E)
    BY DEF E
  <2>2. ASSUME NEW i \in 1 .. k PROVE w[i] \in E /\ (1 + i) - 1 = i
    BY <1>1, <2>1, ElementOfSeq
  <2>3. k \in Int /\ 1 \in Int /\ (k - 1) + 1 = k /\ (IF 1 <= k THEN k ELSE 0) = k
    BY <1>1
  <2>4. /\ SubSeq(w, 1, k) \in Seq(E)
        /\ Len(SubSeq(w, 1, k)) = IF 1 <= k THEN (k - 1) + 1 ELSE 0
        /\ \A i \in 1 .. (k - 1) + 1 : SubSeq(w, 1, k)[i] = w[(1 + i) - 1]
    BY <2>2, <2>3, SubSeqProperties
  <2> QED
    BY <2>2, <2>3, <2>4
<1> HIDE DEF v
<1>3. Open(v)
  <2> SUFFICES ASSUME NEW i \in 1 .. k
               PROVE  v[i].from = At(v, i - 1) /\ At(v, i - 1) # search.to
    BY <1>2, OpenAt
  <2>1. At(v, i - 1) = At(w, i - 1)
    <3>1. i - 1 = 0 \/ i - 1 \in 1 .. k
      BY <1>1
    <3> QED
      BY <1>2, <3>1 DEF At
  <2>2. w[i].from = At(w, i - 1) /\ At(w, i - 1) # search.to
    BY <1>1, OpenAt
  <2> QED
    BY <1>2, <2>1, <2>2
<1> QED
  BY <1>2, <1>3 DEF WalksOf

\* An open walk of some length leads there.
Walked(x, m) == \E w \in Seq(built.edges) : Open(w) /\ Len(w) >= m /\ EndOf(w) = x

\* It can be led on by an edge.
LEMMA WalkedOn ==
  ASSUME NEW m \in Nat, NEW e \in built.edges, Walked(e.from, m), e.from # search.to
  PROVE  Walked(e.to, m + 1)
<1>1. PICK w \in Seq(built.edges) : Open(w) /\ Len(w) >= m /\ EndOf(w) = e.from
  BY DEF Walked
<1> DEFINE E == built.edges
           v == Append(w, e)
<1>2. v \in Seq(E) /\ Len(v) = Len(w) + 1 /\ EndOf(v) = e.to /\ Open(v)
  <2> HIDE DEF E
  <2>1. w \in Seq(E) /\ e \in E
    BY DEF E
  <2> QED
    BY <1>1, <2>1, OpenGoesOn
<1>3. Len(v) >= m + 1
  BY <1>1, <1>2, LenProperties
<1> HIDE DEF v
<1> QED
  BY <1>2, <1>3 DEF Walked

\* So walks lead to all that can be reached from where they lead.
LEMMA WalksReach ==
  ASSUME NEW m \in Nat, NEW ids, \A x \in ids : Walked(x, m), NEW most \in Nat
  PROVE  \A x \in Within(ids, {search.to}, most)[most] : Walked(x, m)
<1> DEFINE w == Within(ids, {search.to}, most)
           S == {k \in 0 .. most : \A x \in w[k] : Walked(x, m)}
<1>1. w[0] = ids /\ \A k \in 1 .. most : w[k] = Linked(w[k - 1], {search.to})
  BY OneLinkMore
<1> HIDE DEF w
<1>2. \A k \in 0 .. most : k < most /\ k \in S => k + 1 \in S
  <2> TAKE k \in 0 .. most
  <2> HAVE k < most /\ k \in S
  <2>1. k + 1 \in 1 .. most /\ (k + 1) - 1 = k /\ k + 1 \in 0 .. most
    OBVIOUS
  <2>2. w[k + 1] = Linked(w[(k + 1) - 1], {search.to})
    BY <1>1, <2>1
  <2>3. ASSUME NEW x \in w[k + 1] PROVE Walked(x, m)
    <3>1. CASE x \in w[k]
      BY <3>1
    <3>2. CASE x \notin w[k]
      <4>1. PICK e \in built.edges : e.from \in w[k] \ {search.to} /\ x = e.to
        BY <2>1, <2>2, <3>2 DEF Linked
      <4>2. Walked(e.to, m + 1)
        BY <4>1, WalkedOn
      <4>3. \A v : v \in Seq(built.edges) /\ Len(v) >= m + 1 => Len(v) >= m
        BY LenProperties
      <4> QED
        BY <4>1, <4>2, <4>3 DEF Walked
    <3> QED
      BY <3>1, <3>2
  <2> QED
    BY <2>1, <2>3
<1>3. 0 .. most \subseteq S
  <2>1. 0 \in S
    BY <1>1
  <2> HIDE DEF S
  <2> QED
    BY <1>2, <2>1, HandedOn
<1>4. most \in S
  <2>1. most \in 0 .. most
    OBVIOUS
  <2> HIDE DEF S
  <2> QED
    BY <1>3, <2>1
<1> QED
  BY <1>4 DEF w

\* Round a cycle, walks go on for ever.
LEMMA CycleGoesOn ==
  ASSUME GraphWell, Cyclic, NEW n \in Nat
  PROVE  WalksOf(n) # {}
<1>1. Longest \in Nat
  BY LongestIsNumber
<1>2. PICK id \in Reach({search.from}) \ {search.to} : id \in Reach(Targets(Out(id)))
  BY DEF Cyclic, Targets
<1> DEFINE S == {k \in 0 .. n : Walked(id, k)}
<1>3. Walked(id, 0)
  <2>1. Walked(search.from, 0)
    <3>1. <<>> \in Seq(built.edges) /\ Open(<<>>) /\ Len(<<>>) >= 0 /\ EndOf(<<>>) = search.from
      BY DEF Open, EndOf
    <3> QED
      BY <3>1 DEF Walked
  <2>2. \A x \in {search.from} : Walked(x, 0)
    BY <2>1
  <2>3. \A x \in Within({search.from}, {search.to}, Longest)[Longest] : Walked(x, 0)
    BY <1>1, <2>2, WalksReach
  <2> QED
    BY <1>2, <2>3 DEF Reach
<1>4. ASSUME NEW k \in Nat, Walked(id, k) PROVE Walked(id, k + 1)
  <2>1. ASSUME NEW x \in Targets(Out(id)) PROVE Walked(x, k + 1)
    <3>1. PICK e \in built.edges : e.from = id /\ e.to = x
      BY DEF Targets, Out
    <3>2. Walked(e.from, k) /\ e.from # search.to
      BY <1>2, <1>4, <3>1
    <3> QED
      BY <3>1, <3>2, WalkedOn
  <2>2. \A x \in Within(Targets(Out(id)), {search.to}, Longest)[Longest] : Walked(x, k + 1)
    BY <1>1, <2>1, WalksReach
  <2> QED
    BY <1>2, <2>2 DEF Reach
<1>5. \A k \in 0 .. n : k < n /\ k \in S => k + 1 \in S
  BY <1>4
<1>6. Walked(id, n)
  <2>1. 0 \in S
    BY <1>3
  <2>2. n \in 0 .. n
    OBVIOUS
  <2> HIDE DEF S
  <2>3. n \in S
    BY <1>5, <2>1, <2>2, HandedOn
  <2> QED
    BY <2>3 DEF S
<1>7. PICK w \in Seq(built.edges) : Open(w) /\ Len(w) >= n
  BY <1>6 DEF Walked
<1>8. n \in 0 .. Len(w)
  BY <1>7, LenProperties
<1> QED
  BY <1>7, <1>8, OpenBegins

\* When the stack is empty, all was found and no cycle was met.
LEMMA PathsFound ==
  ASSUME GraphWell, PathInv, search.stack = <<>>
  PROVE  LET paths == {w \in Walks : EndOf(w) = search.to}
         IN  /\ ~ Cyclic
             /\ Range(search.found) = paths /\ Len(search.found) = Cardinality(paths)
<1> DEFINE paths == {w \in Walks : EndOf(w) = search.to}
           fd == search.found
           T == Seq(built.edges)
<1>1. Longest \in Nat
  BY LongestIsNumber
<1>2. fd \in Seq(T) /\ IsInjective(fd) /\ DOMAIN fd = 1 .. Len(fd)
  BY DEF PathInv, PathSearch, FoundWell
<1>3. ASSUME NEW w \in T, Open(w), EndOf(w) = search.to \/ Len(w) = Longest + 1
      PROVE  \E j \in 1 .. Len(fd) : fd[j] = w
  BY <1>3 DEF PathInv, NoneForgotten
<1>4. ASSUME NEW j \in 1 .. Len(fd)
      PROVE  fd[j] \in T /\ Open(fd[j]) /\ Len(fd[j]) <= Longest /\ EndOf(fd[j]) = search.to
  <2>1. fd[j] \in T
    <3> HIDE DEF T, fd
    <3> QED
      BY <1>2, ElementOfSeq
  <2> QED
    BY <2>1 DEF PathInv, FoundWell
<1>5. ~ Cyclic
  <2> SUFFICES ASSUME Cyclic PROVE FALSE
    OBVIOUS
  <2>1. PICK w \in WalksOf(Longest + 1) : TRUE
    BY <1>1, CycleGoesOn
  <2>2. w \in T /\ Open(w) /\ Len(w) = Longest + 1
    BY DEF WalksOf
  <2>3. PICK j \in 1 .. Len(fd) : fd[j] = w
    BY <1>3, <2>2
  <2> QED
    BY <1>1, <1>4, <2>2, <2>3
<1>6. Range(fd) = paths
  <2>1. ASSUME NEW w \in paths PROVE w \in Range(fd)
    <3>1. w \in T /\ Open(w) /\ EndOf(w) = search.to
      BY <1>1, WalksAreOpen DEF WalksOf
    <3> QED
      BY <1>2, <1>3, <3>1 DEF Range
  <2>2. ASSUME NEW w \in Range(fd) PROVE w \in paths
    <3>1. PICK j \in 1 .. Len(fd) : fd[j] = w
      BY <1>2 DEF Range
    <3>2. w \in T /\ Open(w) /\ Len(w) <= Longest /\ EndOf(w) = search.to
      BY <1>4, <3>1
    <3>3. Len(w) \in 0 .. Longest
      BY <1>1, <3>2, LenProperties
    <3>4. w \in WalksOf(Len(w))
      BY <3>2 DEF WalksOf
    <3> QED
      BY <1>1, <3>2, <3>3, <3>4, WalksAreOpen
  <2> QED
    BY <2>1, <2>2
<1>7. Len(fd) = Cardinality(paths)
  <2> HIDE DEF T, fd, paths
  <2> QED
    BY <1>2, <1>6, ListCounts
<1> QED
  BY <1>5, <1>6, <1>7

\* A walk stays within what can be reached from where it passes.
LEMMA WalkWithin ==
  ASSUME NEW w \in Seq(built.edges), Open(w), NEW a \in 0 .. Len(w), NEW ids, At(w, a) \in ids,
         NEW most \in Nat, NEW k \in 0 .. most, a + k <= Len(w)
  PROVE  At(w, a + k) \in Within(ids, {search.to}, most)[k]
<1> DEFINE r == Within(ids, {search.to}, most)
<1>1. r[0] = ids /\ \A j \in 1 .. most : r[j] = Linked(r[j - 1], {search.to})
  <2>1. most \in Nat
    OBVIOUS
  <2> QED
    BY ONLY <2>1, OneLinkMore
<1> HIDE DEF r
<1> DEFINE S == {j \in 0 .. k : At(w, a + j) \in r[j]}
<1>2. Len(w) \in Nat /\ a \in Nat /\ k \in Nat /\ a + 0 = a
  <2>1. Len(w) \in Nat
    BY LenProperties
  <2>2. a \in Nat /\ k \in Nat
    OBVIOUS
  <2> QED
    BY <2>1, <2>2
<1>3. \A j \in 0 .. k : j < k /\ j \in S => j + 1 \in S
  <2> TAKE j \in 0 .. k
  <2> HAVE j < k /\ j \in S
  <2> DEFINE i == a + (j + 1)
  <2>1. /\ j + 1 \in 1 .. most /\ (j + 1) - 1 = j /\ j + 1 \in 0 .. k
        /\ i \in 1 .. Len(w) /\ i - 1 = a + j /\ i # 0
    BY <1>2
  <2> HIDE DEF i
  <2>2. w[i] \in built.edges
    <3> DEFINE E == built.edges
    <3>1. w \in Seq(E)
      OBVIOUS
    <3> HIDE DEF E
    <3>2. w[i] \in E
      BY <2>1, <3>1, ElementOfSeq
    <3> QED
      BY <3>2 DEF E
  <2>3. w[i].from = At(w, a + j) /\ At(w, a + j) # search.to /\ At(w, i) = w[i].to
    BY <2>1, OpenAt DEF At
  <2>4. At(w, a + j) \in r[j]
    OBVIOUS
  <2>5. At(w, i) \in Linked(r[j], {search.to})
    BY <2>2, <2>3, <2>4 DEF Linked
  <2>6. r[j + 1] = Linked(r[j], {search.to})
    BY <1>1, <2>1
  <2> QED
    BY <2>1, <2>5, <2>6 DEF i
<1>4. k \in S
  <2>1. 0 \in S
    BY <1>1, <1>2
  <2>2. k \in 0 .. k
    BY <1>2
  <2> HIDE DEF S
  <2> QED
    BY <1>2, <1>3, <2>1, <2>2, HandedOn
<1> QED
  BY <1>4 DEF r

\* A walk that is too long has gone round a cycle.
LEMMA CycleMet ==
  ASSUME GraphWell, NEW w \in Seq(built.edges), Open(w), Len(w) = Longest + 1
  PROVE  Cyclic
<1> DEFINE K == Longest
           V == NodeIds \cup {search.from}
           D == 0 .. K
           f == [i \in D |-> At(w, i)]
<1>1. K \in Nat /\ IsFiniteSet(V) /\ Cardinality(V) = K
  BY LongestIsNumber DEF Longest, NodeIds
<1>2. ASSUME NEW i \in D
      PROVE  /\ At(w, i) \in V /\ At(w, i) # search.to /\ i + 1 \in 1 .. Len(w)
             /\ w[i + 1] \in built.edges /\ w[i + 1].from = At(w, i) /\ w[i + 1].to = At(w, i + 1)
  <2>1. i + 1 \in 1 .. Len(w) /\ (i + 1) - 1 = i /\ i + 1 # 0
    BY <1>1
  <2>2. \A j \in 1 .. Len(w) : w[j] \in built.edges
    <3> DEFINE E == built.edges
    <3>1. w \in Seq(E)
      OBVIOUS
    <3> HIDE DEF E
    <3>2. \A j \in 1 .. Len(w) : w[j] \in E
      BY <3>1, ElementOfSeq
    <3> QED
      BY <3>2 DEF E
  <2>3. w[i + 1].from = At(w, i) /\ At(w, i) # search.to
    BY <2>1, OpenAt
  <2>4. At(w, i) \in V
    <3>1. i = 0 \/ i \in 1 .. Len(w)
      BY <1>1
    <3> QED
      BY <2>2, <3>1 DEF At, GraphWell
  <2> QED
    BY <2>1, <2>2, <2>3, <2>4 DEF At
<1>3. PICK i \in D, j \in D : i < j /\ At(w, i) = At(w, j)
  <2>1. f \in [D -> V]
    BY <1>2
  <2>2. IsFiniteSet(D) /\ Cardinality(D) = K + 1
    <3>1. IsFiniteSet(0 .. K) /\ Cardinality(0 .. K) = IF 0 > K THEN 0 ELSE (K - 0) + 1
      BY <1>1, FS_Interval
    <3> QED
      BY <1>1, <3>1
  <2>3. Cardinality(V) < Cardinality(D)
    BY <1>1, <2>2
  <2>4. \A x \in D : f[x] = At(w, x)
    OBVIOUS
  <2>5. \A x, y \in D : x # y => x < y \/ y < x
    BY <1>1
  <2> HIDE DEF D, V, f
  <2>6. PICK x \in D, y \in D : x # y /\ f[x] = f[y]
    BY <1>1, <2>1, <2>2, <2>3, FS_PigeonHole
  <2> QED
    BY <2>4, <2>5, <2>6
<1> DEFINE id == At(w, i)
           k == j - (i + 1)
<1>4. k \in 0 .. K /\ (i + 1) + k = j /\ i \in 0 .. K /\ j \in 0 .. K /\ j <= Len(w) /\ i <= Len(w) /\ 0 + i = i
  BY <1>1, <1>3
<1>5. id \in Reach({search.from})
  <2>1. At(w, 0) \in {search.from} /\ 0 \in 0 .. Len(w)
    BY <1>4 DEF At
  <2>2. At(w, 0 + i) \in Within({search.from}, {search.to}, K)[i]
    BY <1>1, <1>4, <2>1, WalkWithin
  <2>3. K \in i .. K
    BY <1>1, <1>4
  <2>4. Within({search.from}, {search.to}, K)[i] \subseteq Within({search.from}, {search.to}, K)[K]
    BY <1>1, <1>4, <2>3, MoreIsReached
  <2> QED
    BY <1>4, <2>2, <2>4 DEF Reach
<1>6. id \in Reach(Targets(Out(id)))
  <2> DEFINE T == Targets(Out(id))
  <2>1. At(w, i + 1) \in T
    BY <1>2 DEF Targets, Out
  <2>2. i + 1 \in 0 .. Len(w)
    BY <1>1, <1>3
  <2> HIDE DEF T, k
  <2>3. At(w, (i + 1) + k) \in Within(T, {search.to}, K)[k]
    BY <1>1, <1>4, <2>1, <2>2, WalkWithin
  <2>4. K \in k .. K
    BY <1>1, <1>4
  <2>5. Within(T, {search.to}, K)[k] \subseteq Within(T, {search.to}, K)[K]
    BY <1>1, <1>4, <2>4, MoreIsReached
  <2> QED
    BY <1>3, <1>4, <2>3, <2>5 DEF Reach, T
<1>7. id # search.to
  BY <1>2
<1> QED
  BY <1>5, <1>6, <1>7 DEF Cyclic, Targets

-----------------------------------------------------------------------------
(* Both searches *)

\* The table, the graph made of it, and whichever search goes on.
GraphInv ==
  /\ RowsWell
  /\ built # NoGraph => GraphWell
  /\ built = NoGraph => search.query = "none"
  /\ search.query \in {"none", "neighbors", "path"}
  /\ search.query = "neighbors" => NeighborSearch /\ \E d \in 0 .. MaxDepth : Level(d)
  /\ search.query = "path" => PathInv

\* The invariant holds at first ...
LEMMA GraphInit == GInit => GraphInv
<1> SUFFICES ASSUME GInit PROVE GraphInv
  OBVIOUS
<1>1. RowsWell
  BY DEF GInit, RowsWell, Tables
<1> QED
  BY <1>1 DEF GInit, GraphInv

\* A search for neighbors starts at its node.
LEMMA NeighborsStart ==
  ASSUME GraphWell, NEW id \in KnownIds, StartNeighbors(id)
  PROVE  NeighborSearch' /\ Level(0)'
<1> DEFINE T == [id : KnownIds, depth : Nat]
           entry == [id |-> id, depth |-> 0]
           E == built.edges
<1>1. /\ built' = built /\ KnownIds' = KnownIds
      /\ search' = [query |-> "neighbors", from |-> id, visited |-> {id}, seen |-> <<>>, queue |-> <<entry>>]
  BY DEF StartNeighbors, KnownIds
<1>2. /\ search'.from = id /\ search'.visited = {id} /\ search'.seen = <<>>
      /\ search'.queue = <<entry>> /\ search'.query = "neighbors"
  BY <1>1
<1>3. NeighborSearch'
  <2>1. entry \in T
    OBVIOUS
  <2> DEFINE q == <<entry>>
  <2> HIDE DEF entry, T, E
  <2>2. q \in Seq(T) /\ <<>> \in Seq(E)
    BY <2>1
  <2> HIDE DEF q
  <2>3. [query |-> "neighbors", from |-> id, visited |-> {id}, seen |-> <<>>, queue |-> q]
          \in [query : {"neighbors"}, from : KnownIds, visited : SUBSET KnownIds, seen : Seq(E), queue : Seq(T)]
    BY <2>2
  <2> QED
    BY <1>1, <2>3 DEF NeighborSearch, T, E, q
<1>4. MaxDepth \in Nat /\ 0 \in 0 .. MaxDepth
  BY DepthAssumption
<1>5. (Around')[0] = {id}
  <2>1. Around' = Within({id}, {}, MaxDepth)
    BY <1>1, <1>2 DEF Around, Within
  <2>2. Within({id}, {}, MaxDepth)[0] = {id}
    BY <1>4, OneLinkMore
  <2> QED
    BY <2>1, <2>2
<1>6. Len(search'.queue) = 1 /\ search'.queue[1] = entry /\ entry.id = id /\ entry.depth = 0
  BY <1>2
<1>7. Queued' = {id}
  BY <1>6 DEF Queued
<1>8. Left(0)' = {}
  BY <1>5, <1>7 DEF Left
<1>9. Distances(0)'
  <2> SUFFICES ASSUME NEW i \in 1 .. 1
               PROVE  LET x == search'.queue[i]
                      IN  /\ x.depth \in {0, 0 + 1} /\ x.depth <= MaxDepth
                          /\ x.id \in Around'[x.depth]
                          /\ x.depth > 0 => x.id \notin Around'[x.depth - 1]
    BY <1>6 DEF Distances
  <2>1. search'.queue[i] = entry
    BY <1>6
  <2> QED
    BY <1>4, <1>5, <1>6, <2>1
<1>10. Ordered'
  BY <1>6 DEF Ordered
<1>11. EdgesSeen(0)'
  <2>1. Range(search'.seen) = {} /\ IsInjective(search'.seen)
    BY <1>2 DEF Range, IsInjective
  <2> QED
    BY <1>8, <2>1 DEF EdgesSeen
<1> QED
  BY <1>2, <1>3, <1>5, <1>7, <1>9, <1>10, <1>11 DEF Level

\* A search for paths starts with the walk that has no edges.
LEMMA PathStart ==
  ASSUME GraphWell, NEW from \in KnownIds, NEW to \in KnownIds, StartPath(from, to)
  PROVE  PathInv'
<1> DEFINE T == Seq(built.edges)
<1>1. /\ built' = built /\ KnownIds' = KnownIds
      /\ search' = [query |-> "path", from |-> from, to |-> to, found |-> <<>>, stack |-> <<<<>>>>]
  BY DEF StartPath, KnownIds
<1>2. /\ search'.found = <<>> /\ search'.stack = <<<<>>>> /\ Len(search'.stack) = 1
      /\ search'.stack[1] = <<>> /\ Len(search'.found) = 0
  BY <1>1
<1>3. PathSearch'
  <2>1. <<>> \in T
    OBVIOUS
  <2> DEFINE st == <<<<>>>>
  <2> HIDE DEF T
  <2>2. st \in Seq(T) /\ <<>> \in Seq(T)
    BY <2>1
  <2> HIDE DEF st
  <2>3. [query |-> "path", from |-> from, to |-> to, found |-> <<>>, stack |-> st]
          \in [query : {"path"}, from : KnownIds, to : KnownIds, found : Seq(T), stack : Seq(T)]
    BY <2>2
  <2> QED
    BY <1>1, <2>3 DEF PathSearch, T, st
<1>4. Longest' \in Nat
  <2>1. Longest' = Cardinality(NodeIds \cup {from})
    BY <1>1 DEF Longest, NodeIds
  <2>2. IsFiniteSet(NodeIds)
    BY LongestIsNumber, FS_Subset
  <2>3. IsFiniteSet(NodeIds \cup {from})
    BY <2>2, FS_Singleton, FS_Union
  <2> QED
    BY <2>1, <2>3, FS_CardinalityType
<1>5. StackWell'
  <2>1. Open(<<>>)'
    BY DEF Open
  <2> QED
    BY <1>2, <1>4, <2>1 DEF StackWell, Open
<1>6. FoundWell'
  BY <1>2 DEF FoundWell, IsInjective
<1>7. NoneForgotten'
  <2>1. \A w \in Seq(built'.edges) : Begins(<<>>, w)
    BY LenProperties DEF Begins
  <2> QED
    BY <1>2, <2>1 DEF NoneForgotten
<1> QED
  BY <1>3, <1>5, <1>6, <1>7 DEF PathInv

\* ... every step keeps it ...
LEMMA GraphStep == GraphInv /\ [GNext]_gvars => GraphInv'
<1> SUFFICES ASSUME GraphInv, [GNext]_gvars PROVE GraphInv'
  OBVIOUS
<1>1. ASSUME NEW t \in Tables, NEW id \in Ids, NEW links \in SUBSET Ids, AddRow(t, id, links)
      PROVE  GraphInv'
  <2>1. RowsWell'
    BY <1>1, RowsKept DEF GraphInv
  <2> QED
    BY <1>1, <2>1 DEF AddRow, GraphInv
<1>2. CASE BuildGraph
  <2>1. RowsWell' /\ search.query = "none"
    BY <1>2 DEF BuildGraph, GraphInv, RowsWell, Has
  <2>2. GraphWell'
    BY <1>2, GraphMade DEF GraphInv
  <2> QED
    BY <1>2, <2>1, <2>2 DEF BuildGraph, GraphInv
<1>3. ASSUME NEW id \in KnownIds, StartNeighbors(id)
      PROVE  GraphInv'
  <2>1. GraphWell /\ built # NoGraph
    BY <1>3 DEF StartNeighbors, GraphInv
  <2>2. NeighborSearch' /\ Level(0)'
    BY <1>3, <2>1, NeighborsStart
  <2>3. 0 \in 0 .. MaxDepth
    BY DepthAssumption
  <2>4. RowsWell' /\ built' = built /\ GraphWell' /\ search'.query = "neighbors"
    BY <1>3, <2>1 DEF StartNeighbors, GraphInv, RowsWell, Has, GraphWell, NodeIds
  <2> QED
    BY <2>1, <2>2, <2>3, <2>4 DEF GraphInv
<1>4. CASE VisitNext
  <2>1. GraphWell /\ built # NoGraph /\ NeighborSearch
    BY <1>4 DEF VisitNext, GraphInv
  <2>2. PICK d \in 0 .. MaxDepth : Level(d)
    BY <1>4 DEF VisitNext, GraphInv
  <2>3. NeighborSearch' /\ \E c \in 0 .. MaxDepth : Level(c)'
    <3>1. CASE Head(search.queue).depth = d
      BY <1>4, <2>1, <2>2, <3>1, LevelGoesOn
    <3>2. CASE Head(search.queue).depth # d
      <4>1. d + 1 \in 0 .. MaxDepth /\ Level(d + 1)
        BY <1>4, <2>1, <2>2, <3>2, LevelEnds DEF VisitNext
      <4>2. Head(search.queue).depth = d + 1
        <5>1. Head(search.queue).depth \in {d, d + 1}
          BY <1>4, <2>1, <2>2, EntriesTyped DEF VisitNext, Level, Distances
        <5> QED
          BY <3>2, <5>1
      <4> QED
        BY <1>4, <2>1, <4>1, <4>2, LevelGoesOn
    <3> QED
      BY <3>1, <3>2
  <2>4. RowsWell' /\ built' = built /\ GraphWell'
    BY <1>4, <2>1 DEF VisitNext, GraphInv, RowsWell, Has, GraphWell, NodeIds
  <2>5. search'.query = "neighbors"
    BY <2>3 DEF NeighborSearch
  <2> QED
    BY <2>1, <2>3, <2>4, <2>5 DEF GraphInv
<1>5. ASSUME NEW from \in KnownIds, NEW to \in KnownIds, StartPath(from, to)
      PROVE  GraphInv'
  <2>1. GraphWell /\ built # NoGraph
    BY <1>5 DEF StartPath, GraphInv
  <2>2. PathInv'
    BY <1>5, <2>1, PathStart
  <2>3. RowsWell' /\ built' = built /\ GraphWell' /\ search'.query = "path"
    BY <1>5, <2>1 DEF StartPath, GraphInv, RowsWell, Has, GraphWell, NodeIds
  <2> QED
    BY <2>1, <2>2, <2>3 DEF GraphInv
<1>6. CASE ExtendPath
  <2>1. GraphWell /\ built # NoGraph /\ PathInv
    BY <1>6 DEF ExtendPath, GraphInv
  <2>2. PathInv'
    <3>1. search.stack # <<>> /\ Len(Last(search.stack)) <= Longest /\ built' = built
      BY <1>6 DEF ExtendPath
    <3>2. CASE EndOf(Last(search.stack)) = search.to
      <4>1. search' = [search EXCEPT !.stack = Front(@), !.found = Append(@, Last(search.stack))]
        BY <1>6, <3>2 DEF ExtendPath
      <4> QED
        BY <2>1, <3>1, <3>2, <4>1, WalkFound
    <3>3. CASE EndOf(Last(search.stack)) # search.to
      <4>1. search' = [search EXCEPT !.stack = Front(@) \o SetToSeq(Longer(Last(search.stack)))]
        BY <1>6, <3>3 DEF ExtendPath, Onward, Longer
      <4> QED
        BY <2>1, <3>1, <3>3, <4>1, WalkGoesOn
    <3> QED
      BY <3>2, <3>3
  <2>3. RowsWell' /\ built' = built /\ GraphWell'
    BY <1>6, <2>1 DEF ExtendPath, GraphInv, RowsWell, Has, GraphWell, NodeIds
  <2>4. search'.query = "path"
    BY <2>2 DEF PathInv, PathSearch
  <2> QED
    BY <2>1, <2>2, <2>3, <2>4 DEF GraphInv
<1>7. CASE UNCHANGED gvars
  <2>1. rows' = rows /\ built' = built /\ search' = search
    BY <1>7 DEF gvars
  <2>2. (RowsWell' <=> RowsWell) /\ (GraphWell' <=> GraphWell)
    BY <2>1 DEF RowsWell, Has, GraphWell, NodeIds
  <2>3. NeighborSearch' <=> NeighborSearch
    BY <2>1 DEF NeighborSearch, KnownIds
  <2>4. Around' = Around /\ Queued' = Queued
    BY <2>1 DEF Around, Within, Queued
  <2>5. ASSUME NEW d \in 0 .. MaxDepth, Level(d) PROVE Level(d)'
    <3>1. Left(d)' = Left(d)
      BY <2>4 DEF Left
    <3>2. Distances(d)'
      BY <2>1, <2>4, <2>5 DEF Distances, Level
    <3>3. Ordered' /\ EdgesSeen(d)'
      BY <2>1, <2>5, <3>1 DEF Ordered, EdgesSeen, Level
    <3> QED
      BY <2>1, <2>4, <2>5, <3>2, <3>3 DEF Level
  <2>6. Longest' = Longest
    BY <2>1 DEF Longest
  <2>7. ASSUME PathInv PROVE PathInv'
    <3>1. PathSearch'
      BY <2>1, <2>7 DEF PathInv, PathSearch, KnownIds
    <3>2. StackWell'
      BY <2>1, <2>6, <2>7 DEF PathInv, StackWell, Open
    <3>3. FoundWell'
      BY <2>1, <2>6, <2>7 DEF PathInv, FoundWell, Open, EndOf
    <3>4. NoneForgotten'
      BY <2>1, <2>6, <2>7 DEF PathInv, NoneForgotten, Open, EndOf
    <3> QED
      BY <3>1, <3>2, <3>3, <3>4 DEF PathInv
  <2> QED
    BY <2>1, <2>2, <2>3, <2>5, <2>7 DEF GraphInv
<1> QED
  BY <1>1, <1>2, <1>3, <1>4, <1>5, <1>6, <1>7 DEF GNext

\* ... and so it holds in every state.
LEMMA GraphAlways == GSpec => []GraphInv
<1> QED
  BY GraphInit, GraphStep, PTL DEF GSpec

\* What neighborsOf returns is what it is to return: the nodes that are near enough
\* and the edges between, each once, whatever rows the graph was built from.
THEOREM NeighborsAreExact == GSpec => []NeighborsExact
<1>1. GraphInv => NeighborsExact
  <2> SUFFICES ASSUME GraphInv, search.query = "neighbors", search.queue = <<>> PROVE NeighborsExact
    BY DEF NeighborsExact
  <2>1. GraphWell /\ NeighborSearch
    BY DEF GraphInv
  <2>2. PICK d \in 0 .. MaxDepth : Level(d)
    BY DEF GraphInv
  <2> QED
    BY <2>1, <2>2, NeighborsFound
<1> QED
  BY <1>1, GraphAlways, PTL

\* path returns all paths, each once, unless it can go round a cycle; then it never
\* returns.
THEOREM PathsAreComplete == GSpec => []PathsComplete
<1>1. GraphInv => PathsComplete
  <2> SUFFICES ASSUME GraphInv, search.query = "path" PROVE PathsComplete
    BY DEF PathsComplete
  <2>1. GraphWell /\ PathInv
    BY DEF GraphInv
  <2>2. CASE search.stack = <<>>
    BY <2>1, <2>2, PathsFound DEF PathsComplete
  <2>3. CASE search.stack # <<>>
    <3> SUFFICES ASSUME Len(Last(search.stack)) > Longest PROVE Cyclic
      BY <2>3 DEF PathsComplete
    <3> DEFINE T == Seq(built.edges)
               st == search.stack
    <3>1. st \in Seq(T) /\ st # <<>> /\ <<>> \in Seq(T)
      BY <2>1, <2>3 DEF PathInv, PathSearch
    <3>2. Len(st) \in 1 .. Len(st) /\ Last(st) = st[Len(st)] /\ Last(st) \in T
      <4> HIDE DEF T, st
      <4> QED
        BY <3>1, StackMoves
    <3>3. Open(Last(st)) /\ Len(Last(st)) <= Longest + 1
      BY <2>1, <3>2 DEF PathInv, StackWell
    <3>4. Len(Last(st)) = Longest + 1
      BY <2>1, <3>2, <3>3, LongestIsNumber, LenProperties
    <3> QED
      BY <2>1, <3>2, <3>3, <3>4, CycleMet
  <2> QED
    BY <2>2, <2>3
<1> QED
  BY <1>1, GraphAlways, PTL
=============================================================================
