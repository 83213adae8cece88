------------------------------ MODULE Evaluation ------------------------------
(***************************************************************************)
(* src/core/evaluation.mjs: evaluate(), for one run and the versions of    *)
(* one evaluator.  The version is checked before the evaluator is awaited  *)
(* and the rows are written after it, so calls overlap; the rows of one    *)
(* call are written without an await, and the process may die among them.  *)
(***************************************************************************)
EXTENDS JsonlTable, Naturals, FiniteSets

CONSTANTS
  Evaluations,        \* calls of evaluate()
  EvaluatorVersions,
  EvidenceCount,      \* evidence handed to a call
  MaxFaults           \* bound: deaths of the process

ASSUME EvaluationAssumption == EvidenceCount \in Nat

VARIABLES
  stage,    \* call -> new, awaiting its evaluator, done or refused
  version,  \* call -> the version of its evaluator
  strict,   \* call -> strictVersion
  met,      \* history: call -> the calls that overlapped it
  raw,      \* the table `evaluation_raw`
  scores,   \* the table `evaluation_score`
  faults    \* deaths so far

evars == <<stage, version, strict, met, raw, scores, faults>>

EInit ==
  /\ stage = [e \in Evaluations |-> "new"]
  /\ version \in [Evaluations -> EvaluatorVersions]
  /\ strict \in [Evaluations -> BOOLEAN]
  /\ met = [e \in Evaluations |-> {}]
  /\ raw = EmptyTable
  /\ scores = EmptyTable
  /\ faults = 0

Awaiting == {e \in Evaluations : stage[e] = "awaiting"}

\* Mutant: a single score is no history yet.
MismatchAfterTwo(e) ==
  LET prior == ReadRows(scores)
  IN  /\ strict[e] /\ Cardinality(DOMAIN prior) > 1
      /\ \E last \in LastOf(prior, DOMAIN prior) : last.version # version[e]

\* The last score of the run and the evaluator is of another version.
Mismatch(e) ==
  LET prior == ReadRows(scores)
  IN  strict[e] /\ \E last \in LastOf(prior, DOMAIN prior) : last.version # version[e]

Evaluate(e) ==
  /\ stage[e] = "new"
  /\ stage' = [stage EXCEPT ![e] = IF Mismatch(e) THEN "refused" ELSE "awaiting"]
  /\ met' = [f \in Evaluations |->
               IF f = e THEN Awaiting ELSE IF f \in Awaiting THEN met[f] \cup {e} ELSE met[f]]
  /\ UNCHANGED <<version, strict, raw, scores, faults>>

\* What the evaluator returned is no result, or it threw: nothing is written.
EvaluatorFails(e) ==
  /\ stage[e] = "awaiting"
  /\ stage' = [stage EXCEPT ![e] = "refused"]
  /\ UNCHANGED <<version, strict, met, raw, scores, faults>>

RawRow(e) == [version |-> version[e]]

ScoreRow(e) == [call |-> e, version |-> version[e]]

\* Mutant: evidence that is there already is not written again.
RawAfterOnce(e, n) ==
  LET after[k \in 0 .. EvidenceCount] ==
        IF k = 0 \/ \E i \in DOMAIN raw.lines : raw.lines[i] = RawRow(e)
        THEN raw ELSE AppendRow(after[k - 1], RawRow(e))
  IN  after[n]

\* The raw table after n of the call's evidence rows.
RawAfter(e, n) ==
  LET after[k \in 0 .. EvidenceCount] ==
        IF k = 0 THEN raw ELSE AppendRow(after[k - 1], RawRow(e))
  IN  after[n]

\* The evidence rows, then the score, or a death among them, which ends all calls.
EvaluatorReturns(e) ==
  /\ stage[e] = "awaiting"
  /\ \/ /\ raw' = RawAfter(e, EvidenceCount)
        /\ scores' = AppendRow(scores, ScoreRow(e))
        /\ stage' = [stage EXCEPT ![e] = "done"]
        /\ UNCHANGED faults
     \/ /\ faults < MaxFaults
        /\ faults' = faults + 1
        /\ \/ /\ \E n \in 1 .. EvidenceCount : raw' \in PartialAppends(RawAfter(e, n - 1), RawRow(e))
              /\ UNCHANGED scores
           \/ /\ raw' = RawAfter(e, EvidenceCount)
              /\ scores' \in PartialAppends(scores, ScoreRow(e))
        /\ stage' = [f \in Evaluations |-> IF stage[f] = "awaiting" THEN "refused" ELSE stage[f]]
  /\ UNCHANGED <<version, strict, met>>

ENext == \E e \in Evaluations : Evaluate(e) \/ EvaluatorFails(e) \/ EvaluatorReturns(e)

ESpec == EInit /\ [][ENext]_evars

-----------------------------------------------------------------------------
CountOf(table, v) ==
  LET rows == ReadRows(table) IN Cardinality({i \in DOMAIN rows : rows[i].version = v})

\* evaluation.mjs:4-5: scores never detach from the evidence that produced them.
\* Whatever overlaps, the scores of a version have all their evidence rows, up to
\* one row per death.
ScoresAttached ==
  \A v \in EvaluatorVersions :
    EvidenceCount * CountOf(scores, v) <= CountOf(raw, v) + faults

\* The scores with strictVersion that follow one of another version, where those
\* of calls that overlapped them do not count.
Odd(rows) ==
  {j \in DOMAIN rows :
     /\ strict[rows[j].call]
     /\ \E last \in LastOf(rows, {i \in DOMAIN rows : i < j /\ rows[i].call \notin met[rows[j].call]}) :
          last.version # rows[j].version}

\* Those of them that overlapped no earlier one.
FirstOdd(rows) == {j \in Odd(rows) : \A i \in Odd(rows) : i < j => rows[i].call \notin met[rows[j].call]}

\* evaluation.mjs:57-62: with strictVersion a score follows one of its own
\* version.  A death can hide one such score, from calls that all overlap.
StrictVersions == Cardinality(FirstOdd(ReadRows(scores))) <= faults
=============================================================================
