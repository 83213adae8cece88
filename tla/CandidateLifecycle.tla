-------------------------- MODULE CandidateLifecycle --------------------------
(***************************************************************************)
(* src/core/candidates.mjs and src/core/canary.mjs: one candidate id, its  *)
(* versions, its approval, promotion, canary and rollback, in two tables   *)
(* of the state store.  Every call is synchronous and one process makes    *)
(* them: a call is one action, and what may come between its two appends   *)
(* is a crash.  Neither canary results nor history entries name a version. *)
(* Of the evidence in an entry only an approval's is read, and kept here.  *)
(***************************************************************************)
EXTENDS JsonlTable, Naturals, FiniteSets

CONSTANTS
  Versions,
  Evidence,    \* evidenceRefs of an approval: Human is what starts with "human:"
  Human,
  MinWindow,   \* canaryStatus: minWindow
  MaxRows,     \* bound: lines of the candidate table
  MaxResults,  \* bound: canary results
  MaxCrashes,  \* bound: crashes
  None

Status == {"proposed", "evaluated", "approved", "promoted", "rejected", "rolled-back"}

\* Rows of the two tables.
Row   == [version : Versions, status : Status]
Entry == [from : Status \cup {None}, to : Status, evidence : Evidence \cup {None}]

ASSUME EvidenceAssumption == Human \in Evidence
ASSUME NoneAssumption == None \notin Row

VARIABLES
  rows,      \* the table `candidate`
  history,   \* the table `candidate_history`
  results,   \* the table `canary_result`: how many rows, and how many succeeded
  crashes,   \* crashes so far
  acked,     \* history: calls that returned after their two appends
  humans,    \* history: versions approved with a human's evidence
  promotions \* history: versions that promote() let pass

vars == <<rows, history, results, crashes, acked, humans, promotions>>

\* Mutant: what was rolled back may be promoted again.
TransitionsBackAgain(from) ==
  CASE from = "proposed"    -> {"evaluated", "rejected"}
    [] from = "evaluated"   -> {"approved", "rejected"}
    [] from = "approved"    -> {"promoted", "rejected"}
    [] from = "promoted"    -> {"rolled-back"}
    [] from = "rolled-back" -> {"approved", "promoted"}
    [] OTHER                -> {}

Transitions(from) ==
  CASE from = "proposed"  -> {"evaluated", "rejected"}
    [] from = "evaluated" -> {"approved", "rejected"}
    [] from = "approved"  -> {"promoted", "rejected"}
    [] from = "promoted"  -> {"rolled-back"}
    [] OTHER              -> {}

\* latestCandidate
LatestCandidate ==
  LET all == ReadRows(rows)
  IN  IF DOMAIN all = {} THEN None ELSE all[Max(DOMAIN all)]

Init ==
  /\ rows = EmptyTable
  /\ history = EmptyTable
  /\ results = [total |-> 0, good |-> 0]
  /\ crashes = 0
  /\ acked = 0
  /\ humans = {}
  /\ promotions = {}

\* The two appends at the end of a call, or a crash in one of them.
Write(row, entry) ==
  /\ Len(rows.lines) < MaxRows
  /\ UNCHANGED results
  /\ humans' = IF entry.to = "approved" /\ entry.evidence = Human
               THEN humans \cup {row.version} ELSE humans
  /\ \/ /\ rows' = AppendRow(rows, row)
        /\ history' = AppendRow(history, entry)
        /\ acked' = acked + 1
        /\ UNCHANGED crashes
     \/ /\ crashes < MaxCrashes
        /\ \/ rows' \in PartialAppends(rows, row) /\ history' = history
           \/ rows' = AppendRow(rows, row) /\ history' \in PartialAppends(history, entry)
        /\ crashes' = crashes + 1
        /\ UNCHANGED acked

Propose(v) ==
  /\ LatestCandidate # None => LatestCandidate.version # v
  /\ Write([version |-> v, status |-> "proposed"],
           [from |-> None, to |-> "proposed", evidence |-> None])
  /\ UNCHANGED promotions

Transition(to, evidence) ==
  /\ LatestCandidate # None
  /\ to \in Transitions(LatestCandidate.status)
  /\ Write([LatestCandidate EXCEPT !.status = to],
           [from |-> LatestCandidate.status, to |-> to, evidence |-> evidence])

\* transitionCandidate to any status, `promoted` too, whoever calls it: only
\* the table of transitions is asked.
TransitionCandidate(to) ==
  /\ Transition(to, None)
  /\ UNCHANGED promotions

\* approve, or transitionCandidate to `approved` with an evidenceRef.
Approve(evidence) ==
  /\ Transition("approved", evidence)
  /\ UNCHANGED promotions

Approvals == {i \in DOMAIN ReadRows(history) : ReadRows(history)[i].to = "approved"}

\* Mutant: any approval will do.
ApprovedByAnyone == Approvals # {}

\* promote looks at the first approval in the candidate's history.
ApprovedByHuman ==
  \E first \in FirstOf(ReadRows(history), Approvals) : first.evidence = Human

Promote ==
  /\ ApprovedByHuman
  /\ Transition("promoted", None)
  /\ promotions' = promotions \cup {LatestCandidate.version}

ReportCanaryResult(success) ==
  /\ results.total < MaxResults
  /\ results' = [total |-> results.total + 1,
                 good  |-> IF success THEN results.good + 1 ELSE results.good]
  /\ UNCHANGED <<rows, history, crashes, acked, humans, promotions>>

\* canaryStatus with the default baseline 0.9 and threshold 0.1: the difference
\* of the doubles 0.9 and 0.8 is less than 0.1.
Breached ==
  /\ results.total >= MinWindow
  /\ 10 * results.good < 8 * results.total

AutoDisable ==
  /\ Breached
  /\ Transition("rolled-back", None)
  /\ UNCHANGED promotions

Rollback ==
  /\ LatestCandidate # None /\ LatestCandidate.status = "promoted"
  /\ Transition("rolled-back", None)
  /\ UNCHANGED promotions

Next ==
  \/ \E v \in Versions : Propose(v)
  \/ \E to \in Status \ {"approved"} : TransitionCandidate(to)
  \/ \E e \in Evidence : Approve(e)
  \/ Promote
  \/ \E success \in BOOLEAN : ReportCanaryResult(success)
  \/ AutoDisable
  \/ Rollback

Spec == Init /\ [][Next]_vars

-----------------------------------------------------------------------------
\* What can be read is a legal life, whatever rows crashes garbled: what is
\* promoted was proposed, evaluated and approved right before, in the same
\* version, and what is rolled back was promoted.
LegalLife ==
  LET all == ReadRows(rows)
      Before(i) == {j \in DOMAIN all : j < i /\ \A k \in DOMAIN all : k <= j \/ i <= k}
      Was(j, i, status) == all[j] = [version |-> all[i].version, status |-> status]
  IN  \A i \in DOMAIN all :
        /\ all[i].status = "promoted" =>
             \E a \in Before(i) : \E e \in Before(a) : \E p \in Before(e) :
               Was(a, i, "approved") /\ Was(e, i, "evaluated") /\ Was(p, i, "proposed")
        /\ all[i].status = "rolled-back" => \E p \in Before(i) : Was(p, i, "promoted")
        /\ all[i].status = "proposed" => \A j \in Before(i) : all[j].version # all[i].version

\* A crash costs at most one of the records that were acknowledged.
LossBounded ==
  /\ acked <= Cardinality(DOMAIN ReadRows(rows)) + crashes
  /\ acked <= Cardinality(DOMAIN ReadRows(history)) + crashes

\* promote() lets a candidate pass only when a human approved it in some
\* version, whatever crashes left of the approvals and of their order.
PromoteAsksHuman == promotions # {} => humans # {}

\* docs/level-5-acceptance.md:40: promotion requires an explicit human approval
\* record, here one of the version that promote() promotes.
PromotedVersionApproved == promotions \subseteq humans
=============================================================================
