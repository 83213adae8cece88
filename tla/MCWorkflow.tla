----------------------------- MODULE MCWorkflow -----------------------------
(***************************************************************************)
(* Small task graphs for WorkflowRuntime.  Ids are 1 .. 6; d is a partial  *)
(* function from ids to dependencies, the other nodes have none.           *)
(***************************************************************************)
EXTENDS WorkflowRuntime, TLC

NodeIds == 1 .. 6

Graph(list, d, reviews, corrections, twice) ==
  [list        |-> list,
   deps        |-> d @@ [n \in NodeIds |-> {}],
   kind        |-> [n \in NodeIds |-> IF n \in reviews THEN "review"
                                      ELSE IF n \in corrections THEN "correction" ELSE "work"],
   maxAttempts |-> [n \in NodeIds |-> IF n \in twice THEN 2 ELSE 1],
   goal        |-> [n \in NodeIds |-> "original"]]

\* Implement, a review of it, and an independent branch of two.
Reviewed == Graph(<<1, 4, 2, 5>>, (2 :> {1}) @@ (5 :> {4}), {2}, {}, {2, 4})

\* A diamond listed in topological order, with its sink a review.
Diamond == Graph(<<1, 2, 3, 5>>, (2 :> {1}) @@ (3 :> {1}) @@ (5 :> {2, 3}), {5}, {}, {3})

\* Correction after the kept implementation, then the review again.
Corrected == Graph(<<1, 6, 2>>, (6 :> {1}) @@ (2 :> {6}), {2}, {6}, {2})

\* The implementation's goal is rewritten too.
Rewritten == [Corrected EXCEPT !.goal[1] = "rewritten"]

\* No correction: validateReplacement refuses it.
Unusable == Graph(<<1, 2>>, 2 :> {1}, {2}, {}, {})

SequentialGraphs == {Reviewed, Diamond}
AllReplacements  == {Corrected, Rewritten, Unusable}

\* Four roots and a fan-in.
FanIn == Graph(<<1, 2, 3, 5, 4>>, 4 :> {1, 2}, {}, {}, {1})

\* The graph of the test 'fan-in waits for all dependencies'.
FanInAlone == Graph(<<1, 2, 4>>, 4 :> {1, 2}, {}, {}, {})

\* A chain whose list starts with its end.
ReverseChain == Graph(<<5, 4, 3, 2, 1>>,
                      (2 :> {1}) @@ (3 :> {2}) @@ (4 :> {3}) @@ (5 :> {4}), {}, {}, {})

\* Three roots and a review that waits for one of them.
WideReviewed == Graph(<<1, 4, 6, 2>>, 2 :> {1}, {2}, {}, {4})

WideGraphs       == {FanIn, WideReviewed, ReverseChain}
FanInGraphs      == {FanInAlone}
NoReplacements   == {}

\* The runs at concurrency 2 are about graphs the ordering theorem covers.
ASSUME SequentialIsOrderly == Concurrency = 2 => Orderly
=============================================================================
