---------------------------- MODULE MCOrchestrator ----------------------------
(***************************************************************************)
(* Small plans for Orchestrator: a correction and its review, two          *)
(* branches, and a replacement that keeps the correction.                  *)
(***************************************************************************)
EXTENDS Orchestrator, TLC

Ids == 1 .. 4

Plan(list, d, reviews, corrections, twice) ==
  [list        |-> list,
   deps        |-> d @@ [n \in Ids |-> {}],
   kind        |-> [n \in Ids |-> IF n \in reviews THEN "review"
                                  ELSE IF n \in corrections THEN "correction" ELSE "work"],
   maxAttempts |-> [n \in Ids |-> IF n \in twice THEN 2 ELSE 1],
   goal        |-> [n \in Ids |-> "original"]]

\* A correction somebody asked for, and its review.
Reviewed  == Plan(<<1, 2>>, 2 :> {1}, {2}, {1}, {})
Branches  == Plan(<<1, 3>>, <<>>, {}, {}, {3})
\* Keeps node 1, drops the failed review, and reviews again under another id.
Corrected == Plan(<<4, 1>>, 4 :> {1}, {4}, {1}, {})

Plans   == {Reviewed, Branches}
Replans == {Corrected}
=============================================================================
