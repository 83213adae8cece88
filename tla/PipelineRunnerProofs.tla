------------------------- MODULE PipelineRunnerProofs -------------------------
(***************************************************************************)
(* Safety of PipelineRunner for every template, any number of attempts,    *)
(* runs and edits, and crashes at any of the places the model has them.    *)
(* The files, their rows and the stage rows of two runs must agree for a   *)
(* resume to be sound: Chain and Intact say where and while they do.       *)
(***************************************************************************)
EXTENDS PipelineRunner, TLAPS

LocalTypes ==
  /\ goal \in Goals
  /\ phase \in {"idle", "running", "recording"}
  /\ status \in [Stage -> {"PENDING", "SUCCEEDED", "FAILED", "BLOCKED"}]
  /\ tries \in [Stage -> Nat]
  /\ reused \subseteq Stage
  /\ working \in Stage \cup {None}
  /\ worked \in [Stage -> {0, 1}]

\* The call in progress: it is not recorded yet, and resumes from an earlier
\* one; an agent works on a stage that has not succeeded yet.
Phases ==
  /\ phase = "idle" => reused = {} /\ working = None
  /\ phase # "idle" => run >= 1 /\ base < run
  /\ phase = "recording" => working = None /\ \A s \in Stage : status[s] # "PENDING"
  /\ working # None => phase = "running" /\ status[working] = "PENDING" /\ worked[working] = 0
  /\ \A r \in Runs, s \in Stage : r > run \/ (r = run /\ phase # "idle") => rows[r][s] = None

\* A reused stage has been verified, and nothing has gone over it since.
Intact == \A s \in reused : Verified(s) /\ status[s] = "SUCCEEDED"

\* The latest run is recorded in full.
Recorded == run # 0 /\ \A s \in Stage : rows[run][s] # None

\* The artifact of a stage that was worked at stands, and the next run of the
\* chain will find it verified.
Chain ==
  \A s \in Stage : worked[s] = 1 =>
    /\ meta[s] # None /\ disk[s] = meta[s]
    /\ phase = "idle" /\ Recorded =>
         rows[run][s].goal = goal /\ rows[run][s].hash = meta[s]
    /\ phase = "running" => status[s] = "SUCCEEDED" \/ Verified(s)

PInv ==
  /\ TypeOK
  /\ LocalTypes
  /\ Phases
  /\ Intact
  /\ Chain

-----------------------------------------------------------------------------
\* The invariant holds at first.
LEMMA InitPInv == Init => PInv
<1> SUFFICES ASSUME Init PROVE PInv
  OBVIOUS
<1> USE DEF Init
<1>1. TypeOK
  BY AttemptAssumption, BoundAssumption DEF TypeOK, Runs
<1>2. LocalTypes
  BY DEF LocalTypes
<1>3. Phases
  BY DEF Phases
<1>4. Intact /\ Chain
  BY DEF Intact, Chain
<1> QED
  BY <1>1, <1>2, <1>3, <1>4 DEF PInv

\* StartRun keeps the invariant.
LEMMA StartRunPInv ==
  ASSUME PInv, NEW g \in Goals, NEW b \in 0 .. run, StartRun(g, b)
  PROVE  PInv'
<1> USE DEF PInv, StartRun
<1>1. run \in Nat /\ run' \in Nat /\ MaxRuns \in Nat /\ b < run'
  BY BoundAssumption DEF TypeOK
<1>2. TypeOK'
  BY <1>1 DEF TypeOK, tables, local
<1>3. LocalTypes'
  BY DEF LocalTypes, local
<1>4. Phases'
  BY <1>1 DEF Phases, TypeOK, LocalTypes, Runs, tables, local
<1>5. Intact'
  BY DEF Phases, Intact, local
<1>6. Chain'
  <2> SUFFICES ASSUME NEW s \in Stage, worked'[s] = 1
               PROVE  meta[s] # None /\ disk[s] = meta[s] /\ Verified(s)'
    BY DEF Chain, tables, local
  <2>1. Continues(g, b) /\ worked[s] = 1
    BY DEF LocalTypes
  <2>2. Recorded /\ b = run /\ g = goal
    BY <2>1 DEF Continues, Recorded
  <2> QED
    BY <2>1, <2>2 DEF Chain, Recorded, Verified, tables
<1> QED
  BY <1>2, <1>3, <1>4, <1>5, <1>6

\* EditArtifact keeps the invariant.
LEMMA EditArtifactPInv ==
  ASSUME PInv, NEW s \in Stage, EditArtifact(s)
  PROVE  PInv'
<1> USE DEF PInv, EditArtifact, call
<1>1. TypeOK' /\ LocalTypes'
  BY DEF TypeOK, LocalTypes, local
<1>2. Phases'
  BY DEF Phases, local
<1>3. Intact'
  BY DEF Phases, Intact, local
<1>4. Chain'
  BY DEF Chain, Recorded, LocalTypes, TypeOK, local
<1> QED
  BY <1>1, <1>2, <1>3, <1>4

\* Reuse keeps the invariant.
LEMMA ReusePInv ==
  ASSUME PInv, NEW s \in Stage, Reuse(s)
  PROVE  PInv'
<1> USE DEF PInv, Reuse, tables, call, Due
<1>1. TypeOK' /\ LocalTypes'
  BY DEF TypeOK, LocalTypes
<1>2. Phases'
  BY DEF Phases
<1>3. Intact'
  BY DEF Intact, Verified, LocalTypes
<1>4. Chain'
  BY DEF Chain, Recorded, Verified, LocalTypes
<1> QED
  BY <1>1, <1>2, <1>3, <1>4

\* A stage whose agent is called was not worked at in the chain: had it been,
\* its artifact would be found verified.
LEMMA InvokePInv ==
  ASSUME PInv, NEW s \in Stage, Invoke(s)
  PROVE  PInv'
<1> USE DEF PInv, Invoke, tables, call, Due
<1>1. TypeOK' /\ LocalTypes'
  BY DEF TypeOK, LocalTypes
<1>2. worked[s] = 0
  BY DEF Chain, LocalTypes
<1>3. Phases'
  BY <1>2 DEF Phases
<1>4. Intact'
  BY DEF Intact, Verified
<1>5. Chain'
  BY DEF Chain, Recorded, Verified
<1> QED
  BY <1>1, <1>3, <1>4, <1>5

\* What every end of an attempt has in common.
LEMMA OutcomeFacts ==
  ASSUME PInv, NEW s \in Stage, NEW ok \in BOOLEAN, working = s, Outcome(s, ok),
         UNCHANGED <<rows, call, phase, reused>>,
         disk' \in [Stage -> Content \cup {None}], meta' \in [Stage -> Content \cup {None}],
         worked' \in [Stage -> {0, 1}]
  PROVE  TypeOK' /\ LocalTypes' /\ Phases'
<1> USE DEF PInv, Outcome, call
<1>1. phase = "running" /\ s # None
  BY NoneAssumption DEF Phases
<1>2. TypeOK'
  <2>1. tries[s] \in Nat /\ MaxAttempts[s] \in Nat \ {0}
    BY AttemptAssumption DEF LocalTypes
  <2>2. ASSUME NEW t \in Stage PROVE tries'[t] \in 0 .. (MaxAttempts[t] - 1)
    BY <2>1 DEF TypeOK, LocalTypes
  <2> QED
    BY <1>1, <2>2 DEF TypeOK
<1>3. LocalTypes'
  BY DEF LocalTypes
<1>4. Phases'
  BY <1>1 DEF Phases
<1> QED
  BY <1>2, <1>3, <1>4

\* A stage that ends keeps the invariant, whatever it wrote.
LEMMA FinishPInv ==
  ASSUME PInv, NEW s \in Stage, NEW ok \in BOOLEAN,
         FinishBare(s, ok) \/ \E c \in Content : FinishWith(s, ok, c)
  PROVE  PInv'
<1> USE DEF PInv
<1>1. /\ working = s /\ Outcome(s, ok)
      /\ UNCHANGED <<rows, call, phase, reused>>
      /\ s # None
  BY NoneAssumption DEF FinishBare, FinishWith, tables
<1>2. phase = "running" /\ status[s] = "PENDING" /\ worked[s] = 0 /\ s \notin reused
  BY <1>1 DEF Phases, Intact
<1>3. \A t \in Stage \ {s} : /\ disk'[t] = disk[t] /\ meta'[t] = meta[t] /\ worked'[t] = worked[t]
                             /\ status'[t] = status[t]
  <2>1. CASE FinishBare(s, ok)
    BY <1>1, <2>1 DEF FinishBare, Outcome, tables, TypeOK, LocalTypes
  <2>2. ASSUME NEW c \in Content, FinishWith(s, ok, c)
        PROVE  \A t \in Stage \ {s} : /\ disk'[t] = disk[t] /\ meta'[t] = meta[t]
                                      /\ worked'[t] = worked[t] /\ status'[t] = status[t]
    BY <1>1, <2>2 DEF FinishWith, Outcome, TypeOK, LocalTypes
  <2> QED
    BY <2>1, <2>2
<1>4. /\ disk' \in [Stage -> Content \cup {None}] /\ meta' \in [Stage -> Content \cup {None}]
      /\ worked' \in [Stage -> {0, 1}]
  <2>1. CASE FinishBare(s, ok)
    BY <2>1 DEF FinishBare, tables, TypeOK, LocalTypes
  <2>2. ASSUME NEW c \in Content, FinishWith(s, ok, c)
        PROVE  /\ disk' \in [Stage -> Content \cup {None}]
               /\ meta' \in [Stage -> Content \cup {None}]
               /\ worked' \in [Stage -> {0, 1}]
    BY <1>2, <2>2 DEF FinishWith, TypeOK, LocalTypes
  <2> QED
    BY <2>1, <2>2
<1>5. TypeOK' /\ LocalTypes' /\ Phases'
  BY <1>1, <1>4, OutcomeFacts
<1>6. Intact'
  BY <1>1, <1>2, <1>3 DEF Intact, Verified, LocalTypes, call
<1>7. Chain'
  <2> SUFFICES ASSUME NEW t \in Stage, worked'[t] = 1
               PROVE  /\ meta'[t] # None /\ disk'[t] = meta'[t]
                      /\ status'[t] = "SUCCEEDED" \/ Verified(t)'
    BY <1>1, <1>2 DEF Chain
  <2>1. CASE t = s
    <3>1. PICK c \in Content : FinishWith(s, ok, c) /\ ok
      BY <1>2, <2>1 DEF FinishBare, FinishWith, LocalTypes
    <3> QED
      BY <2>1, <3>1, NoneAssumption DEF FinishWith, Outcome, TypeOK, LocalTypes
  <2>2. CASE t # s
    <3>1. /\ worked[t] = 1 /\ meta[t] # None /\ disk[t] = meta[t]
          /\ status[t] = "SUCCEEDED" \/ Verified(t)
      BY <1>2, <1>3, <2>2 DEF Chain
    <3> QED
      BY <1>1, <1>3, <2>2, <3>1 DEF Verified, call
  <2> QED
    BY <2>1, <2>2
<1> QED
  BY <1>5, <1>6, <1>7

\* GraphEnds keeps the invariant.
LEMMA GraphEndsPInv == PInv /\ GraphEnds => PInv'
<1> SUFFICES ASSUME PInv, GraphEnds PROVE PInv'
  OBVIOUS
<1> USE DEF PInv, GraphEnds, tables, call
<1>1. TypeOK' /\ LocalTypes'
  BY DEF TypeOK, LocalTypes
<1>2. Phases'
  BY DEF Phases
<1>3. Intact'
  BY DEF Intact, Verified, LocalTypes
<1>4. Chain'
  BY DEF Chain
<1> QED
  BY <1>1, <1>2, <1>3, <1>4

\* The ways in which a call ends: with all its rows, some of them, or none.
LEMMA CallOverPInv ==
  ASSUME PInv, CallIsOver, phase # "idle", UNCHANGED <<meta, run, goal, worked>>,
         disk' \in [Stage -> Content \cup {None}],
         \A s \in Stage : worked[s] = 1 => disk'[s] = disk[s],
         \/ rows' = rows
         \/ /\ phase = "recording"
            /\ \E told \in SUBSET Stage :
                 rows' = [rows EXCEPT ![run] =
                           [s \in Stage |-> IF s \in told THEN Row(s) ELSE None]]
  PROVE  PInv'
<1> USE DEF PInv, CallIsOver
<1>1. run \in Runs /\ run \in Nat
  BY BoundAssumption DEF Phases, TypeOK, Runs
<1>2. ASSUME phase = "recording", NEW s \in Stage
      PROVE  Row(s) \in StageRow
  BY <1>2 DEF Row, StageRow, Phases, LocalTypes, TypeOK
<1>3. /\ rows' \in [Runs -> [Stage -> StageRow \cup {None}]]
      /\ \A r \in Runs : r > run => rows'[r] = rows[r]
      /\ \A s \in Stage : rows'[run][s] # None => rows'[run][s] = Row(s)
  <2>1. CASE rows' = rows
    BY <1>1, <2>1 DEF TypeOK, Phases
  <2>2. ASSUME phase = "recording", NEW told \in SUBSET Stage,
               rows' = [rows EXCEPT ![run] =
                         [s \in Stage |-> IF s \in told THEN Row(s) ELSE None]]
        PROVE  /\ rows' \in [Runs -> [Stage -> StageRow \cup {None}]]
               /\ \A r \in Runs : r > run => rows'[r] = rows[r]
               /\ \A s \in Stage : rows'[run][s] # None => rows'[run][s] = Row(s)
    <3>1. [s \in Stage |-> IF s \in told THEN Row(s) ELSE None] \in [Stage -> StageRow \cup {None}]
      BY <1>2, <2>2
    <3> QED
      BY <1>1, <2>2, <3>1 DEF TypeOK
  <2> QED
    BY <2>1, <2>2
<1>4. TypeOK'
  BY <1>1, <1>3, AttemptAssumption DEF TypeOK
<1>5. LocalTypes'
  BY DEF LocalTypes
<1>6. Phases'
  BY <1>3 DEF Phases
<1>7. Intact'
  BY DEF Intact
<1>8. Chain'
  <2> SUFFICES ASSUME NEW s \in Stage, worked[s] = 1, Recorded'
               PROVE  /\ meta[s] # None /\ disk'[s] = meta[s]
                      /\ rows'[run][s].goal = goal /\ rows'[run][s].hash = meta[s]
    BY DEF Chain
  <2>1. rows'[run][s] = Row(s)
    BY <1>3 DEF Recorded
  <2> QED
    BY <2>1 DEF Chain, Row
<1> QED
  BY <1>4, <1>5, <1>6, <1>7, <1>8

\* The ends of a run, crashes included, keep the invariant.
LEMMA CallEndsPInv ==
  ASSUME PInv, GraphThrows \/ Record \/ CrashAtWork \/ CrashRecording
  PROVE  PInv'
<1> USE DEF PInv
<1>1. CASE GraphThrows
  BY <1>1, CallOverPInv DEF GraphThrows, tables, TypeOK
<1>2. CASE Record
  <2>1. rows' = [rows EXCEPT ![run] = [s \in Stage |-> IF s \in Stage THEN Row(s) ELSE None]]
    BY <1>2 DEF Record
  <2> QED
    BY <1>2, <2>1, CallOverPInv DEF Record, TypeOK
<1>3. CASE CrashAtWork
  <2>1. working \in Stage /\ worked[working] = 0
    BY <1>3 DEF CrashAtWork, LocalTypes, Phases
  <2>2. /\ disk' \in [Stage -> Content \cup {None}]
        /\ \A s \in Stage : worked[s] = 1 => disk'[s] = disk[s]
    BY <1>3, <2>1 DEF CrashAtWork, TypeOK
  <2> QED
    BY <1>3, <2>2, CallOverPInv DEF CrashAtWork
<1>4. CASE CrashRecording
  <2>1. PICK k \in 0 .. (Len(StageList) - 1) :
          rows' = [rows EXCEPT ![run] =
                    [s \in Stage |-> IF \E i \in 1 .. k : StageList[i] = s THEN Row(s) ELSE None]]
    BY <1>4 DEF CrashRecording
  <2> DEFINE told == {s \in Stage : \E i \in 1 .. k : StageList[i] = s}
  <2>2. [s \in Stage |-> IF \E i \in 1 .. k : StageList[i] = s THEN Row(s) ELSE None]
          = [s \in Stage |-> IF s \in told THEN Row(s) ELSE None]
    OBVIOUS
  <2>3. /\ told \in SUBSET Stage
        /\ rows' = [rows EXCEPT ![run] = [s \in Stage |-> IF s \in told THEN Row(s) ELSE None]]
    BY <2>1, <2>2
  <2> HIDE DEF told
  <2> QED
    BY <1>4, <2>3, CallOverPInv DEF CrashRecording, TypeOK
<1> QED
  BY <1>1, <1>2, <1>3, <1>4

\* Every step keeps the invariant.
LEMMA NextPInv == PInv /\ [Next]_vars => PInv'
<1> SUFFICES ASSUME PInv, [Next]_vars PROVE PInv'
  OBVIOUS
<1>1. CASE \E g \in Goals, b \in 0 .. run : StartRun(g, b)
  BY <1>1, StartRunPInv
<1>2. CASE \E s \in Stage : EditArtifact(s)
  BY <1>2, EditArtifactPInv
<1>3. CASE StageStep
  BY <1>3, ReusePInv, InvokePInv, FinishPInv DEF StageStep
<1>4. CASE GraphEnds \/ GraphThrows \/ Record \/ CrashAtWork \/ CrashRecording
  BY <1>4, GraphEndsPInv, CallEndsPInv
<1>5. CASE UNCHANGED vars
  BY <1>5 DEF vars, PInv, TypeOK, LocalTypes, Phases, Intact, Chain, Recorded, Verified
<1> QED
  BY <1>1, <1>2, <1>3, <1>4, <1>5 DEF Next, RunStep

\* The invariant holds in every state.
THEOREM PipelineInvariance == Spec => []PInv
BY InitPInv, NextPInv, PTL DEF Spec

-----------------------------------------------------------------------------
\* Rows of every run, the attempts and the phases stay well formed.
THEOREM PipelineTypes == Spec => []TypeOK
BY PipelineInvariance, PTL DEF PInv

\* However many runs a chain of resumes has and wherever they failed or
\* crashed, a stage that left its artifact is worked at once.
THEOREM WorkedOnce == Spec => []SideEffectsOnce
<1>1. PInv => SideEffectsOnce
  BY DEF PInv, LocalTypes, SideEffectsOnce
<1> QED
  BY <1>1, PipelineInvariance, PTL

\* A reused artifact is the one that was verified until the run has recorded it.
THEOREM ReuseIsIntact == Spec => []ReusedIntact
<1>1. PInv => ReusedIntact
  BY DEF PInv, LocalTypes, Intact, Verified, ReusedIntact
<1> QED
  BY <1>1, PipelineInvariance, PTL
=============================================================================
