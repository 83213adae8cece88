------------------------- MODULE WorkspaceSyncProofs -------------------------
(***************************************************************************)
(* For every environment, manifest, list of projects and bound: no         *)
(* lockfile written on a machine names a project that is not there,        *)
(* through failures, crashes, rollbacks and moves; what a sync replaces    *)
(* is in its snapshot; a finished sync leaves a lockfile that tells the    *)
(* host; a second restore finds nothing to do when the first did all it    *)
(* planned.                                                                *)
(***************************************************************************)
EXTENDS WorkspaceSync, SequenceTheorems, WellFoundedInduction, TLAPS

CloneStates == {"absent", "incomplete", "complete"}

\* The sequences are sequences, and every project has a place.
Shapes ==
  /\ \E S : snapshots \in Seq(S)
  /\ reports \in Seq(Reports)
  /\ clones \in [Project -> CloneStates]

\* A project has its turn while reports are missing.
Turn ==
  /\ pc \in {"idle", "snapshot", "apply"} => reports = << >>
  /\ pc = "projects" => Len(reports) < Len(Projects)

\* Reports say what is there; so do the lockfile and every copy of it that was
\* not carried here.
ReportsTrue   == \A i \in DOMAIN reports : ReportTrue(clones, reports[i])
CopiesPresent == \A i \in DOMAIN snapshots :
                   "lock" \in DOMAIN snapshots[i] =>
                     Vouched(clones, carried, snapshots[i]["lock"])

\* A sync that is to write has its snapshot.
Captured ==
  pc \in {"apply", "projects", "lockfile"} /\ cmd.kind = "sync" /\ cmd.apply =>
    snapshots # << >> /\ Last(snapshots) = Files

SyncInv ==
  /\ Shapes /\ Turn
  /\ ReportsTrue /\ LockedProjectsPresent /\ CopiesPresent
  /\ Captured

-----------------------------------------------------------------------------
\* A copy that was cut short holds files of the original, whole or torn.
LEMMA CutShortCopies ==
  ASSUME NEW S, NEW last, NEW copy \in CutShort(S, last)
  PROVE  \A f \in DOMAIN copy : f \in DOMAIN S /\ copy[f] \in {S[f], Torn}
BY DEF CutShort

\* No place is emptied again, and a complete one stays complete.
Grows(c, d) ==
  \A p \in Project : /\ c[p] # "absent" => d[p] # "absent"
                     /\ c[p] = "complete" => d[p] = "complete"

\* A report stays true while clones do not get worse.
LEMMA ReportsStayTrue ==
  ASSUME NEW c, NEW d, Grows(c, d), NEW report, ReportTrue(c, report)
  PROVE  ReportTrue(d, report)
BY DEF Grows, ReportTrue

\* A lockfile stays vouched for while clones do not get worse.
LEMMA StaysVouched ==
  ASSUME NEW c, NEW d, Grows(c, d), NEW k, NEW l, Vouched(c, k, l)
  PROVE  Vouched(d, k, l)
BY ReportsStayTrue DEF ProjectsPresent, Vouched

\* A snapshot more: still a sequence, and the last one is the new one.
LEMMA SnapshotAppended ==
  ASSUME NEW s, NEW copy, \E S : s \in Seq(S)
  PROVE  /\ \E S : Append(s, copy) \in Seq(S)
         /\ Append(s, copy) # << >>
         /\ Last(Append(s, copy)) = copy
         /\ \A i \in DOMAIN Append(s, copy) :
              \/ Append(s, copy)[i] = copy
              \/ i \in DOMAIN s /\ Append(s, copy)[i] = s[i]
<1>1. PICK S : s \in Seq(S)
  OBVIOUS
<1>2. s \in Seq(S \cup {copy})
  BY <1>1
<1>3. Append(s, copy) \in Seq(S \cup {copy}) /\ Len(Append(s, copy)) = Len(s) + 1
  BY <1>2
<1>4. Append(s, copy) # << >> /\ Last(Append(s, copy)) = copy
  BY <1>2, <1>3 DEF Last
<1> QED
  BY <1>2, <1>3, <1>4

\* The invariant holds at first.
LEMMA InitSyncInv == Init => SyncInv
BY DEF Init, SyncInv, Shapes, Turn, ReportsTrue, LockedProjectsPresent, Vouched,
       ProjectsPresent, CopiesPresent, Captured, CloneStates

-----------------------------------------------------------------------------
(* Steps, by what they change *)

\* A death, a return or a start: no reports, and nothing captured to keep.
LEMMA ClonesOnly ==
  ASSUME SyncInv, UNCHANGED <<lock, snapshots, carried>>, Grows(clones, clones')
  PROVE  LockedProjectsPresent' /\ CopiesPresent'
<1>1. LockedProjectsPresent'
  BY StaysVouched DEF SyncInv, LockedProjectsPresent
<1>2. CopiesPresent'
  BY StaysVouched DEF SyncInv, CopiesPresent
<1> QED
  BY <1>1, <1>2

\* Start keeps the invariant.
LEMMA StartKeeps ==
  ASSUME SyncInv, NEW command, NEW first \in {"snapshot", "apply"}, Start(command, first),
         first = "snapshot" \/ command.kind # "sync" \/ ~ command.apply
  PROVE  SyncInv'
BY DEF SyncInv, Start, files, Shapes, Turn, ReportsTrue, LockedProjectsPresent, CopiesPresent,
       Captured

\* Snapshot keeps the invariant.
LEMMA SnapshotKeeps == SyncInv /\ Snapshot => SyncInv'
<1> SUFFICES ASSUME SyncInv, Snapshot PROVE SyncInv'
  OBVIOUS
<1> USE DEF Snapshot
<1>1. /\ \E S : snapshots' \in Seq(S)
      /\ snapshots' # << >> /\ Last(snapshots') = Files
      /\ \A i \in DOMAIN snapshots' :
           \/ snapshots'[i] = Files
           \/ i \in DOMAIN snapshots /\ snapshots'[i] = snapshots[i]
  <2>1. \E S : snapshots \in Seq(S)
    BY DEF SyncInv, Shapes
  <2> HIDE DEF Files
  <2> QED
    BY <2>1, SnapshotAppended
<1>4. Shapes' /\ Captured'
  BY <1>1 DEF SyncInv, Shapes, Captured, Files
<1>2. CopiesPresent'
  <2> SUFFICES ASSUME NEW i \in DOMAIN snapshots', "lock" \in DOMAIN snapshots'[i]
               PROVE  Vouched(clones, carried, snapshots'[i]["lock"])
    BY DEF CopiesPresent
  <2>1. CASE snapshots'[i] = Files
    BY <2>1 DEF SyncInv, LockedProjectsPresent, Files
  <2>2. CASE i \in DOMAIN snapshots /\ snapshots'[i] = snapshots[i]
    BY <2>2 DEF SyncInv, CopiesPresent
  <2> QED
    BY <2>1, <2>2, <1>1
<1>3. Turn' /\ ReportsTrue' /\ LockedProjectsPresent'
  BY DEF SyncInv, Turn, ReportsTrue, LockedProjectsPresent
<1> QED
  BY <1>2, <1>3, <1>4 DEF SyncInv

\* Steps of applyPlan and of the host: nothing of the invariant but pc.
LEMMA ApplyKeeps ==
  SyncInv /\ (\/ Block \/ MissAdapter \/ Preview \/ Skip
              \/ \E result \in AdapterResults : CallAdapter(result)
              \/ EditHost) => SyncInv'
<1> DEFINE kept == <<manifest, lock, snapshots, carried, clones, cmd, pc, reports>>
<1>1. (Block \/ MissAdapter \/ Preview \/ Skip) => UNCHANGED kept
  BY DEF Block, MissAdapter, Preview, Skip, RecordStep, files
<1>2. ASSUME NEW result \in AdapterResults, CallAdapter(result) PROVE UNCHANGED kept
  <2>1. result \in {"changed", "unchanged", "failed"}
    BY SettingAssumption DEF SettingAssumption
  <2> QED
    BY <1>2, <2>1 DEF CallAdapter, RecordStep, files
<1>3. EditHost => UNCHANGED kept
  BY DEF EditHost, Edits
<1>4. SyncInv /\ UNCHANGED kept => SyncInv'
  BY DEF SyncInv, Shapes, Turn, ReportsTrue, LockedProjectsPresent, CopiesPresent, Captured,
         Files
<1> QED
  BY <1>1, <1>2, <1>3, <1>4

\* FinishApply keeps the invariant.
LEMMA FinishApplyKeeps == SyncInv /\ FinishApply => SyncInv'
<1> SUFFICES ASSUME SyncInv, FinishApply PROVE SyncInv'
  OBVIOUS
<1>1. Turn'
  <2>1. Len(Projects) \in Nat /\ (Projects # << >> => 0 < Len(Projects))
    BY SettingAssumption, EmptySeq DEF SettingAssumption
  <2> QED
    BY <2>1 DEF SyncInv, FinishApply, Turn
<1> QED
  BY <1>1 DEF SyncInv, FinishApply, files, Shapes, ReportsTrue, LockedProjectsPresent,
              CopiesPresent, Captured, Files

\* A project's turn: its report is true of what is left, and true for good.
LEMMA ReportKeeps ==
  ASSUME SyncInv, NEW status \in {"CREATED", "PRESENT", "CLONED", "FETCHED", "FAILED"},
         Report(status), Grows(clones, clones'),
         clones' \in [Project -> CloneStates],
         status # "FAILED" => clones'[ThisProject] # "absent",
         status = "CLONED" => clones'[ThisProject] = "complete"
  PROVE  SyncInv'
<1> DEFINE report == [id |-> ThisProject, status |-> status]
<1>1. ThisProject \in Project
  BY SettingAssumption DEF SettingAssumption, SyncInv, Shapes, Turn, Report, ThisProject
<1>2. reports \in Seq(Reports) /\ report \in Reports /\ reports' = Append(reports, report)
  BY <1>1 DEF SyncInv, Shapes, Report, Reports
<1>3. ReportTrue(clones', report)
  BY <1>1 DEF ReportTrue
<1>4. ReportsTrue'
  <2> SUFFICES ASSUME NEW i \in DOMAIN reports' PROVE ReportTrue(clones', reports'[i])
    BY DEF ReportsTrue
  <2>1. CASE i \in DOMAIN reports
    <3>1. reports'[i] = reports[i]
      BY <1>2, <2>1
    <3> QED
      BY <2>1, <3>1, ReportsStayTrue DEF SyncInv, ReportsTrue
  <2>2. CASE i \notin DOMAIN reports
    <3>1. reports'[i] = report
      BY <1>2, <2>2
    <3> QED
      BY <1>3, <3>1
  <2> QED
    BY <2>1, <2>2
<1>5. Shapes'
  BY <1>2 DEF SyncInv, Shapes, Report, files
<1>6. Turn'
  <2>1. Len(Projects) \in Nat
    BY SettingAssumption DEF SettingAssumption
  <2> QED
    BY <1>2, <2>1 DEF SyncInv, Turn, Report
<1>7. LockedProjectsPresent' /\ CopiesPresent'
  BY ClonesOnly DEF Report, files
<1>8. Captured'
  BY DEF SyncInv, Captured, Report, files, Files
<1> QED
  BY <1>4, <1>5, <1>6, <1>7, <1>8 DEF SyncInv

\* The projects keep it.
LEMMA ProjectsKeep == SyncInv /\ (SyncLocal \/ CloneProject \/ FetchProject) => SyncInv'
<1> SUFFICES ASSUME SyncInv PROVE SyncLocal \/ CloneProject \/ FetchProject => SyncInv'
  OBVIOUS
<1>1. clones \in [Project -> CloneStates]
  BY DEF SyncInv, Shapes
<1>2. pc = "projects" => ThisProject \in Project
  BY SettingAssumption DEF SettingAssumption, SyncInv, Shapes, Turn, ThisProject
<1>3. ASSUME SyncLocal PROVE SyncInv'
  <2> HIDE DEF ThisProject
  <2>1. Grows(clones, clones') /\ clones' \in [Project -> CloneStates]
    BY <1>1, <1>2, <1>3 DEF SyncLocal, Grows, CloneStates
  <2>2. clones'[ThisProject] = "complete"
    BY <1>1, <1>2, <1>3 DEF SyncLocal
  <2> QED
    BY <1>3, <2>1, <2>2, ReportKeeps DEF SyncLocal
<1>4. ASSUME CloneProject PROVE SyncInv'
  <2>1. PICK outcome \in {"absent", "incomplete", "complete"} :
          /\ clones' = [clones EXCEPT ![ThisProject] = outcome]
          /\ Report(IF outcome = "complete" THEN "CLONED" ELSE "FAILED")
    BY <1>4 DEF CloneProject
  <2>2. Grows(clones, clones') /\ clones' \in [Project -> CloneStates]
    BY <1>1, <1>2, <1>4, <2>1 DEF CloneProject, Grows, CloneStates
  <2>3. clones'[ThisProject] = outcome
    BY <1>1, <1>2, <1>4, <2>1 DEF CloneProject
  <2> QED
    BY <2>1, <2>2, <2>3, ReportKeeps
<1>5. ASSUME FetchProject PROVE SyncInv'
  <2>1. PICK status \in {"FETCHED", "FAILED"} : Report(status)
    BY <1>5 DEF FetchProject
  <2>2. clones' = clones /\ clones[ThisProject] # "absent" /\ Grows(clones, clones')
    BY <1>5 DEF FetchProject, Grows
  <2> QED
    BY <1>1, <2>1, <2>2, ReportKeeps
<1> QED
  BY <1>3, <1>4, <1>5

\* The end of a command, by whatever way: no reports, and it is captured no more.
LEMMA ReturnKeeps ==
  ASSUME SyncInv, Return, \E S : snapshots' \in Seq(S),
         clones' \in [Project -> CloneStates],
         LockedProjectsPresent', CopiesPresent'
  PROVE  SyncInv'
BY DEF SyncInv, Return, Shapes, Turn, ReportsTrue, Captured

\* WriteLockfile keeps the invariant.
LEMMA WriteLockfileKeeps == SyncInv /\ WriteLockfile => SyncInv'
<1> SUFFICES ASSUME SyncInv, WriteLockfile PROVE SyncInv'
  OBVIOUS
<1>1. CASE ~ LockfileDue
  BY <1>1, ReturnKeeps
     DEF WriteLockfile, SyncInv, Shapes, LockedProjectsPresent, CopiesPresent
<1>2. CASE LockfileDue
  <2>1. lock' = BuildLockfile(done, reports) /\ carried' = carried \ {lock'} /\ clones' = clones
    BY <1>2 DEF WriteLockfile
  <2>2. ProjectsPresent(clones, lock')
    <3>1. lock'.projects = reports
      BY <2>1 DEF BuildLockfile
    <3>2. \A i \in DOMAIN reports : reports[i].status # "FAILED" /\ ReportTrue(clones, reports[i])
      BY <1>2 DEF SyncInv, ReportsTrue, LockfileDue, Failed
    <3> QED
      BY <3>1, <3>2 DEF ProjectsPresent
  <2>3. LockedProjectsPresent'
    BY <2>1, <2>2 DEF LockedProjectsPresent, Vouched
  <2>4. CopiesPresent'
    <3>1. snapshots' = snapshots
      BY DEF WriteLockfile
    <3>2. ASSUME NEW l, Vouched(clones, carried, l) PROVE Vouched(clones, carried \ {lock'}, l)
      BY <2>2, <3>2 DEF Vouched
    <3> QED
      BY <2>1, <3>1, <3>2 DEF SyncInv, CopiesPresent
  <2> QED
    BY <2>3, <2>4, ReturnKeeps DEF WriteLockfile, SyncInv, Shapes
<1> QED
  BY <1>1, <1>2

\* What a copy puts back, whole or cut short, is as present as the copy said.
LEMMA PutBackPresent ==
  ASSUME SyncInv, NEW i \in DOMAIN snapshots, NEW S, PutBack(S),
         \A f \in DOMAIN S : f \in DOMAIN snapshots[i] /\ S[f] \in {snapshots[i][f], Torn},
         UNCHANGED <<clones, carried>>
  PROVE  LockedProjectsPresent'
<1>1. CASE "lock" \in DOMAIN S
  <2>1. /\ lock' \in {snapshots[i]["lock"], Torn}
        /\ Vouched(clones, carried, snapshots[i]["lock"])
    BY <1>1 DEF PutBack, SyncInv, CopiesPresent
  <2> QED
    BY <2>1 DEF LockedProjectsPresent, Vouched, ProjectsPresent
<1>2. CASE "lock" \notin DOMAIN S
  BY <1>2 DEF PutBack, SyncInv, LockedProjectsPresent
<1> QED
  BY <1>1, <1>2

\* Rollback keeps the invariant.
LEMMA RollbackKeeps == SyncInv /\ Rollback => SyncInv'
<1> SUFFICES ASSUME SyncInv, Rollback PROVE SyncInv'
  OBVIOUS
<1>1. LockedProjectsPresent'
  <2>1. PICK i \in DOMAIN snapshots : PutBack(snapshots[i])
    BY DEF Rollback
  <2> QED
    BY <2>1, PutBackPresent DEF Rollback
<1> QED
  BY <1>1 DEF SyncInv, Rollback, Shapes, Turn, ReportsTrue, CopiesPresent, Captured

\* A death keeps the invariant.
LEMMA DeathKeeps ==
  SyncInv /\ (DieBetween \/ DieInSnapshot \/ DieInClone \/ DieInRollback) => SyncInv'
<1> SUFFICES ASSUME SyncInv
             PROVE  DieBetween \/ DieInSnapshot \/ DieInClone \/ DieInRollback => SyncInv'
  OBVIOUS
<1>1. ASSUME DieBetween PROVE SyncInv'
  <2>1. LockedProjectsPresent' /\ CopiesPresent'
    BY <1>1, ClonesOnly DEF DieBetween, files, Grows
  <2> QED
    BY <1>1, <2>1, ReturnKeeps DEF DieBetween, Dies, files, SyncInv, Shapes
<1>2. ASSUME DieInSnapshot PROVE SyncInv'
  <2>1. PICK copy \in CutShort(Files, "lock") : snapshots' = Append(snapshots, copy)
    BY <1>2 DEF DieInSnapshot
  <2>2. "lock" \in DOMAIN copy => copy["lock"] \in {lock, Torn}
    <3>1. \A f \in DOMAIN copy : f \in DOMAIN Files /\ copy[f] \in {Files[f], Torn}
      BY CutShortCopies
    <3> QED
      BY <3>1 DEF Files
  <2>3. /\ \E S : snapshots' \in Seq(S)
        /\ \A i \in DOMAIN snapshots' :
             \/ snapshots'[i] = copy
             \/ i \in DOMAIN snapshots /\ snapshots'[i] = snapshots[i]
    BY <2>1, SnapshotAppended DEF SyncInv, Shapes
  <2>4. CopiesPresent'
    <3> SUFFICES ASSUME NEW i \in DOMAIN snapshots', "lock" \in DOMAIN snapshots'[i]
                 PROVE  Vouched(clones, carried, snapshots'[i]["lock"])
      BY <1>2 DEF CopiesPresent, DieInSnapshot
    <3>1. CASE snapshots'[i] = copy
      BY <2>2, <3>1 DEF SyncInv, LockedProjectsPresent, Vouched, ProjectsPresent
    <3>2. CASE i \in DOMAIN snapshots /\ snapshots'[i] = snapshots[i]
      BY <3>2 DEF SyncInv, CopiesPresent
    <3> QED
      BY <2>3, <3>1, <3>2
  <2>5. LockedProjectsPresent' /\ clones' \in [Project -> CloneStates]
    BY <1>2 DEF DieInSnapshot, SyncInv, Shapes, LockedProjectsPresent
  <2> QED
    BY <1>2, <2>3, <2>4, <2>5, ReturnKeeps DEF DieInSnapshot, Dies
<1>3. ASSUME DieInClone PROVE SyncInv'
  <2>1. clones \in [Project -> CloneStates] /\ ThisProject \in Project
    BY <1>3, SettingAssumption
       DEF DieInClone, SettingAssumption, SyncInv, Shapes, Turn, ThisProject
  <2>2. Grows(clones, clones') /\ clones' \in [Project -> CloneStates]
    BY <1>3, <2>1 DEF DieInClone, Grows, CloneStates
  <2>3. LockedProjectsPresent' /\ CopiesPresent'
    BY <1>3, <2>2, ClonesOnly DEF DieInClone, files
  <2> QED
    BY <1>3, <2>2, <2>3, ReturnKeeps DEF DieInClone, Dies, files, SyncInv, Shapes
<1>4. ASSUME DieInRollback PROVE SyncInv'
  <2>1. PICK i \in DOMAIN snapshots :
          \E last \in DOMAIN snapshots[i] : \E S \in CutShort(snapshots[i], last) : PutBack(S)
    BY <1>4 DEF DieInRollback
  <2>2. PICK last \in DOMAIN snapshots[i] : \E S \in CutShort(snapshots[i], last) : PutBack(S)
    BY <2>1
  <2>3. PICK S \in CutShort(snapshots[i], last) : PutBack(S)
    BY <2>2
  <2>4. \A f \in DOMAIN S : f \in DOMAIN snapshots[i] /\ S[f] \in {snapshots[i][f], Torn}
    BY CutShortCopies
  <2>5. LockedProjectsPresent' /\ CopiesPresent'
    BY <1>4, <2>3, <2>4, PutBackPresent DEF DieInRollback, SyncInv, CopiesPresent
  <2> QED
    BY <1>4, <2>5, ReturnKeeps DEF DieInRollback, Dies, SyncInv, Shapes
<1> QED
  BY <1>1, <1>2, <1>3, <1>4

\* A command that starts keeps the invariant.
LEMMA StartsKeep ==
  ASSUME SyncInv, NEW apply \in BOOLEAN, NEW broken \in Undetected
  PROVE  /\ \A projects \in {"skip", "stop", "continue"} :
              StartSync(apply, broken, projects) => SyncInv'
         /\ StartRestore(apply, broken) => SyncInv'
         /\ StartApply(apply, broken) => SyncInv'
<1>1. ASSUME NEW projects \in {"skip", "stop", "continue"}, StartSync(apply, broken, projects)
      PROVE  SyncInv'
  <2> DEFINE command == [kind |-> "sync", manifest |-> manifest, apply |-> apply,
                         projects |-> projects, baseline |-> None,
                         plan |-> PlanFromManifest(manifest, Observed(broken))]
  <2>1. Start(command, IF apply THEN "snapshot" ELSE "apply") /\ command.apply = apply
    BY <1>1 DEF StartSync
  <2> HIDE DEF command
  <2> QED
    BY <2>1, StartKeeps
<1>2. ASSUME StartRestore(apply, broken) PROVE SyncInv'
  <2>1. PICK command : Start(command, "apply") /\ command.kind = "restore"
    BY <1>2 DEF StartRestore
  <2> QED
    BY <2>1, StartKeeps
<1>3. ASSUME StartApply(apply, broken) PROVE SyncInv'
  <2>1. PICK command : Start(command, "apply") /\ command.kind = "apply"
    BY <1>3 DEF StartApply
  <2> QED
    BY <2>1, StartKeeps
<1> QED
  BY <1>1, <1>2, <1>3

\* Whatever a machine brings along was carried there.
LEMMA MoveKeeps == SyncInv /\ MoveMachine => SyncInv'
<1> SUFFICES ASSUME SyncInv, MoveMachine PROVE SyncInv'
  OBVIOUS
<1>1. UNCHANGED <<manifest, lock, snapshots, cmd, pc, reports>> /\ pc = "idle"
  BY DEF MoveMachine, Edits
<1>2. clones' \in [Project -> CloneStates]
  BY DEF MoveMachine, SyncInv, Shapes, CloneStates
<1>3. carried' = {lock} \cup Copies(snapshots)
  BY DEF MoveMachine
<1>4. \A i \in DOMAIN snapshots :
        "lock" \in DOMAIN snapshots[i] => snapshots[i]["lock"] \in carried'
  BY <1>3 DEF Copies
<1>5. LockedProjectsPresent' /\ CopiesPresent'
  BY <1>1, <1>3, <1>4 DEF LockedProjectsPresent, CopiesPresent, Vouched
<1>6. Shapes' /\ Turn' /\ Captured'
  BY <1>1, <1>2 DEF SyncInv, Shapes, Turn, Captured
<1>7. ReportsTrue'
  <2>1. reports' = << >>
    BY <1>1 DEF SyncInv, Turn
  <2> QED
    BY <2>1 DEF ReportsTrue
<1> QED
  BY <1>5, <1>6, <1>7 DEF SyncInv

\* Every step keeps the invariant.
LEMMA NextSyncInv == SyncInv /\ [Next]_vars => SyncInv'
<1> SUFFICES ASSUME SyncInv, [Next]_vars PROVE SyncInv'
  OBVIOUS
<1>1. CASE ReturnFromApply
  <2>1. LockedProjectsPresent' /\ CopiesPresent'
    BY <1>1, ClonesOnly DEF ReturnFromApply, files, Grows
  <2> QED
    BY <1>1, <2>1, ReturnKeeps DEF ReturnFromApply, files, SyncInv, Shapes
<1>2. CASE EditManifest
  BY <1>2 DEF EditManifest, Edits, SyncInv, Shapes, Turn, ReportsTrue, LockedProjectsPresent,
              CopiesPresent, Captured
<1>3. CASE UNCHANGED vars
  BY <1>3 DEF vars, files, SyncInv, Shapes, Turn, ReportsTrue, LockedProjectsPresent,
              CopiesPresent, Captured, Files
<1> QED
  BY <1>1, <1>2, <1>3, StartsKeep, SnapshotKeeps, ApplyKeeps, FinishApplyKeeps, ProjectsKeep,
     WriteLockfileKeeps, RollbackKeeps, DeathKeeps, MoveKeeps DEF Next

\* The invariant holds in every state.
LEMMA SyncInvHolds == Spec => []SyncInv
BY InitSyncInv, NextSyncInv, PTL DEF Spec

-----------------------------------------------------------------------------
\* On the machine where a command wrote it, or wrote it anew, the lockfile never
\* names a project that failed or is not there, even when it is put back from a
\* snapshot; a lockfile taken to another machine may, until it is written anew.
THEOREM LockfileNamesPresentProjects == Spec => []LockedProjectsPresent
<1>1. SyncInv => LockedProjectsPresent
  BY DEF SyncInv
<1> QED
  BY <1>1, SyncInvHolds, PTL

\* The steps that leave the lockfile alone while it is a sync's turn to write it.
LEMMA OnlyWriteLockfile ==
  ASSUME SyncInv, [Next]_vars, pc = "lockfile", lock' # lock
  PROVE  WriteLockfile
<1>1. \A result \in AdapterResults : ~ CallAdapter(result)
  BY DEF CallAdapter, MayCall, StepsLeft
<1> QED
  BY <1>1 DEF Next, vars, files, StartSync, StartRestore, StartApply, Start, Snapshot,
     Block, MissAdapter, Preview, MayCall, StepsLeft, Skip, FinishApply, ReturnFromApply,
     SyncLocal, CloneProject, FetchProject, Rollback, DieBetween, DieInSnapshot,
     DieInClone, DieInRollback, EditManifest, EditHost, MoveMachine, Edits

\* Whatever a sync writes over is what its own snapshot holds, so that a
\* rollback to it brings back the manifest and lockfile of before.
THEOREM SyncIsUndoable == Spec => SyncUndoable
<1>1. SyncInv /\ [Next]_vars =>
        (pc = "lockfile" /\ cmd.kind = "sync" /\ lock' # lock =>
           snapshots # << >> /\ Last(snapshots) = Files)
  BY OnlyWriteLockfile DEF WriteLockfile, LockfileDue, SyncInv, Captured
<1>2. SyncInv /\ [Next]_vars =>
        [pc = "lockfile" /\ cmd.kind = "sync" /\ lock' # lock =>
           snapshots # << >> /\ Last(snapshots) = Files]_vars
  BY <1>1
<1> QED
  BY <1>2, SyncInvHolds, PTL DEF Spec, SyncUndoable

-----------------------------------------------------------------------------
(* What a command knows *)

Spent == spent \in [commands : Nat, edits : Nat, crashes : Nat]

\* Copies hold manifests and lockfiles, or torn ones.
CopiesTyped ==
  \A i \in DOMAIN snapshots :
    /\ "manifest" \in DOMAIN snapshots[i] => snapshots[i]["manifest"] \in Manifests \cup {Torn}
    /\ "lock" \in DOMAIN snapshots[i] => snapshots[i]["lock"] \in Lockfile \cup {None, Torn}

\* The files a command read stay what they are until it writes, and its plan
\* is for what the manifest declares.
Command ==
  pc # "idle" =>
    /\ cmd.kind \in {"sync", "restore", "apply"}
    /\ manifest \in Manifests /\ cmd.manifest = manifest
    /\ cmd.baseline = IF cmd.kind = "restore" /\ lock # Torn THEN lock ELSE None
    /\ DOMAIN cmd.plan = {r \in Resource : manifest[r] # None}
    /\ pc \in {"snapshot", "projects"} => cmd.kind = "sync"
    /\ reports # << >> => cmd.kind = "sync"

\* Nothing is recorded before the plan is carried out.
Unrecorded == pc \in {"idle", "snapshot"} => DOMAIN done = {}

\* A resource the lockfile read says nothing about goes by the host.
ByHost(r) == cmd.baseline = None \/ r \notin DOMAIN cmd.baseline.environment

\* A step to come was planned for what the host has, or for nothing when the
\* adapter did not tell, or for what the lockfile says.
Planned ==
  pc # "idle" =>
    \A r \in Left :
      \E current \in IF ByHost(r) THEN {host[r], None}
                                  ELSE {cmd.baseline.environment[r].version} :
        cmd.plan[r] = DiffResource(manifest[r], current)

\* A record is true of the host.
RecordTrue(r) ==
  /\ done[r].status \notin {"FAILED", "BLOCKED"} => r \in Adapted
  /\ done[r].status = "BLOCKED" => Failed(done)
  /\ done[r].status = "PREVIEW" => ~ cmd.apply
  /\ done[r].status = "APPLIED" => done[r].after = manifest[r] /\ host[r] = manifest[r]
  /\ done[r].status = "NO_CHANGE" /\ ByHost(r) =>
       done[r].after = host[r] \/ done[r].action = "INSTALL"
  /\ done[r].action = "SKIP" => /\ done[r].after = manifest[r]
                                /\ ByHost(r) => host[r] = manifest[r]
RecordsTrue == \A r \in DOMAIN done : RecordTrue(r)

CommandInv ==
  /\ TypeOK /\ Spent /\ CopiesTyped
  /\ Command /\ Unrecorded /\ Planned /\ RecordsTrue

\* The invariant holds at first.
LEMMA InitCommandInv == Init => CommandInv
BY SettingAssumption
   DEF SettingAssumption, Init, CommandInv, TypeOK, Spent, CopiesTyped, Command, Unrecorded,
       Planned, RecordsTrue

-----------------------------------------------------------------------------
(* Plans and lockfiles *)

\* A set of naturals has a least element.
LEMMA LeastNumber ==
  ASSUME NEW S \in SUBSET Nat, S # {}
  PROVE  \E m \in S : \A k \in S : m <= k
<1> DEFINE Less == {ss \in Nat \X Nat : ss[1] < ss[2]}
<1>1. IsWellFoundedOn(Less, Nat)
  BY NatLessThanWellFounded DEF OpToRel
<1>2. PICK m \in S : \A k \in S : <<k, m>> \notin Less
  <2> HIDE DEF Less
  <2> QED BY <1>1, WFMin
<1>3. ASSUME NEW k \in S PROVE m <= k
  <2>1. k \in Nat /\ m \in Nat /\ ~ k < m
    BY <1>2
  <2> QED
    BY <2>1
<1> QED
  BY <1>3

\* The step that is next is one of those left.
LEMMA CurrentIsLeft ==
  ASSUME TypeOK, StepsLeft
  PROVE  Current \in Left /\ Current \in Resource
<1>1. Left # {} /\ Left \subseteq Resource
  BY DEF TypeOK, StepsLeft, Left
<1>2. \A r \in Left : Place(r) \in Nat
  BY <1>1, SettingAssumption DEF SettingAssumption, Resource, Range, Place
<1>3. PICK k \in {Place(r) : r \in Left} : \A l \in {Place(r) : r \in Left} : k <= l
  BY <1>1, <1>2, LeastNumber
<1>4. \E r \in Left : \A q \in Left : Place(r) <= Place(q)
  BY <1>3
<1> QED
  BY <1>1, <1>4 DEF Current

\* A lockfile gives resources their versions.
LEMMA LockfileEntries ==
  ASSUME NEW l \in Lockfile
  PROVE  /\ l # None /\ l # Torn
         /\ \A r \in DOMAIN l.environment :
              r \in Resource /\ l.environment[r].version \in Version
<1>1. PICK S \in SUBSET Resource :
        l.environment \in [S -> [action : Action, version : Version]]
  BY DEF Lockfile
<1> QED
  BY <1>1, SettingAssumption DEF SettingAssumption

\* Every resource declared gets a step to the version declared.
LEMMA PlanTyped ==
  ASSUME NEW m \in Manifests, NEW observed \in [Resource -> Version \cup {None}]
  PROVE  LET plan == PlanFromManifest(m, observed) IN
         /\ DOMAIN plan = {r \in Resource : m[r] # None}
         /\ \A r \in DOMAIN plan : /\ plan[r] \in Steps
                                   /\ plan[r] = DiffResource(m[r], observed[r])
<1>1. m \in [Resource -> Version \cup {None}]
  BY ManifestAssumption DEF ManifestAssumption
<1>2. ASSUME NEW r \in Resource, m[r] # None PROVE DiffResource(m[r], observed[r]) \in Steps
  BY <1>1, <1>2 DEF DiffResource, Steps, Action
<1> QED
  BY <1>2 DEF PlanFromManifest

\* Detection tells a version that is on the host, or nothing.
LEMMA ObservedTyped ==
  ASSUME TypeOK, NEW broken
  PROVE  /\ Observed(broken) \in [Resource -> Version \cup {None}]
         /\ \A r \in Resource : Observed(broken)[r] \in {host[r], None}
BY DEF TypeOK, Observed

-----------------------------------------------------------------------------
(* Steps *)

\* A command starts knowing the files, with a plan for what it observed.
LEMMA StartKnows ==
  ASSUME CommandInv, NEW command, NEW first \in {"snapshot", "apply"}, Start(command, first),
         NEW observed \in [Resource -> Version \cup {None}],
         command.kind \in {"sync", "restore", "apply"},
         first = "snapshot" => command.kind = "sync",
         command.manifest = manifest,
         command.baseline = IF command.kind = "restore" /\ lock # Torn THEN lock ELSE None,
         command.plan = PlanFromManifest(manifest, observed),
         \A r \in Resource :
           observed[r] \in
             IF command.baseline = None \/ r \notin DOMAIN command.baseline.environment
               THEN {host[r], None} ELSE {command.baseline.environment[r].version}
  PROVE  CommandInv'
<1>1. /\ cmd' = command /\ pc' = first /\ done' = << >> /\ reports' = << >>
      /\ manifest' = manifest /\ lock' = lock /\ host' = host
      /\ snapshots' = snapshots /\ clones' = clones
      /\ spent' = [spent EXCEPT !.commands = @ + 1] /\ manifest # Torn
  BY DEF Start, files
<1>2. manifest \in Manifests
  BY <1>1 DEF CommandInv, TypeOK
<1>3. /\ DOMAIN command.plan = {r \in Resource : manifest[r] # None}
      /\ \A r \in DOMAIN command.plan : /\ command.plan[r] \in Steps
                                        /\ command.plan[r] = DiffResource(manifest[r], observed[r])
  <2> SUFFICES /\ DOMAIN PlanFromManifest(manifest, observed) = {r \in Resource : manifest[r] # None}
               /\ \A r \in DOMAIN PlanFromManifest(manifest, observed) :
                    /\ PlanFromManifest(manifest, observed)[r] \in Steps
                    /\ PlanFromManifest(manifest, observed)[r] = DiffResource(manifest[r], observed[r])
    OBVIOUS
  <2> QED
    BY <1>2, PlanTyped, SMTT(30)
<1>4. DOMAIN done' = {}
  BY <1>1
<1>5. TypeOK'
  <2>1. command.baseline \in Lockfile \cup {None}
    BY DEF CommandInv, TypeOK
  <2> QED
    BY <1>1, <1>3, <1>4, <2>1 DEF CommandInv, TypeOK
<1>6. Command'
  BY <1>1, <1>2, <1>3 DEF Command
<1>7. Planned'
  BY <1>1, <1>3 DEF Planned, ByHost, Left
<1>8. Spent' /\ CopiesTyped' /\ Unrecorded' /\ RecordsTrue'
  BY <1>1, <1>4 DEF CommandInv, Spent, CopiesTyped, Unrecorded, RecordsTrue
<1> QED
  BY <1>5, <1>6, <1>7, <1>8 DEF CommandInv

\* A command that starts knows what it has read.
LEMMA StartsKnow ==
  ASSUME CommandInv, NEW apply \in BOOLEAN, NEW broken \in Undetected
  PROVE  /\ \A projects \in {"skip", "stop", "continue"} :
              StartSync(apply, broken, projects) => CommandInv'
         /\ StartRestore(apply, broken) => CommandInv'
         /\ StartApply(apply, broken) => CommandInv'
<1>1. /\ Observed(broken) \in [Resource -> Version \cup {None}]
      /\ \A r \in Resource : Observed(broken)[r] \in {host[r], None}
  BY ObservedTyped DEF CommandInv
<1>2. ASSUME NEW projects \in {"skip", "stop", "continue"}, StartSync(apply, broken, projects)
      PROVE  CommandInv'
  <2> DEFINE command == [kind |-> "sync", manifest |-> manifest, apply |-> apply,
                         projects |-> projects, baseline |-> None,
                         plan |-> PlanFromManifest(manifest, Observed(broken))]
  <2>1. /\ Start(command, IF apply THEN "snapshot" ELSE "apply")
        /\ command.kind = "sync" /\ command.manifest = manifest /\ command.baseline = None
        /\ command.plan = PlanFromManifest(manifest, Observed(broken))
    BY <1>2 DEF StartSync
  <2> HIDE DEF command
  <2> QED
    BY <1>1, <2>1, StartKnows
<1>3. ASSUME StartRestore(apply, broken) PROVE CommandInv'
  <2> DEFINE baseline == IF lock = Torn THEN None ELSE lock
             observed == ObservedFromLockfile(Observed(broken), baseline)
  <2>1. PICK command : /\ Start(command, "apply")
                       /\ command.kind = "restore" /\ command.manifest = manifest
                       /\ command.baseline = baseline
                       /\ command.plan = PlanFromManifest(manifest, observed)
    BY <1>3 DEF StartRestore
  <2>2. /\ observed \in [Resource -> Version \cup {None}]
        /\ \A r \in Resource :
             observed[r] \in IF baseline = None \/ r \notin DOMAIN baseline.environment
                               THEN {host[r], None} ELSE {baseline.environment[r].version}
    <3>1. baseline \in Lockfile \cup {None}
      BY DEF CommandInv, TypeOK
    <3> HIDE DEF baseline
    <3> QED
      BY <1>1, <3>1, LockfileEntries DEF ObservedFromLockfile
  <2>3. command.baseline = IF command.kind = "restore" /\ lock # Torn THEN lock ELSE None
    BY <2>1
  <2> HIDE DEF baseline, observed
  <2> QED
    BY <2>1, <2>2, <2>3, StartKnows
<1>4. ASSUME StartApply(apply, broken) PROVE CommandInv'
  <2>1. PICK command : /\ Start(command, "apply")
                       /\ command.kind = "apply" /\ command.manifest = manifest
                       /\ command.baseline = None
                       /\ command.plan = PlanFromManifest(manifest, Observed(broken))
    BY <1>4 DEF StartApply
  <2> QED
    BY <1>1, <2>1, StartKnows
<1> QED
  BY <1>2, <1>3, <1>4

\* A record more: it says what came of the step, and the host changed, if at
\* all, where the step is about.
LEMMA RecordKeeps ==
  ASSUME CommandInv, StepsLeft,
         NEW status \in {"APPLIED", "NO_CHANGE", "PREVIEW", "BLOCKED", "FAILED"},
         RecordStep(status),
         host' \in [Resource -> Version \cup {None}],
         \A r \in Resource \ {Current} : host'[r] = host[r],
         status \notin {"FAILED", "BLOCKED"} => Current \in Adapted,
         status = "BLOCKED" => Failed(done),
         status = "PREVIEW" => ~ cmd.apply,
         status = "APPLIED" => host'[Current] = Step.version,
         Step.action = "SKIP" \/ status = "NO_CHANGE" => host' = host
  PROVE  CommandInv'
<1> DEFINE record == [action |-> Step.action, status |-> status, after |-> After(Step, status)]
<1>0. PICK c : c = Current
  OBVIOUS
<1>1. /\ done' = [r \in DOMAIN done \cup {c} |-> IF r = c THEN record ELSE done[r]]
      /\ manifest' = manifest /\ lock' = lock /\ snapshots' = snapshots /\ clones' = clones
      /\ cmd' = cmd /\ pc' = pc /\ reports' = reports /\ spent' = spent
  BY <1>0 DEF RecordStep, files
<1>2. c \in DOMAIN cmd.plan /\ c \notin DOMAIN done /\ c \in Resource /\ pc = "apply"
  BY <1>0, CurrentIsLeft DEF CommandInv, StepsLeft, Left
<1>3. Step \in Steps /\ Step = cmd.plan[c]
  BY <1>0, <1>2 DEF CommandInv, TypeOK, Step
<1>4. record \in Records
  BY <1>3 DEF Steps, Records, After
<1>5. /\ DOMAIN done' = DOMAIN done \cup {c} /\ done'[c] = record
      /\ \A r \in DOMAIN done : done'[r] = done[r]
  BY <1>1, <1>2
<1> HIDE DEF record
<1>6. TypeOK'
  BY <1>1, <1>2, <1>4, <1>5 DEF CommandInv, TypeOK
<1>7. Spent' /\ CopiesTyped' /\ Command' /\ Unrecorded'
  BY <1>1, <1>2 DEF CommandInv, Spent, CopiesTyped, Command, Unrecorded
<1>8. Planned'
  <2>1. \A r \in Left' : r \in Left /\ host'[r] = host[r]
    BY <1>0, <1>1, <1>2, <1>5 DEF Left, CommandInv, TypeOK
  <2> QED
    BY <1>1, <1>2, <2>1 DEF CommandInv, Planned, ByHost
<1>9. \A r \in DOMAIN done : RecordTrue(r)'
  <2> SUFFICES ASSUME NEW r \in DOMAIN done PROVE RecordTrue(r)'
    OBVIOUS
  <2>1. RecordTrue(r)
    BY DEF CommandInv, RecordsTrue
  <2>2. done'[r] = done[r] /\ host'[r] = host[r]
    BY <1>0, <1>2, <1>5 DEF CommandInv, TypeOK
  <2>3. Failed(done) => Failed(done')
    BY <1>5 DEF Failed
  <2> QED
    BY <1>1, <2>1, <2>2, <2>3 DEF RecordTrue, ByHost
<1>10. RecordTrue(c)'
  <2>1. PICK current \in IF ByHost(c) THEN {host[c], None}
                                      ELSE {cmd.baseline.environment[c].version} :
          Step = DiffResource(manifest[c], current)
    BY <1>2, <1>3 DEF CommandInv, Planned, Left
  <2>2. manifest[c] # None
    BY <1>2 DEF CommandInv, Command
  <2>3. /\ Step.version = manifest[c]
        /\ Step.action = "SKIP" => Step.previous = None /\ current = manifest[c]
        /\ Step.action = "UPDATE" => Step.previous = current /\ current # None
        /\ Step.action \in {"INSTALL", "UPDATE", "SKIP"}
    BY <2>1 DEF DiffResource
  <2>4. Failed(done) => Failed(done')
    BY <1>5 DEF Failed
  <2>5. /\ done'[c].action = Step.action /\ done'[c].status = status
        /\ done'[c].after = After(Step, status)
    BY <1>5 DEF record
  <2>6. status = "APPLIED" => done'[c].after = manifest[c] /\ host'[c] = manifest[c]
    BY <1>0, <2>3, <2>5 DEF After
  <2>7. Step.action = "SKIP" => /\ done'[c].after = manifest[c]
                                /\ ByHost(c) => host'[c] = manifest[c]
    BY <2>1, <2>2, <2>3, <2>5 DEF After
  <2>8. status = "NO_CHANGE" /\ ByHost(c) =>
          done'[c].after = host'[c] \/ done'[c].action = "INSTALL"
    BY <2>1, <2>2, <2>3, <2>5, <2>7 DEF After
  <2> QED
    BY <1>0, <1>1, <2>4, <2>5, <2>6, <2>7, <2>8 DEF RecordTrue, ByHost
<1>11. RecordsTrue'
  BY <1>5, <1>9, <1>10 DEF RecordsTrue
<1> QED
  BY <1>6, <1>7, <1>8, <1>11 DEF CommandInv

\* The steps of a plan keep what a command knows.
LEMMA ApplyKnows ==
  CommandInv /\ (\/ Block \/ MissAdapter \/ Preview \/ Skip
                 \/ \E result \in AdapterResults : CallAdapter(result)) => CommandInv'
<1> SUFFICES ASSUME CommandInv PROVE
      Block \/ MissAdapter \/ Preview \/ Skip
        \/ (\E result \in AdapterResults : CallAdapter(result)) => CommandInv'
  OBVIOUS
<1>1. host \in [Resource -> Version \cup {None}]
  BY DEF CommandInv, TypeOK
<1>2. ASSUME Block \/ MissAdapter \/ Preview \/ Skip PROVE CommandInv'
  <2>1. StepsLeft /\ host' = host
    BY <1>2 DEF Block, MissAdapter, Preview, Skip, MayCall
  <2>2. PICK status \in {"NO_CHANGE", "PREVIEW", "BLOCKED", "FAILED"} :
          /\ RecordStep(status)
          /\ status = "BLOCKED" => Failed(done)
          /\ status \in {"NO_CHANGE", "PREVIEW"} => Current \in Adapted
          /\ status = "PREVIEW" => ~ cmd.apply
    BY <1>2 DEF Block, MissAdapter, Preview, Skip, MayCall
  <2> QED
    BY <1>1, <2>1, <2>2, RecordKeeps
<1>3. ASSUME NEW result \in AdapterResults, CallAdapter(result) PROVE CommandInv'
  <2>1. /\ StepsLeft /\ Current \in Adapted /\ Step.action # "SKIP"
        /\ result \in {"changed", "unchanged", "failed"}
    BY <1>3, SettingAssumption DEF SettingAssumption, CallAdapter, MayCall
  <2>2. Current \in Resource /\ Step.version \in Version
    BY <2>1, CurrentIsLeft DEF CommandInv, TypeOK, StepsLeft, Left, Step, Steps
  <2>3. CASE result = "changed"
    <3>1. host' = [host EXCEPT ![Current] = Step.version] /\ RecordStep("APPLIED")
      BY <1>3, <2>3 DEF CallAdapter
    <3>2. /\ host' \in [Resource -> Version \cup {None}]
          /\ \A r \in Resource \ {Current} : host'[r] = host[r]
          /\ host'[Current] = Step.version
      BY <1>1, <2>2, <3>1
    <3> QED
      BY <2>1, <3>1, <3>2, RecordKeeps
  <2>4. CASE result = "unchanged"
    <3>1. host' = host /\ RecordStep("NO_CHANGE")
      BY <1>3, <2>4 DEF CallAdapter
    <3> QED
      BY <1>1, <2>1, <3>1, RecordKeeps
  <2>5. CASE result = "failed"
    <3>1. PICK left \in {host[Current], None} : host' = [host EXCEPT ![Current] = left]
      BY <1>3, <2>5 DEF CallAdapter
    <3>2. RecordStep("FAILED")
      BY <1>3, <2>5 DEF CallAdapter
    <3>3. /\ host' \in [Resource -> Version \cup {None}]
          /\ \A r \in Resource \ {Current} : host'[r] = host[r]
      BY <1>1, <2>2, <3>1
    <3> QED
      BY <2>1, <3>2, <3>3, RecordKeeps
  <2> QED
    BY <2>1, <2>3, <2>4, <2>5
<1> QED
  BY <1>2, <1>3

\* The end of a command: nothing is known any more.
LEMMA ReturnKnows ==
  ASSUME CommandInv, Return,
         manifest' \in Manifests \cup {Torn}, lock' \in Lockfile \cup {None, Torn},
         host' = host, clones' \in [Project -> CloneStates],
         Spent', CopiesTyped'
  PROVE  CommandInv'
<1>1. pc' = "idle" /\ done' = << >> /\ reports' = << >>
  BY DEF Return
<1>2. DOMAIN done' = {}
  BY <1>1
<1> QED
  BY <1>1, <1>2 DEF CommandInv, TypeOK, CloneStates, Command, Unrecorded, Planned, RecordsTrue

\* A copy of the files, whole or cut short, holds what they held.
LEMMA CopyAppended ==
  ASSUME SyncInv, CommandInv, NEW copy, snapshots' = Append(snapshots, copy),
         \A f \in DOMAIN copy : f \in DOMAIN Files /\ copy[f] \in {Files[f], Torn},
         UNCHANGED <<manifest, lock>>
  PROVE  CopiesTyped'
<1>1. \A i \in DOMAIN snapshots' :
        \/ snapshots'[i] = copy
        \/ i \in DOMAIN snapshots /\ snapshots'[i] = snapshots[i]
  BY SnapshotAppended DEF SyncInv, Shapes
<1>2. /\ "manifest" \in DOMAIN copy => copy["manifest"] \in Manifests \cup {Torn}
      /\ "lock" \in DOMAIN copy => copy["lock"] \in Lockfile \cup {None, Torn}
  BY DEF CommandInv, TypeOK, Files
<1> QED
  BY <1>1, <1>2 DEF CommandInv, CopiesTyped

\* The steps between, which leave the files, the host, the records alone.
LEMMA QuietKnows ==
  ASSUME CommandInv, UNCHANGED <<manifest, lock, host, cmd, done, spent>>,
         pc # "idle", pc' \in {"apply", "projects", "lockfile"},
         clones' \in [Project -> CloneStates], CopiesTyped',
         pc' \in {"projects", "lockfile"} => Left = {},
         pc' = "projects" => cmd.kind = "sync",
         reports' # << >> => cmd.kind = "sync",
         \A i \in DOMAIN reports' : reports'[i] \in Reports
  PROVE  CommandInv'
<1>1. TypeOK'
  BY DEF CommandInv, TypeOK, CloneStates, Left
<1>2. Command' /\ Unrecorded' /\ Spent'
  BY DEF CommandInv, Command, Unrecorded, Spent
<1>3. Planned' /\ RecordsTrue'
  BY DEF CommandInv, Planned, Left, ByHost, RecordsTrue, RecordTrue, Failed
<1> QED
  BY <1>1, <1>2, <1>3 DEF CommandInv

\* So do the steps between its parts.
LEMMA BetweenKnows ==
  SyncInv /\ CommandInv /\ (Snapshot \/ FinishApply \/ ReturnFromApply) => CommandInv'
<1> SUFFICES ASSUME SyncInv, CommandInv
             PROVE  Snapshot \/ FinishApply \/ ReturnFromApply => CommandInv'
  OBVIOUS
<1>1. /\ clones \in [Project -> CloneStates]
      /\ \A i \in DOMAIN reports : reports[i] \in Reports
      /\ pc # "idle" /\ reports # << >> => cmd.kind = "sync"
  BY DEF SyncInv, Shapes, CommandInv, TypeOK, Command
<1>2. ASSUME Snapshot PROVE CommandInv'
  <2>1. CopiesTyped'
    BY <1>2, CopyAppended DEF Snapshot
  <2> QED
    BY <1>1, <1>2, <2>1, QuietKnows DEF Snapshot
<1>3. ASSUME FinishApply PROVE CommandInv'
  <2>1. CopiesTyped' /\ pc' \in {"projects", "lockfile"} /\ (pc' = "projects" => cmd.kind = "sync")
    BY <1>3 DEF FinishApply, files, CommandInv, CopiesTyped
  <2> QED
    BY <1>1, <1>3, <2>1, QuietKnows DEF FinishApply, files
<1>4. ASSUME ReturnFromApply PROVE CommandInv'
  <2>1. CopiesTyped' /\ Spent'
    BY <1>4 DEF ReturnFromApply, files, CommandInv, CopiesTyped, Spent
  <2> QED
    BY <1>1, <1>4, <2>1, ReturnKnows DEF ReturnFromApply, files, CommandInv, TypeOK
<1> QED
  BY <1>2, <1>3, <1>4

\* So do the projects.
LEMMA ProjectsKnow ==
  SyncInv /\ CommandInv /\ (SyncLocal \/ CloneProject \/ FetchProject) => CommandInv'
<1> SUFFICES ASSUME SyncInv, CommandInv, SyncLocal \/ CloneProject \/ FetchProject
             PROVE  CommandInv'
  OBVIOUS
<1>1. PICK status \in {"CREATED", "PRESENT", "CLONED", "FETCHED", "FAILED"} : Report(status)
  BY DEF SyncLocal, CloneProject, FetchProject
<1>2. /\ pc = "projects" /\ pc' \in {"projects", "lockfile"} /\ cmd.kind = "sync" /\ Left = {}
      /\ UNCHANGED <<manifest, lock, snapshots, host, cmd, done, spent>>
  BY <1>1 DEF Report, files, CommandInv, Command, TypeOK
<1>3. SyncInv'
  BY ProjectsKeep
<1>4. clones' \in [Project -> CloneStates] /\ (\A i \in DOMAIN reports' : reports'[i] \in Reports)
  BY <1>3 DEF SyncInv, Shapes
<1>5. CopiesTyped'
  BY <1>2 DEF CommandInv, CopiesTyped
<1> QED
  BY <1>2, <1>4, <1>5, QuietKnows

\* The lockfile a command writes is a lockfile.
LEMMA BuildTyped ==
  ASSUME SyncInv, CommandInv, pc # "idle"
  PROVE  BuildLockfile(done, reports) \in Lockfile
<1>1. DOMAIN done \subseteq Resource /\ (\A r \in DOMAIN done : done[r] \in Records)
  BY DEF CommandInv, TypeOK
<1>2. DOMAIN done \in SUBSET Resource
  BY <1>1
<1>3. [r \in DOMAIN done |-> [action |-> done[r].action, version |-> done[r].after]]
        \in [DOMAIN done -> [action : Action, version : Version]]
  BY <1>1 DEF Records
<1>4. reports \in Seq(Reports)
  BY DEF SyncInv, Shapes
<1> QED
  BY <1>2, <1>3, <1>4 DEF BuildLockfile, Lockfile

\* WriteLockfile keeps the invariant.
LEMMA WriteLockfileKnows == SyncInv /\ CommandInv /\ WriteLockfile => CommandInv'
<1> SUFFICES ASSUME SyncInv, CommandInv, WriteLockfile PROVE CommandInv'
  OBVIOUS
<1>1. lock' \in Lockfile \cup {None, Torn}
  BY BuildTyped DEF WriteLockfile, CommandInv, TypeOK
<1>2. Spent' /\ CopiesTyped'
  BY DEF WriteLockfile, CommandInv, Spent, CopiesTyped
<1> QED
  BY <1>1, <1>2, ReturnKnows DEF WriteLockfile, CommandInv, TypeOK, SyncInv, Shapes

\* What a copy puts back, whole or cut short, is a file or torn.
LEMMA PutBackTyped ==
  ASSUME CommandInv, NEW i \in DOMAIN snapshots, NEW S, PutBack(S),
         \A f \in DOMAIN S : f \in DOMAIN snapshots[i] /\ S[f] \in {snapshots[i][f], Torn}
  PROVE  manifest' \in Manifests \cup {Torn} /\ lock' \in Lockfile \cup {None, Torn}
BY DEF CommandInv, CopiesTyped, TypeOK, PutBack

\* With no command at work, other hands change files and host.
LEMMA IdleKnows ==
  ASSUME CommandInv, pc = "idle", UNCHANGED <<snapshots, pc, done, reports>>,
         clones' \in [Project -> CloneStates],
         manifest' \in Manifests \cup {Torn}, lock' \in Lockfile \cup {None, Torn},
         host' \in [Resource -> Version \cup {None}], Spent'
  PROVE  CommandInv'
BY DEF CommandInv, TypeOK, CloneStates, CopiesTyped, Command, Unrecorded, Planned, RecordsTrue

\* So do a rollback and the edits of others.
LEMMA RollbackAndEditsKnow ==
  CommandInv /\ (Rollback \/ EditManifest \/ EditHost \/ MoveMachine) => CommandInv'
<1> SUFFICES ASSUME CommandInv
             PROVE  Rollback \/ EditManifest \/ EditHost \/ MoveMachine => CommandInv'
  OBVIOUS
<1>1. /\ manifest \in Manifests \cup {Torn} /\ lock \in Lockfile \cup {None, Torn}
      /\ host \in [Resource -> Version \cup {None}]
      /\ clones \in [Project -> CloneStates]
  BY DEF CommandInv, TypeOK, CloneStates
<1>2. ASSUME Rollback PROVE CommandInv'
  <2>1. PICK i \in DOMAIN snapshots : PutBack(snapshots[i])
    BY <1>2 DEF Rollback
  <2>2. manifest' \in Manifests \cup {Torn} /\ lock' \in Lockfile \cup {None, Torn}
    BY <2>1, PutBackTyped
  <2>3. Spent'
    BY <1>2 DEF Rollback, CommandInv, Spent
  <2> QED
    BY <1>1, <1>2, <2>2, <2>3, IdleKnows DEF Rollback
<1>3. ASSUME EditManifest PROVE CommandInv'
  BY <1>1, <1>3, IdleKnows DEF EditManifest, Edits, CommandInv, Spent
<1>4. ASSUME EditHost PROVE CommandInv'
  BY <1>1, <1>4, IdleKnows DEF EditHost, Edits, CommandInv, Spent
<1>5. ASSUME MoveMachine PROVE CommandInv'
  <2>1. host' \in [Resource -> Version \cup {None}] /\ clones' \in [Project -> CloneStates]
    BY <1>1, <1>5, SettingAssumption DEF SettingAssumption, MoveMachine, CloneStates
  <2> QED
    BY <1>1, <1>5, <2>1, IdleKnows DEF MoveMachine, Edits, CommandInv, Spent
<1> QED
  BY <1>2, <1>3, <1>4, <1>5

\* So does a death.
LEMMA DeathKnows ==
  SyncInv /\ CommandInv /\ (DieBetween \/ DieInSnapshot \/ DieInClone \/ DieInRollback)
    => CommandInv'
<1> SUFFICES ASSUME SyncInv, CommandInv
             PROVE  DieBetween \/ DieInSnapshot \/ DieInClone \/ DieInRollback => CommandInv'
  OBVIOUS
<1>1. /\ manifest \in Manifests \cup {Torn} /\ lock \in Lockfile \cup {None, Torn}
      /\ Dies => Return /\ Spent'
  BY DEF CommandInv, TypeOK, Spent, Dies
<1>2. DieBetween \/ DieInSnapshot \/ DieInClone \/ DieInRollback
        => clones' \in [Project -> CloneStates]
  BY DeathKeeps DEF SyncInv, Shapes
<1>3. UNCHANGED snapshots => CopiesTyped'
  BY DEF CommandInv, CopiesTyped
<1>4. ASSUME DieBetween \/ DieInClone PROVE CommandInv'
  BY <1>1, <1>2, <1>3, <1>4, ReturnKnows DEF DieBetween, DieInClone, files
<1>5. ASSUME DieInSnapshot PROVE CommandInv'
  <2>1. PICK copy \in CutShort(Files, "lock") : snapshots' = Append(snapshots, copy)
    BY <1>5 DEF DieInSnapshot
  <2>2. \A f \in DOMAIN copy : f \in DOMAIN Files /\ copy[f] \in {Files[f], Torn}
    BY CutShortCopies
  <2>3. CopiesTyped'
    BY <1>5, <2>1, <2>2, CopyAppended DEF DieInSnapshot
  <2> QED
    BY <1>1, <1>2, <1>5, <2>3, ReturnKnows DEF DieInSnapshot
<1>6. ASSUME DieInRollback PROVE CommandInv'
  <2>1. PICK i \in DOMAIN snapshots :
          \E last \in DOMAIN snapshots[i] : \E S \in CutShort(snapshots[i], last) : PutBack(S)
    BY <1>6 DEF DieInRollback
  <2>2. PICK last \in DOMAIN snapshots[i] : \E S \in CutShort(snapshots[i], last) : PutBack(S)
    BY <2>1
  <2>3. PICK S \in CutShort(snapshots[i], last) : PutBack(S)
    BY <2>2
  <2>4. \A f \in DOMAIN S : f \in DOMAIN snapshots[i] /\ S[f] \in {snapshots[i][f], Torn}
    BY CutShortCopies
  <2>5. manifest' \in Manifests \cup {Torn} /\ lock' \in Lockfile \cup {None, Torn}
    BY <2>3, <2>4, PutBackTyped
  <2> QED
    BY <1>1, <1>2, <1>3, <1>6, <2>5, ReturnKnows DEF DieInRollback
<1> QED
  BY <1>4, <1>5, <1>6

\* Every step keeps the invariant.
LEMMA NextCommandInv == SyncInv /\ CommandInv /\ [Next]_vars => CommandInv'
<1> SUFFICES ASSUME SyncInv, CommandInv, [Next]_vars PROVE CommandInv'
  OBVIOUS
<1>1. CASE UNCHANGED vars
  <2>1. UNCHANGED <<TypeOK, Spent, CopiesTyped, Command, Unrecorded, Planned, RecordsTrue>>
    BY <1>1 DEF vars, files, TypeOK, Spent, CopiesTyped, Command, Unrecorded, Planned, Left, ByHost,
                RecordsTrue, RecordTrue, Failed
  <2> QED
    BY <2>1 DEF CommandInv
<1> QED
  BY <1>1, StartsKnow, ApplyKnows, BetweenKnows, ProjectsKnow, WriteLockfileKnows,
     RollbackAndEditsKnow, DeathKnows DEF Next

\* The invariant holds in every state.
LEMMA CommandInvHolds == Spec => [](SyncInv /\ CommandInv)
<1>1. Init => SyncInv /\ CommandInv
  BY InitSyncInv, InitCommandInv
<1>2. SyncInv /\ CommandInv /\ [Next]_vars => (SyncInv /\ CommandInv)'
  BY NextSyncInv, NextCommandInv
<1> QED
  BY <1>1, <1>2, PTL DEF Spec

-----------------------------------------------------------------------------
\* Through crashes in the middle of copies and rollbacks to them, the files are
\* whole, absent or torn, a command's plan and records are of what the manifest
\* declares, and it goes on to the projects when every step has its record.
THEOREM WorkspaceTypes == Spec => []TypeOK
<1>1. CommandInv => TypeOK
  BY DEF CommandInv
<1> QED
  BY <1>1, CommandInvHolds, PTL

\* What sync writes into the lockfile is what the host has, but for installs
\* that report success without a change, and whatever was skipped, updated
\* without effect, previewed or blocked before it.
THEOREM LockfileTellsHost == Spec => LockTellsHost
<1> DEFINE Told ==
      pc = "lockfile" /\ cmd.kind = "sync" /\ lock' # lock =>
        \A r \in DOMAIN lock'.environment :
          \/ lock'.environment[r].version = host[r]
          \/ done[r].action = "INSTALL" /\ done[r].status = "NO_CHANGE"
<1>1. ASSUME SyncInv, CommandInv, [Next]_vars PROVE Told
  <2> SUFFICES ASSUME pc = "lockfile", cmd.kind = "sync", lock' # lock,
                      NEW r \in DOMAIN lock'.environment
               PROVE  \/ lock'.environment[r].version = host[r]
                      \/ done[r].action = "INSTALL" /\ done[r].status = "NO_CHANGE"
    OBVIOUS
  <2>1. LockfileDue /\ lock' = BuildLockfile(done, reports)
    BY <1>1, OnlyWriteLockfile DEF WriteLockfile
  <2>2. r \in DOMAIN done /\ lock'.environment[r].version = done[r].after
    BY <2>1 DEF BuildLockfile
  <2>3. RecordTrue(r) /\ done[r] \in Records
    BY <1>1, <2>2 DEF CommandInv, RecordsTrue, TypeOK
  <2>4. ByHost(r)
    BY <1>1 DEF CommandInv, Command, ByHost
  <2>5. done[r].status \notin {"FAILED", "BLOCKED", "PREVIEW"}
    BY <2>1, <2>2, <2>3 DEF LockfileDue, Failed, RecordTrue
  <2> QED
    BY <2>2, <2>3, <2>4, <2>5 DEF RecordTrue, Records
<1>2. SyncInv /\ CommandInv /\ [Next]_vars => [Told]_vars
  BY <1>1
<1> HIDE DEF Told
<1>3. Spec => [][Told]_vars
  BY <1>2, CommandInvHolds, PTL DEF Spec
<1> QED
  BY <1>3 DEF LockTellsHost, Told

\* A restore that was carried out goes by WriteLockfile.
LEMMA RestoreEnds ==
  ASSUME CommandInv, [Next]_vars, pc = "lockfile", pc' = "idle", spent' = spent
  PROVE  WriteLockfile
<1>1. \A result \in AdapterResults : ~ CallAdapter(result)
  BY DEF CallAdapter, MayCall, StepsLeft
<1>2. spent.crashes \in Nat /\ spent' # [spent EXCEPT !.crashes = @ + 1]
  BY DEF CommandInv, Spent
<1> QED
  BY <1>1, <1>2
     DEF Next, vars, files, StartSync, StartRestore, StartApply, Start, Snapshot,
     Block, MissAdapter, Preview, MayCall, StepsLeft, Skip, FinishApply, ReturnFromApply,
     SyncLocal, CloneProject, FetchProject, Report, Rollback, DieBetween, DieInSnapshot,
     DieInClone, DieInRollback, Dies, EditManifest, EditHost, MoveMachine, Edits

\* What is asked for is there already: the step is skipped.
LEMMA SameSkips ==
  ASSUME NEW desired, desired # None
  PROVE  DiffResource(desired, desired).action = "SKIP"
BY DEF DiffResource

\* A second restore finds nothing to do when the first one did all it planned,
\* be it that it rewrote a drifted lockfile, kept one that agrees with the
\* manifest, or had none to go by.
THEOREM SecondRestoreFindsNothing == Spec => SecondRestoreSkips
<1> DEFINE Complete == /\ pc = "lockfile" /\ pc' = "idle" /\ spent' = spent
                       /\ cmd.kind = "restore" /\ cmd.apply
                       /\ \A r \in DOMAIN done :
                            done[r].status = "APPLIED" \/ done[r].action = "SKIP"
                       /\ ~ Failed(done)
           after    == IF lock' = Torn THEN None ELSE lock'
           plan     == PlanFromManifest(manifest, ObservedFromLockfile(Observed({}), after))
           Skips    == Complete => \A r \in DOMAIN plan : plan[r].action = "SKIP"
<1>1. ASSUME SyncInv, CommandInv, [Next]_vars PROVE Skips
  <2> SUFFICES ASSUME Complete, NEW r \in DOMAIN plan PROVE plan[r].action = "SKIP"
    OBVIOUS
  <2> DEFINE observed == ObservedFromLockfile(Observed({}), after)
  <2>1. WriteLockfile
    BY <1>1, RestoreEnds
  <2>2. /\ r \in Resource /\ manifest[r] # None
        /\ plan[r] = DiffResource(manifest[r], observed[r])
    BY DEF PlanFromManifest
  <2>3. r \in DOMAIN done
    BY <1>1, <2>2 DEF CommandInv, Command, TypeOK, Left
  <2>4. RecordTrue(r) /\ done[r].status # "FAILED" /\ done[r].status # "BLOCKED"
    BY <1>1, <2>3 DEF CommandInv, RecordsTrue, RecordTrue, Failed
  <2>5. r \in Adapted /\ done[r].after = manifest[r] /\ (ByHost(r) => host[r] = manifest[r])
    BY <2>3, <2>4 DEF RecordTrue
  <2>6. observed[r] = IF after # None /\ r \in DOMAIN after.environment
                        THEN after.environment[r].version ELSE host[r]
    BY <2>2, <2>5 DEF ObservedFromLockfile, Observed
  <2>7. observed[r] = manifest[r]
    <3>1. CASE LockfileDue
      <4>1. lock' = BuildLockfile(done, reports) /\ lock' \in Lockfile
        BY <1>1, <2>1, <3>1, BuildTyped DEF WriteLockfile
      <4>2. /\ after = lock' /\ after # None /\ DOMAIN after.environment = DOMAIN done
            /\ after.environment[r].version = done[r].after
        BY <2>3, <4>1, LockfileEntries DEF BuildLockfile
      <4> QED
        BY <2>3, <2>5, <2>6, <4>2
    <3>2. CASE ~ LockfileDue
      <4>1. after = cmd.baseline
        BY <1>1, <2>1, <3>2, SettingAssumption
           DEF WriteLockfile, CommandInv, Command, SettingAssumption
      <4>2. cmd.baseline = None \/ ~ Drifted(manifest, cmd.baseline)
        <5>1. ~ Failed(reports)
          BY <1>1 DEF CommandInv, Command, Failed
        <5> QED
          BY <1>1, <3>2, <5>1 DEF LockfileDue, CommandInv, Command
      <4> QED
        BY <2>2, <2>5, <2>6, <4>1, <4>2 DEF ByHost, Drifted
    <3> QED
      BY <3>1, <3>2
  <2> QED
    BY <2>2, <2>7, SameSkips
<1>2. SyncInv /\ CommandInv /\ [Next]_vars => [Skips]_vars
  BY <1>1
<1> HIDE DEF Skips
<1>3. Spec => [][Skips]_vars
  BY <1>2, CommandInvHolds, PTL DEF Spec
<1> QED
  BY <1>3 DEF SecondRestoreSkips, Skips

=============================================================================
