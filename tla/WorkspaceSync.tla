---------------------------- MODULE WorkspaceSync ----------------------------
(***************************************************************************)
(* The workspace commands of core/sync.mjs, core/restore.mjs and the       *)
(* CLI's apply, on the plan of core/plan.mjs, the engine of                *)
(* core/apply.mjs, the lockfile, the snapshots and the projects.  One      *)
(* command runs at a time and may die anywhere; between commands the user  *)
(* edits the manifest and the host, or takes the files to another          *)
(* machine.  Versions are values; of the managed files only the manifest   *)
(* and the lockfile are kept, for agent configurations fare like them.     *)
(***************************************************************************)
EXTENDS Integers, Sequences, SequencesExt

CONSTANTS
  Environment,      \* the known resources, in the order of KNOWN_ENVIRONMENT_RESOURCES
  Adapted,          \* those the adapter map has an adapter for
  Version,
  Manifests,        \* the manifests a user may write: resource -> version or None
  Projects,         \* the manifest's projects, in order
  Hosts,            \* the machines to begin with: resource -> version or None
  Undetected,       \* the sets of adapters whose detection may throw
  LocalProjects,    \* those with a source of type local
  AdapterResults,   \* what install and update may come to
  None, Torn,       \* no file or value; a file whose copying was cut short
  MaxCommands, MaxEdits, MaxCrashes

Resource == Range(Environment)
Project  == Range(Projects)

\* Steps of a plan, their records, and lockfiles.
Action   == {"INSTALL", "UPDATE", "SKIP"}
Steps    == [action : Action, version : Version, previous : Version \cup {None}]
Records  == [action : Action, after : Version,
             status : {"APPLIED", "NO_CHANGE", "PREVIEW", "BLOCKED", "FAILED"}]
Reports  == [id : Project,
             status : {"CREATED", "PRESENT", "CLONED", "FETCHED", "FAILED"}]
Lockfile == [environment : UNION {[S -> [action : Action, version : Version]] :
                                    S \in SUBSET Resource},
             projects : Seq(Reports)]

ASSUME ManifestAssumption ==
  /\ Manifests \subseteq [Resource -> Version \cup {None}]
  /\ \A m \in Manifests : \E r \in Resource : m[r] # None
ASSUME SettingAssumption ==
  /\ Adapted \subseteq Resource
  /\ Hosts \subseteq [Resource -> Version \cup {None}]
  /\ LocalProjects \subseteq Project
  /\ Undetected \subseteq SUBSET Adapted
  /\ Projects \in Seq(Project)
  /\ AdapterResults \subseteq {"changed", "unchanged", "failed"}
  /\ None \notin Version \cup Lockfile
  /\ Torn \notin Manifests \cup Lockfile \cup {None}
  /\ Environment \in Seq(Resource)
  /\ IsInjective(Environment) /\ IsInjective(Projects)

VARIABLES
  manifest,    \* workspace.json
  lock,        \* workspace.lock
  snapshots,   \* .workbench/snapshots in order of creation: file -> its copy
  carried,     \* history: lockfiles that came from another machine, and that
               \* no command has written here since
  host,        \* the version of every tool on this machine
  clones,      \* what is at the path of every project
  cmd,         \* the command running: flags, plan, lockfile read
  pc,          \* where it is
  done,        \* the records of the plan's steps so far: resource -> record
  reports,     \* reports of the projects
  spent        \* commands started, edits made and crashes so far

files == <<manifest, lock, snapshots, carried>>
vars == <<files, host, clones, cmd, pc, done, reports, spent>>

-----------------------------------------------------------------------------
(* Plan *)

\* A plan has a step for every resource declared, in the order of Environment.
Place(r) == CHOOSE i \in DOMAIN Environment : Environment[i] = r

DiffResource(desired, current) ==
  [action   |-> CASE current = None    -> "INSTALL"
                  [] current = desired -> "SKIP"
                  [] OTHER             -> "UPDATE",
   version  |-> desired,
   previous |-> IF current = desired THEN None ELSE current]

\* Mutant: a step for every known resource, declared or not.
PlanForAll(m, observed) ==
  [r \in Resource |-> DiffResource(m[r], observed[r])]

PlanFromManifest(m, observed) ==
  [r \in {r \in Resource : m[r] # None} |-> DiffResource(m[r], observed[r])]

\* What the adapters detect, when those of the set broken throw.
Observed(broken) == [r \in Resource |-> IF r \in Adapted \ broken THEN host[r] ELSE None]

\* A readable lockfile wins over what is observed.
ObservedFromLockfile(observed, baseline) ==
  [r \in Resource |->
     IF baseline # None /\ r \in DOMAIN baseline.environment
       THEN baseline.environment[r].version ELSE observed[r]]

-----------------------------------------------------------------------------
(* Lockfile *)

\* Mutant: the version of a step is the planned one, whatever came of it.
AfterPlanned(step, status) == step.version

\* What a record says is there now.
After(step, status) ==
  IF status = "NO_CHANGE" /\ step.previous # None THEN step.previous ELSE step.version

BuildLockfile(records, projects) ==
  [environment |-> [r \in DOMAIN records |->
                      [action |-> records[r].action, version |-> records[r].after]],
   projects    |-> projects]

Failed(records) == \E i \in DOMAIN records : records[i].status = "FAILED"

\* Mutant: a resource is compared with what is on the host.
DriftedFromHost(m, baseline) ==
  \E r \in DOMAIN baseline.environment : m[r] # None /\ host[r] # m[r]

\* The manifest asks for another version than a lockfile entry has.
Drifted(m, baseline) ==
  \E r \in DOMAIN baseline.environment :
     m[r] # None /\ baseline.environment[r].version # m[r]

-----------------------------------------------------------------------------
(* Files that can be captured and put back *)

Files ==
  [f \in IF lock = None THEN {"manifest"} ELSE {"manifest", "lock"} |->
     IF f = "manifest" THEN manifest ELSE lock]

\* What a copy of the files S leaves when it is cut short, the file last being
\* copied after the other one.
CutShort(S, last) ==
  {[f \in kt[1] |-> IF f = kt[2] THEN Torn ELSE S[f]] :
     kt \in {kt \in (SUBSET DOMAIN S) \X (DOMAIN S \cup {None}) :
             last \in kt[1] => kt[1] = DOMAIN S /\ kt[2] \in {last, None}}}

PutBack(S) ==
  /\ manifest' = IF "manifest" \in DOMAIN S THEN S["manifest"] ELSE manifest
  /\ lock' = IF "lock" \in DOMAIN S THEN S["lock"] ELSE lock

-----------------------------------------------------------------------------
Init ==
  /\ manifest \in Manifests
  /\ lock = None
  /\ snapshots = << >>
  /\ carried = {}
  /\ host \in Hosts
  /\ clones = [p \in Project |-> "absent"]
  /\ cmd = None
  /\ pc = "idle"
  /\ done = << >> /\ reports = << >>
  /\ spent = [commands |-> 0, edits |-> 0, crashes |-> 0]

Return == pc' = "idle" /\ cmd' = None /\ done' = << >> /\ reports' = << >>

Start(command, first) ==
  /\ pc = "idle"
  /\ spent.commands < MaxCommands
  /\ manifest # Torn                    \* loadManifest throws
  /\ cmd' = command
  /\ pc' = first
  /\ done' = << >> /\ reports' = << >>
  /\ spent' = [spent EXCEPT !.commands = @ + 1]
  /\ UNCHANGED <<files, host, clones>>

\* syncWorkspace: detection, then the snapshot, unless it is a dry run.
\* Its projects are left out, synchronised up to a failure, or all of them.
StartSync(apply, broken, projects) ==
  Start([kind |-> "sync", manifest |-> manifest, apply |-> apply, projects |-> projects,
         baseline |-> None,
         plan |-> PlanFromManifest(manifest, Observed(broken))],
        IF apply THEN "snapshot" ELSE "apply")

\* restoreWorkspace: a lockfile that cannot be read counts as none.
StartRestore(apply, broken) ==
  LET baseline == IF lock = Torn THEN None ELSE lock
      observed == ObservedFromLockfile(Observed(broken), baseline)
  IN  Start([kind |-> "restore", manifest |-> manifest, apply |-> apply,
             baseline |-> baseline, plan |-> PlanFromManifest(manifest, observed)],
            "apply")

\* workbench apply.
StartApply(apply, broken) ==
  Start([kind |-> "apply", manifest |-> manifest, apply |-> apply, baseline |-> None,
         plan |-> PlanFromManifest(manifest, Observed(broken))], "apply")

\* Mutant: only the manifest is captured.
SnapshotManifest ==
  /\ pc = "snapshot"
  /\ snapshots' = Append(snapshots, [f \in {"manifest"} |-> manifest])
  /\ pc' = "apply"
  /\ UNCHANGED <<manifest, lock, carried, host, clones, cmd, done, reports, spent>>

Snapshot ==
  /\ pc = "snapshot"
  /\ snapshots' = Append(snapshots, Files)
  /\ pc' = "apply"
  /\ UNCHANGED <<manifest, lock, carried, host, clones, cmd, done, reports, spent>>

-----------------------------------------------------------------------------
(* applyPlan: one step of the plan at a time, an await after each. *)

Left      == DOMAIN cmd.plan \ DOMAIN done
StepsLeft == pc = "apply" /\ Left # {}
Current   == CHOOSE r \in Left : \A q \in Left : Place(r) <= Place(q)
Step      == cmd.plan[Current]
MayCall   == StepsLeft /\ ~ Failed(done) /\ Current \in Adapted

RecordStep(status) ==
  /\ done' = [r \in DOMAIN done \cup {Current} |->
                IF r = Current
                  THEN [action |-> Step.action, status |-> status,
                        after |-> After(Step, status)]
                  ELSE done[r]]
  /\ UNCHANGED <<files, clones, cmd, pc, reports, spent>>

Block == StepsLeft /\ Failed(done) /\ RecordStep("BLOCKED") /\ UNCHANGED host

MissAdapter ==
  /\ StepsLeft /\ ~ Failed(done)
  /\ Current \notin Adapted
  /\ RecordStep("FAILED")
  /\ UNCHANGED host

Preview == MayCall /\ ~ cmd.apply /\ RecordStep("PREVIEW") /\ UNCHANGED host

Skip ==
  /\ MayCall /\ cmd.apply
  /\ Step.action = "SKIP"
  /\ RecordStep("NO_CHANGE")
  /\ UNCHANGED host

\* install or update; one that fails may have taken the old version away.
CallAdapter(result) ==
  /\ MayCall /\ cmd.apply
  /\ Step.action # "SKIP"
  /\ CASE result = "changed" ->
            /\ host' = [host EXCEPT ![Current] = Step.version]
            /\ RecordStep("APPLIED")
       [] result = "unchanged" ->
            /\ RecordStep("NO_CHANGE")
            /\ UNCHANGED host
       [] result = "failed" ->
            /\ \E left \in {host[Current], None} : host' = [host EXCEPT ![Current] = left]
            /\ RecordStep("FAILED")

\* The report is made; only sync goes on to its projects, whatever it says.
FinishApply ==
  /\ pc = "apply"
  /\ Left = {}
  /\ cmd.kind # "apply"
  /\ pc' = IF cmd.kind = "sync" /\ cmd.projects # "skip" /\ Projects # << >>
             THEN "projects" ELSE "lockfile"
  /\ UNCHANGED <<files, host, clones, cmd, done, reports, spent>>

ReturnFromApply ==
  /\ pc = "apply"
  /\ Left = {}
  /\ cmd.kind = "apply"
  /\ Return
  /\ UNCHANGED <<files, host, clones, spent>>

-----------------------------------------------------------------------------
(* ProjectManager.sync *)

ThisProject == Projects[Len(reports) + 1]

\* A report, and whether another project follows it.
Report(status) ==
  /\ pc = "projects"
  /\ reports' = Append(reports, [id |-> ThisProject, status |-> status])
  /\ pc' = IF \/ Len(reports') = Len(Projects)
              \/ status = "FAILED" /\ cmd.projects = "stop"
             THEN "lockfile" ELSE "projects"
  /\ UNCHANGED <<files, host, cmd, done, spent>>

SyncLocal ==
  /\ pc = "projects"
  /\ ThisProject \in LocalProjects
  /\ Report(IF clones[ThisProject] = "absent" THEN "CREATED" ELSE "PRESENT")
  /\ clones' = [clones EXCEPT ![ThisProject] = "complete"]

\* Clone and check out: a checkout that fails leaves the clone where it is.
CloneProject ==
  /\ pc = "projects"
  /\ ThisProject \notin LocalProjects
  /\ clones[ThisProject] = "absent"
  /\ \E outcome \in {"absent", "incomplete", "complete"} :
       /\ clones' = [clones EXCEPT ![ThisProject] = outcome]
       /\ Report(IF outcome = "complete" THEN "CLONED" ELSE "FAILED")

\* Whatever is there is fetched, and never checked out again.
FetchProject ==
  /\ pc = "projects"
  /\ ThisProject \notin LocalProjects
  /\ clones[ThisProject] # "absent"
  /\ \E status \in {"FETCHED", "FAILED"} : Report(status)
  /\ UNCHANGED clones

-----------------------------------------------------------------------------
(* The end of a command *)

\* Mutant: the projects are not looked at.
LockfileDueAfterApply ==
  /\ cmd.apply
  /\ ~ Failed(done)
  /\ cmd.kind = "restore" => cmd.baseline # None /\ Drifted(cmd.manifest, cmd.baseline)

LockfileDue ==
  /\ cmd.apply
  /\ ~ Failed(done) /\ ~ Failed(reports)
  /\ cmd.kind = "restore" => cmd.baseline # None /\ Drifted(cmd.manifest, cmd.baseline)

WriteLockfile ==
  /\ pc = "lockfile"
  /\ lock' = IF LockfileDue THEN BuildLockfile(done, reports) ELSE lock
  /\ carried' = IF LockfileDue THEN carried \ {lock'} ELSE carried
  /\ Return
  /\ UNCHANGED <<manifest, snapshots, host, clones, spent>>

\* rollbackToSnapshot puts back what was captured, and removes nothing.
Rollback ==
  /\ pc = "idle"
  /\ spent.commands < MaxCommands
  /\ \E i \in DOMAIN snapshots : PutBack(snapshots[i])
  /\ spent' = [spent EXCEPT !.commands = @ + 1]
  /\ UNCHANGED <<snapshots, carried, host, clones, cmd, pc, done, reports>>

-----------------------------------------------------------------------------
(* Crashes and edits *)

Dies ==
  /\ spent.crashes < MaxCrashes
  /\ spent' = [spent EXCEPT !.crashes = @ + 1]
  /\ Return

\* The lockfile is renamed into place, so a death leaves the old one or the new one.
DieBetween ==
  /\ pc # "idle"
  /\ Dies
  /\ UNCHANGED <<files, host, clones>>

DieInSnapshot ==
  /\ pc = "snapshot"
  /\ Dies
  /\ \E copy \in CutShort(Files, "lock") : snapshots' = Append(snapshots, copy)
  /\ UNCHANGED <<manifest, lock, carried, host, clones>>

DieInClone ==
  /\ pc = "projects"
  /\ ThisProject \notin LocalProjects
  /\ clones[ThisProject] = "absent"
  /\ Dies
  /\ clones' = [clones EXCEPT ![ThisProject] = "incomplete"]
  /\ UNCHANGED <<files, host>>

DieInRollback ==
  /\ pc = "idle"
  /\ spent.commands < MaxCommands
  /\ \E i \in DOMAIN snapshots : \E last \in DOMAIN snapshots[i] :
       \E S \in CutShort(snapshots[i], last) : PutBack(S)
  /\ Dies
  /\ UNCHANGED <<snapshots, carried, host, clones>>

Edits ==
  /\ pc = "idle"
  /\ spent.edits < MaxEdits
  /\ spent' = [spent EXCEPT !.edits = @ + 1]
  /\ UNCHANGED <<lock, snapshots, cmd, pc, done, reports>>

EditManifest ==
  /\ Edits
  /\ manifest' \in Manifests \ {manifest}
  /\ UNCHANGED <<carried, host, clones>>

\* Tools come and go by other hands.
EditHost ==
  /\ Edits
  /\ \E r \in Resource, v \in Version \cup {None} : host' = [host EXCEPT ![r] = v]
  /\ UNCHANGED <<manifest, carried, clones>>

\* The lockfiles that the snapshots s hold.
Copies(s) == {s[i]["lock"] : i \in {i \in DOMAIN s : "lock" \in DOMAIN s[i]}}

\* The files are taken to another machine, to go on there: Git repositories in
\* the workspace stay behind, directories of local projects may come along.  So
\* do the snapshots; without them there is only less to roll back to.
MoveMachine ==
  /\ Edits
  /\ host' \in Hosts
  /\ \E kept \in SUBSET LocalProjects :
       clones' = [p \in Project |-> IF p \in kept THEN clones[p] ELSE "absent"]
  /\ carried' = {lock} \cup Copies(snapshots)
  /\ UNCHANGED manifest

-----------------------------------------------------------------------------
Next ==
  \/ \E apply \in BOOLEAN, broken \in Undetected :
       \/ \E projects \in {"skip", "stop", "continue"} : StartSync(apply, broken, projects)
       \/ StartRestore(apply, broken)
       \/ StartApply(apply, broken)
  \/ Snapshot
  \/ Block \/ MissAdapter \/ Preview \/ Skip
  \/ \E result \in AdapterResults : CallAdapter(result)
  \/ FinishApply \/ ReturnFromApply
  \/ SyncLocal \/ CloneProject \/ FetchProject
  \/ WriteLockfile
  \/ Rollback
  \/ DieBetween \/ DieInSnapshot \/ DieInClone \/ DieInRollback
  \/ EditManifest \/ EditHost \/ MoveMachine

Spec == Init /\ [][Next]_vars

-----------------------------------------------------------------------------
(* Properties *)

\* Types: files are absent, torn or well formed; a command that goes on knows
\* its plan, and has records of its steps only.
TypeOK ==
  /\ manifest \in Manifests \cup {Torn}
  /\ lock \in Lockfile \cup {None, Torn}
  /\ host \in [Resource -> Version \cup {None}]
  /\ clones \in [Project -> {"absent", "incomplete", "complete"}]
  /\ pc \in {"idle", "snapshot", "apply", "projects", "lockfile"}
  /\ pc # "idle" => /\ cmd.baseline \in Lockfile \cup {None}
                    /\ DOMAIN cmd.plan \subseteq Resource
                    /\ \A r \in DOMAIN cmd.plan : cmd.plan[r] \in Steps
                    /\ DOMAIN done \subseteq DOMAIN cmd.plan
  /\ \A r \in DOMAIN done : done[r] \in Records
  /\ \A i \in DOMAIN reports : reports[i] \in Reports
  /\ pc \in {"projects", "lockfile"} => Left = {}

\* What sync writes is what the host has, through updates that changed nothing,
\* previews and failures (lockfile.mjs:5, sync.mjs:91-93).  The exception is an
\* install that reports success and changes nothing, as those of the adapters
\* in src do: the version it should have installed is written.
LockTellsHost ==
  [][pc = "lockfile" /\ cmd.kind = "sync" /\ lock' # lock =>
       \A r \in DOMAIN lock'.environment :
          \/ lock'.environment[r].version = host[r]
          \/ done[r].action = "INSTALL" /\ done[r].status = "NO_CHANGE"]_vars

\* A restore that did all it planned leaves a second one nothing to do, whether
\* it went by the host or by a lockfile, drifted or not (restore.mjs:15-17).
SecondRestoreSkips ==
  [][(/\ pc = "lockfile" /\ pc' = "idle" /\ spent' = spent
      /\ cmd.kind = "restore" /\ cmd.apply
      /\ \A r \in DOMAIN done : done[r].status = "APPLIED" \/ done[r].action = "SKIP"
      /\ ~ Failed(done)) =>
       LET baseline == IF lock' = Torn THEN None ELSE lock'
           plan     == PlanFromManifest(manifest,
                                        ObservedFromLockfile(Observed({}), baseline))
       IN  \A r \in DOMAIN plan : plan[r].action = "SKIP"]_vars

\* What sync replaces is what its snapshot holds, so that a rollback brings the
\* manifest and the lockfile of before (snapshot.mjs:3-4, rollback.mjs:3-4).
SyncUndoable ==
  [][pc = "lockfile" /\ cmd.kind = "sync" /\ lock' # lock =>
       snapshots # << >> /\ Last(snapshots) = Files]_vars

\* A report is true of the clones c.  One that says FETCHED says that there is
\* something to fetch into, no more.
ReportTrue(c, report) ==
  /\ report.id \in Project
  /\ report.status # "FAILED" => c[report.id] # "absent"
  /\ report.status = "CLONED" => c[report.id] = "complete"

ProjectsPresent(c, l) ==
  l \notin {None, Torn} =>
    \A i \in DOMAIN l.projects :
      l.projects[i].status # "FAILED" /\ ReportTrue(c, l.projects[i])

Vouched(c, k, l) == l \in k \/ ProjectsPresent(c, l)

\* A lockfile that a command wrote on this machine, even one put back from a
\* snapshot after failures and crashes, names only projects that are there, and
\* calls cloned only those that were checked out; only one that came from
\* another machine may name what is missing here (sync.mjs:76-78).
LockedProjectsPresent == Vouched(clones, carried, lock)

\* What sync.mjs:76-78 says of the projects of a lockfile it writes: no failed
\* clone makes it lie, so each of them is cloned and checked out.
LockedProjectsCheckedOut ==
  [][pc = "lockfile" /\ cmd.kind = "sync" /\ lock' # lock =>
       \A i \in DOMAIN lock'.projects : clones[lock'.projects[i].id] = "complete"]_vars
=============================================================================
