---------------------------- MODULE KnowledgeStore ----------------------------
(***************************************************************************)
(* src/core/knowledge-store.mjs: contents in files named by their hash, an *)
(* append-only index of sources, and a purge of the files no active row    *)
(* refers to.  A call is synchronous, but every `workbench knowledge`      *)
(* command is an operating-system process of its own over the same files:  *)
(* calls of different processes interleave between their file operations,  *)
(* and a process may die between or inside them.  A hash is its content.   *)
(***************************************************************************)
EXTENDS JsonlTable, Naturals, FiniteSets

CONSTANTS
  Processes,
  Sources,       \* sourcePaths, as naturals: ingestDirectory sorts them
  Markdown,      \* the sources that are markdown
  Contents,
  MaxTime,       \* bound: milliseconds that pass
  MaxIngests,    \* bound: calls that write rows
  MaxPurges,     \* bound: purges
  MaxDeaths      \* bound: processes that die in a call

ASSUME KnowledgeAssumption ==
  IsFiniteSet(Sources) /\ Sources \subseteq Nat /\ Markdown \subseteq Sources

VARIABLES
  objects,    \* content -> what its object file is: none, torn or whole
  index,      \* the table `knowledge_index`
  clock,      \* what `_at` is stamped with
  call,       \* process -> the call it is in
  ids,        \* rows made so far: the next `_id`
  purges,     \* purges so far
  deaths,     \* processes that died
  suspect,    \* history: contents whose object a death or a race may have damaged
  past,       \* history: source -> ids of the calls about it that returned
  overridden  \* history: ids of calls that a later one, which returned, came after

kvars == <<objects, index, clock, call, ids, purges, deaths, suspect, past, overridden>>

Idle == [at |-> "idle"]

\* Mutant: of rows with equal times the first one stays.
WinnerFirst(rows, s) ==
  CHOOSE i \in DOMAIN rows :
    /\ rows[i].source = s
    /\ \A j \in DOMAIN rows : rows[j].source = s =>
         rows[j].at < rows[i].at \/ (rows[j].at = rows[i].at /\ j >= i)

\* _activeRows: of the rows of a source the one with the latest time, the last
\* of those with equal times.
Winner(rows, s) ==
  CHOOSE i \in DOMAIN rows :
    /\ rows[i].source = s
    /\ \A j \in DOMAIN rows : rows[j].source = s =>
         rows[j].at < rows[i].at \/ (rows[j].at = rows[i].at /\ j <= i)

Latest ==
  LET rows == ReadRows(index)
  IN  {rows[Winner(rows, s)] : s \in {rows[i].source : i \in DOMAIN rows}}

ActiveRows == {row \in Latest : row.status = "ACTIVE"}

ActiveOf(s) == {row \in ActiveRows : row.source = s}

KInit ==
  /\ objects = [c \in Contents |-> "none"]
  /\ index = EmptyTable
  /\ clock = 0
  /\ call = [p \in Processes |-> Idle]
  /\ ids = 0 /\ purges = 0 /\ deaths = 0
  /\ suspect = {}
  /\ past = [s \in Sources |-> {}]
  /\ overridden = {}

Purging == {p \in Processes : call[p].at \in {"list", "sweep"}}

Writing == {p \in Processes : call[p].at \in {"write", "stamp", "append"}}

Enter(p, c) == call' = [call EXCEPT ![p] = c]

\* ingest, up to existsSync: the object is written only when there is none.
CheckObject(p, todo) ==
  /\ ids < MaxIngests
  /\ LET file == Head(todo)
     IN  /\ Enter(p, [at   |-> IF objects[file.content] = "none" THEN "write" ELSE "stamp",
                      todo |-> Tail(todo),
                      row  |-> [source |-> file.source, content |-> file.content,
                                status |-> "ACTIVE", id |-> ids, at |-> 0],
                      over |-> past[file.source]])
         /\ suspect' = IF Purging # {} THEN suspect \cup {file.content} ELSE suspect
  /\ ids' = ids + 1
  /\ UNCHANGED <<objects, index, clock, purges, deaths, past, overridden>>

\* ingest is called for one content ...
KIngest(p, s, c) ==
  /\ call[p] = Idle
  /\ CheckObject(p, <<[source |-> s, content |-> c]>>)

MarkdownFirst(s, t) == IF (s \in Markdown) # (t \in Markdown) THEN s \in Markdown ELSE s < t

\* ... or for the files of a directory that pass the filter, Markdown first.
IngestDirectory(p, files, wanted) ==
  /\ call[p] = Idle
  /\ wanted # {}
  /\ \E order \in [1 .. Cardinality(wanted) -> wanted] :
       /\ \A i, j \in DOMAIN order : i < j => MarkdownFirst(order[i], order[j])
       /\ CheckObject(p, [i \in DOMAIN order |-> [source |-> order[i], content |-> files[order[i]]]])

NextFile(p) ==
  /\ call[p].at = "next"
  /\ CheckObject(p, call[p].todo)

WriteObject(p) ==
  /\ call[p].at = "write"
  /\ objects' = [objects EXCEPT ![call[p].row.content] = "whole"]
  /\ Enter(p, [call[p] EXCEPT !.at = "stamp"])
  /\ UNCHANGED <<index, clock, ids, purges, deaths, suspect, past, overridden>>

\* removeIndexRow: the row that is active now is deleted by a row appended later.
RemoveIndexRow(p, s) ==
  /\ call[p] = Idle
  /\ ids < MaxIngests
  /\ \E active \in ActiveOf(s) :
       Enter(p, [at |-> "stamp", todo |-> <<>>, over |-> past[s],
                 row |-> [active EXCEPT !.status = "DELETED", !.id = ids, !.at = 0]])
  /\ ids' = ids + 1
  /\ UNCHANGED <<objects, index, clock, purges, deaths, suspect, past, overridden>>

\* _append makes the line, with `_at`, ...
Stamp(p) ==
  /\ call[p].at = "stamp"
  /\ clock' \in {clock, clock + 1} /\ clock' <= MaxTime
  /\ Enter(p, [call[p] EXCEPT !.at = "append", !.row.at = clock'])
  /\ UNCHANGED <<objects, index, ids, purges, deaths, suspect, past, overridden>>

\* ... and appends it.
AppendIndexRow(p) ==
  /\ call[p].at = "append"
  /\ LET row == call[p].row
     IN  /\ index' = AppendRow(index, row)
         /\ past' = [past EXCEPT ![row.source] = @ \cup {row.id}]
         /\ overridden' = overridden \cup call[p].over
  /\ Enter(p, IF call[p].todo = <<>> THEN Idle ELSE [at |-> "next", todo |-> call[p].todo])
  /\ UNCHANGED <<objects, clock, ids, purges, deaths, suspect>>

\* Mutant: what a deleted row names is purged, whoever else refers to it.
ReferencedIgnoresShared ==
  {row.content : row \in ActiveRows} \ {row.content : row \in Latest \ ActiveRows}

Referenced == {row.content : row \in ActiveRows}

\* purgeUnreferenced: the index is read, then the directory, and what the
\* directory has and the index did not name is unlinked.
PurgeReads(p) ==
  /\ call[p] = Idle
  /\ purges < MaxPurges
  /\ purges' = purges + 1
  /\ Enter(p, [at |-> "list", referenced |-> Referenced])
  /\ suspect' = suspect \cup {call[q].row.content : q \in Writing}
  /\ UNCHANGED <<objects, index, clock, ids, deaths, past, overridden>>

Sweep(p, left) == Enter(p, IF left = {} THEN Idle ELSE [at |-> "sweep", left |-> left])

PurgeLists(p) ==
  /\ call[p].at = "list"
  /\ Sweep(p, {c \in Contents : objects[c] # "none"} \ call[p].referenced)
  /\ UNCHANGED <<objects, index, clock, ids, purges, deaths, suspect, past, overridden>>

PurgeUnlinks(p) ==
  /\ call[p].at = "sweep"
  /\ \E c \in call[p].left :
       /\ objects' = [objects EXCEPT ![c] = "none"]
       /\ Sweep(p, call[p].left \ {c})
  /\ UNCHANGED <<index, clock, ids, purges, deaths, suspect, past, overridden>>

\* The process dies: inside writeFileSync, inside the append, or elsewhere.
Die(p) ==
  /\ call[p] # Idle
  /\ deaths < MaxDeaths
  /\ deaths' = deaths + 1
  /\ Enter(p, Idle)
  /\ IF call[p].at = "write"
     THEN \E left \in {objects[call[p].row.content], "torn"} :
            objects' = [objects EXCEPT ![call[p].row.content] = left]
     ELSE UNCHANGED objects
  /\ IF call[p].at = "append"
     THEN index' \in PartialAppends(index, call[p].row)
     ELSE UNCHANGED index
  /\ suspect' = suspect \cup
       IF p \in Writing
       THEN {call[p].row.content} \cup {row.content : row \in ActiveOf(call[p].row.source)}
       ELSE {}
  /\ UNCHANGED <<clock, ids, purges, past, overridden>>

KNext ==
  \E p \in Processes :
    \/ \E s \in Sources, c \in Contents : KIngest(p, s, c)
    \/ \E files \in [Sources -> Contents], wanted \in {Sources, Markdown} :
         IngestDirectory(p, files, wanted)
    \/ NextFile(p)
    \/ WriteObject(p)
    \/ \E s \in Sources : RemoveIndexRow(p, s)
    \/ Stamp(p)
    \/ AppendIndexRow(p)
    \/ PurgeReads(p)
    \/ PurgeLists(p)
    \/ PurgeUnlinks(p)
    \/ Die(p)

KSpec == KInit /\ [][KNext]_kvars

-----------------------------------------------------------------------------
\* The content of an active row is in its object file, except where a process
\* died while writing the row, its object or the row that replaced it, or where
\* an ingest and a purge were at work at the same time (knowledge-store.mjs:6-10).
DamageConfined ==
  \A row \in ActiveRows : objects[row.content] = "whole" \/ row.content \in suspect

\* The index follows the calls: of two calls about a source, one begun after the
\* other returned, the earlier one's row is not what the source shows.  A death
\* inside an append can bring back one such row, however many calls follow.
LastCallCounts == Cardinality({row \in Latest : row.id \in overridden}) <= deaths
=============================================================================
