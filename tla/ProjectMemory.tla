---------------------------- MODULE ProjectMemory -----------------------------
(***************************************************************************)
(* src/core/project-memory.mjs: reviewed decisions and verified artifacts, *)
(* their contents in files named by hash and an append-only table of rows, *)
(* one active row per type and source.  A save is synchronous and one      *)
(* process makes them: a save is one action, or dies in one of its steps.  *)
(***************************************************************************)
EXTENDS JsonlTable, Naturals, FiniteSets

CONSTANTS
  Names,      \* sources and ids that are given
  Unnamed,    \* neither is given
  Bodies,     \* contents
  MaxSaves,   \* bound: saves
  MaxLosses   \* bound: saves that die

VARIABLES
  files,    \* content -> what its object file is: none, torn or whole
  memory,   \* the table `project_memory`
  saves,    \* saves so far
  losses,   \* saves that died
  kept      \* history: type and source -> the content of the last save that returned

mvars == <<files, memory, saves, losses, kept>>

Types == {"decision", "artifact"}

\* source ?? id ?? the type
SourceOf(type, name) == IF name = Unnamed THEN type ELSE name

Keys == Types \X (Names \cup Types)

\* Mutant: the key of a row is its source, whatever its type.
KeyIsSource(row, key) == row.source = key[2]

HasKey(row, key) == row.type = key[1] /\ row.source = key[2]

\* _activeRows: the last row of each key; nothing writes SUPERSEDED or DELETED.
ActiveMemory ==
  LET rows == ReadRows(memory)
      Last(i) == \A j \in DOMAIN rows :
                   HasKey(rows[j], <<rows[i].type, rows[i].source>>) => j <= i
  IN  {rows[i] : i \in {i \in DOMAIN rows : Last(i)}}

MInit ==
  /\ files = [c \in Bodies |-> "none"]
  /\ memory = EmptyTable
  /\ saves = 0 /\ losses = 0
  /\ kept = [key \in Keys |-> {}]

\* _writeRow: the object, unless there is one, then the row.
WriteMemoryRow(row) ==
  /\ saves < MaxSaves
  /\ saves' = saves + 1
  /\ LET written == [files EXCEPT ![row.content] = IF @ = "none" THEN "whole" ELSE @]
     IN  \/ /\ files' = written
            /\ memory' = AppendRow(memory, row)
            /\ kept' = [kept EXCEPT ![<<row.type, row.source>>] = {row.content}]
            /\ UNCHANGED losses
         \/ /\ losses < MaxLosses
            /\ losses' = losses + 1
            /\ \/ /\ files[row.content] = "none"
                  /\ files' = [files EXCEPT ![row.content] = "torn"]
                  /\ UNCHANGED memory
               \/ files' = written /\ memory' \in PartialAppends(memory, row)
            /\ UNCHANGED kept

\* Only what was reviewed and says by what evidence ...
SaveDecision(name, content, reviewed, evidence) ==
  /\ reviewed /\ evidence
  /\ WriteMemoryRow([type |-> "decision", source |-> SourceOf("decision", name), content |-> content])

\* ... and what a verifier vouches for with trusted evidence.
SaveVerifiedArtifact(name, content, verified, trusted) ==
  /\ verified /\ trusted
  /\ WriteMemoryRow([type |-> "artifact", source |-> SourceOf("artifact", name), content |-> content])

MNext ==
  \E name \in Names \cup {Unnamed}, content \in Bodies, a \in BOOLEAN, b \in BOOLEAN :
    \/ SaveDecision(name, content, a, b)
    \/ SaveVerifiedArtifact(name, content, a, b)

MSpec == MInit /\ [][MNext]_mvars

-----------------------------------------------------------------------------
\* Memory is durable up to one save per death: of every decision and artifact
\* what the last acknowledged save said is what a query returns, a decision and
\* an artifact of one source do not replace each other, and of the contents only
\* those that a death tore are unreadable (project-memory.mjs:3-6).
MemoryKept ==
  /\ Cardinality({key \in Keys :
        \E content \in kept[key] :
          ~ \E row \in ActiveMemory : HasKey(row, key) /\ row.content = content}) <= losses
  /\ Cardinality({row.content : row \in {r \in ActiveMemory : files[r.content] # "whole"}}) <= losses
=============================================================================
