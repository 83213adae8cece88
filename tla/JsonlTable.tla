------------------------------ MODULE JsonlTable ------------------------------
(***************************************************************************)
(* One table of the StateStore of src/core/store.mjs: a file with one JSON *)
(* object per line, to which rows are appended, also after a crash that    *)
(* left the last line unfinished.  A table is a record                     *)
(*   lines  what the lines hold: a row, or Garbled when they do not parse  *)
(*   ended  the last line has its newline                                  *)
(***************************************************************************)
EXTENDS Sequences, FiniteSetsExt

Garbled == [garbled |-> TRUE]

EmptyTable == [lines |-> <<>>, ended |-> TRUE]

\* Mutant: reading stops at the first line that does not parse.
ReadRowsStops(t) ==
  [i \in {i \in DOMAIN t.lines : \A j \in 1 .. i : t.lines[j] # Garbled} |-> t.lines[i]]

\* _readAll: lines that do not parse are skipped; the rows keep the numbers of
\* their lines, for readers go by their order only.
ReadRows(t) == [i \in {i \in DOMAIN t.lines : t.lines[i] # Garbled} |-> t.lines[i]]

\* The first and the last of the rows at the numbers S, in a set of its own.
FirstOf(rows, S) == {rows[i] : i \in {i \in S : \A j \in S : i <= j}}
LastOf(rows, S)  == {rows[i] : i \in {i \in S : \A j \in S : j <= i}}

ReplaceLast(s, r) == [s EXCEPT ![Len(s)] = r]

\* _append: what is written to an unfinished line does not parse with it.
AppendRow(t, r) ==
  [lines |-> IF t.ended THEN Append(t.lines, r) ELSE ReplaceLast(t.lines, Garbled),
   ended |-> TRUE]

\* What a crash inside _append may leave: nothing new, a part of the line, the
\* line without its newline, or all of it.
PartialAppends(t, r) ==
  {t,
   [lines |-> IF t.ended THEN Append(t.lines, Garbled) ELSE ReplaceLast(t.lines, Garbled),
    ended |-> FALSE],
   [lines |-> IF t.ended THEN Append(t.lines, r) ELSE ReplaceLast(t.lines, Garbled),
    ended |-> FALSE],
   AppendRow(t, r)}
=============================================================================
