--------------------------- MODULE JsonlTableProofs ---------------------------
(***************************************************************************)
(* What an append, whole or cut short by a crash, does to the rows that    *)
(* can be read of any table: it adds its own at the end, adds none, or     *)
(* loses the last one; and how many rows that costs.                       *)
(***************************************************************************)
EXTENDS JsonlTable, Naturals, FiniteSetTheorems, SequenceTheorems, WellFoundedInduction, TLAPS

\* A table of rows R: an unfinished line is a line.
IsTable(t, R) ==
  /\ t \in [lines : Seq(R \cup {Garbled}), ended : BOOLEAN]
  /\ t.ended \/ t.lines # << >>

\* The last of the rows, if there is any.
Newest(rs) == {j \in DOMAIN rs : \A k \in DOMAIN rs : k <= j}

\* An unfinished line makes the next append lose its own row, and the one in the
\* line when it is whole.
Unfinished(t) == IF t.ended THEN 0 ELSE IF t.lines[Len(t.lines)] = Garbled THEN 1 ELSE 2

-----------------------------------------------------------------------------
\* What a write does to the rows that can be read: nothing, one more at the end,
\* or one less.
Same(t, u) == ReadRows(u) = ReadRows(t)

Added(t, u, r) ==
  /\ DOMAIN ReadRows(u) = DOMAIN ReadRows(t) \cup {Len(t.lines) + 1}
  /\ ReadRows(u)[Len(t.lines) + 1] = r
  /\ \A i \in DOMAIN ReadRows(t) : ReadRows(u)[i] = ReadRows(t)[i]

Lost(t, u) ==
  /\ DOMAIN ReadRows(u) = DOMAIN ReadRows(t) \ {Len(t.lines)}
  /\ \A i \in DOMAIN ReadRows(u) : ReadRows(u)[i] = ReadRows(t)[i]

\* Rows are numbered by their lines.
LEMMA RowsRead ==
  ASSUME NEW R, NEW t, IsTable(t, R)
  PROVE  /\ DOMAIN ReadRows(t) \subseteq 1 .. Len(t.lines)
         /\ IsFiniteSet(DOMAIN ReadRows(t))
         /\ Cardinality(DOMAIN ReadRows(t)) \in Nat
         /\ \A i \in DOMAIN ReadRows(t) : ReadRows(t)[i] \in R
         /\ Len(t.lines) \in Nat
<1>1. Len(t.lines) \in Nat /\ DOMAIN t.lines = 1 .. Len(t.lines)
  BY DEF IsTable
<1>2. /\ DOMAIN ReadRows(t) \subseteq 1 .. Len(t.lines)
      /\ \A i \in DOMAIN ReadRows(t) : ReadRows(t)[i] \in R
  BY <1>1 DEF ReadRows, IsTable
<1>3. IsFiniteSet(DOMAIN ReadRows(t))
  <2>1. IsFiniteSet(1 .. Len(t.lines))
    BY <1>1, FS_Interval
  <2> QED
    BY <1>2, <2>1, FS_Subset
<1> QED
  BY <1>1, <1>2, <1>3, FS_CardinalityType

\* A line more, after a finished one.
LEMMA LineAdded ==
  ASSUME NEW R, Garbled \notin R, NEW t, IsTable(t, R), t.ended,
         NEW x \in R \cup {Garbled},
         NEW u, u = [lines |-> u.lines, ended |-> u.ended],
         u.lines = Append(t.lines, x), u.ended \in BOOLEAN
  PROVE  /\ IsTable(u, R)
         /\ x = Garbled => /\ Same(t, u)
                           /\ Unfinished(u) <= 1
                           /\ Cardinality(DOMAIN ReadRows(u)) = Cardinality(DOMAIN ReadRows(t))
         /\ x # Garbled => /\ Added(t, u, x)
                           /\ Cardinality(DOMAIN ReadRows(u)) = Cardinality(DOMAIN ReadRows(t)) + 1
         /\ Unfinished(u) \in 0 .. 2 /\ Unfinished(t) = 0
         /\ u.ended => Unfinished(u) = 0
<1> DEFINE n == Len(t.lines)
<1>1. t.lines \in Seq(R \cup {Garbled}) /\ n \in Nat
  BY DEF IsTable
<1>2. /\ u.lines \in Seq(R \cup {Garbled}) /\ Len(u.lines) = n + 1 /\ u.lines # << >>
      /\ u.lines[n + 1] = x /\ \A i \in 1 .. n : u.lines[i] = t.lines[i]
      /\ DOMAIN u.lines = 1 .. n + 1 /\ DOMAIN t.lines = 1 .. n
  BY <1>1
<1>3. IsTable(u, R)
  BY <1>2 DEF IsTable
<1>4. ASSUME x = Garbled PROVE Same(t, u)
  <2>1. DOMAIN ReadRows(u) = DOMAIN ReadRows(t)
    BY <1>1, <1>2, <1>4 DEF ReadRows
  <2>2. \A i \in DOMAIN ReadRows(u) : ReadRows(u)[i] = ReadRows(t)[i]
    BY <1>1, <1>2, <1>4 DEF ReadRows
  <2> QED
    BY <2>1, <2>2 DEF Same, ReadRows
<1>5. ASSUME x # Garbled
      PROVE  /\ Added(t, u, x)
             /\ Cardinality(DOMAIN ReadRows(u)) = Cardinality(DOMAIN ReadRows(t)) + 1
  <2>1. Added(t, u, x)
    BY <1>1, <1>2, <1>5 DEF Added, ReadRows
  <2> DEFINE N == DOMAIN ReadRows(t)
  <2>2. n + 1 \notin N /\ IsFiniteSet(N)
    BY <1>1, RowsRead
  <2>3. Cardinality(N \cup {n + 1}) = Cardinality(N) + 1
    <3> HIDE DEF N, n
    <3> QED
      BY <2>2, FS_AddElement
  <2> QED
    BY <2>1, <2>3 DEF Added
<1>6. /\ Unfinished(u) \in 0 .. 2 /\ Unfinished(t) = 0
      /\ u.ended => Unfinished(u) = 0
      /\ x = Garbled => Unfinished(u) <= 1
  BY <1>2 DEF Unfinished
<1> QED
  BY <1>3, <1>4, <1>5, <1>6 DEF Same

\* An unfinished line spoilt: what it held is lost.
LEMMA LineSpoilt ==
  ASSUME NEW R, Garbled \notin R, NEW t, IsTable(t, R), ~ t.ended, NEW e \in BOOLEAN,
         NEW u, u = [lines |-> ReplaceLast(t.lines, Garbled), ended |-> e]
  PROVE  /\ IsTable(u, R)
         /\ Lost(t, u)
         /\ Cardinality(DOMAIN ReadRows(u)) + Unfinished(t) = Cardinality(DOMAIN ReadRows(t)) + 1
         /\ Unfinished(u) = IF e THEN 0 ELSE 1
<1> DEFINE n == Len(t.lines)
<1>1. t.lines \in Seq(R \cup {Garbled}) /\ n \in Nat /\ t.lines # << >> /\ DOMAIN t.lines = 1 .. n
  BY DEF IsTable
<1>2. n \in 1 .. n
  BY <1>1, EmptySeq
<1>3. /\ u.lines \in Seq(R \cup {Garbled}) /\ Len(u.lines) = n /\ u.lines # << >>
      /\ u.lines[n] = Garbled /\ \A i \in 1 .. n : i # n => u.lines[i] = t.lines[i]
      /\ DOMAIN u.lines = 1 .. n
  <2>1. u.lines \in Seq(R \cup {Garbled}) /\ Len(u.lines) = n
    BY <1>1, <1>2, ExceptSeq DEF ReplaceLast
  <2>2. u.lines[n] = Garbled /\ \A i \in 1 .. n : i # n => u.lines[i] = t.lines[i]
    BY <1>1, <1>2 DEF ReplaceLast
  <2> QED
    BY <1>2, <2>1, <2>2
<1>4. IsTable(u, R)
  BY <1>3 DEF IsTable
<1>5. Lost(t, u)
  BY <1>1, <1>2, <1>3 DEF Lost, ReadRows
<1>6. /\ n \in DOMAIN ReadRows(t) <=> t.lines[n] # Garbled
      /\ IsFiniteSet(DOMAIN ReadRows(t)) /\ Cardinality(DOMAIN ReadRows(t)) \in Nat
  BY <1>1, <1>2, RowsRead DEF ReadRows
<1>7. Cardinality(DOMAIN ReadRows(u)) + Unfinished(t) = Cardinality(DOMAIN ReadRows(t)) + 1
  <2> DEFINE N == DOMAIN ReadRows(t)
  <2>1. /\ Cardinality(N \ {n}) = IF n \in N THEN Cardinality(N) - 1 ELSE Cardinality(N)
        /\ Cardinality(N) \in Nat
    <3>1. IsFiniteSet(N)
      BY <1>6
    <3> HIDE DEF N, n
    <3> QED
      BY <3>1, FS_RemoveElement, FS_CardinalityType
  <2>2. Unfinished(t) = IF n \in N THEN 2 ELSE 1
    BY <1>6 DEF Unfinished
  <2> QED
    BY <1>5, <2>1, <2>2 DEF Lost
<1> QED
  BY <1>3, <1>4, <1>5, <1>7 DEF Unfinished

\* The whole append: as many rows as before, but for what the line held.
LEMMA Appended ==
  ASSUME NEW R, Garbled \notin R, NEW t, IsTable(t, R), NEW r \in R,
         NEW u, u = AppendRow(t, r)
  PROVE  /\ IsTable(u, R)
         /\ Added(t, u, r) \/ Lost(t, u)
         /\ Unfinished(u) = 0
         /\ Cardinality(DOMAIN ReadRows(u)) + Unfinished(t)
              = Cardinality(DOMAIN ReadRows(t)) + 1
<1>1. Cardinality(DOMAIN ReadRows(t)) \in Nat
  BY RowsRead
<1>2. CASE t.ended
  <2>1. u = [lines |-> Append(t.lines, r), ended |-> TRUE] /\ r # Garbled
    BY <1>2 DEF AppendRow
  <2>2. /\ u = [lines |-> u.lines, ended |-> u.ended]
        /\ u.lines = Append(t.lines, r) /\ u.ended \in BOOLEAN
        /\ r \in R \cup {Garbled}
    BY <2>1
  <2>3. /\ IsTable(u, R) /\ Unfinished(t) = 0
        /\ u.ended => Unfinished(u) = 0
        /\ r # Garbled => /\ Added(t, u, r)
                          /\ Cardinality(DOMAIN ReadRows(u)) = Cardinality(DOMAIN ReadRows(t)) + 1
    <3> HIDE <2>1
    <3> QED
      BY <1>2, <2>2, LineAdded
  <2> QED
    BY <1>1, <2>1, <2>3
<1>3. CASE ~ t.ended
  <2>1. u = [lines |-> ReplaceLast(t.lines, Garbled), ended |-> TRUE]
    BY <1>3 DEF AppendRow
  <2>2. /\ IsTable(u, R) /\ Lost(t, u) /\ Unfinished(u) = 0
        /\ Cardinality(DOMAIN ReadRows(u)) + Unfinished(t) = Cardinality(DOMAIN ReadRows(t)) + 1
    BY <1>3, <2>1, LineSpoilt
  <2> QED
    BY <2>2
<1> QED
  BY <1>2, <1>3 DEF IsTable

\* What a crash leaves of an append: one row less at most, counting the one that
\* the next append will lose.
LEMMA CutShort ==
  ASSUME NEW R, Garbled \notin R, NEW t, IsTable(t, R), NEW r \in R,
         NEW u \in PartialAppends(t, r)
  PROVE  /\ IsTable(u, R)
         /\ Same(t, u) \/ Added(t, u, r) \/ Lost(t, u)
         /\ Cardinality(DOMAIN ReadRows(t)) + Unfinished(u)
              <= Cardinality(DOMAIN ReadRows(u)) + Unfinished(t) + 1
<1> DEFINE Cut(x) == [lines |-> IF t.ended THEN Append(t.lines, x) ELSE ReplaceLast(t.lines, Garbled),
                      ended |-> FALSE]
<1>1. CASE u = t
  <2>1. Unfinished(t) \in Nat /\ Cardinality(DOMAIN ReadRows(t)) \in Nat
    BY RowsRead DEF Unfinished
  <2> QED
    BY <1>1, <2>1 DEF Same
<1>2. ASSUME NEW x \in {r, Garbled}, u = Cut(x)
      PROVE  /\ IsTable(u, R)
             /\ Same(t, u) \/ Added(t, u, r) \/ Lost(t, u)
             /\ Cardinality(DOMAIN ReadRows(t)) + Unfinished(u)
                  <= Cardinality(DOMAIN ReadRows(u)) + Unfinished(t) + 1
  <2>1. CASE t.ended
    <3>1. u = [lines |-> Append(t.lines, x), ended |-> FALSE]
      BY <1>2, <2>1
    <3>2. /\ Cardinality(DOMAIN ReadRows(t)) \in Nat
          /\ u = [lines |-> u.lines, ended |-> u.ended]
          /\ u.lines = Append(t.lines, x) /\ u.ended \in BOOLEAN
      BY <3>1, RowsRead
    <3>3. /\ IsTable(u, R) /\ Unfinished(t) = 0
          /\ x = Garbled => /\ Same(t, u) /\ Unfinished(u) \in 0 .. 1
                            /\ Cardinality(DOMAIN ReadRows(u)) = Cardinality(DOMAIN ReadRows(t))
          /\ x # Garbled => /\ Added(t, u, x) /\ Unfinished(u) \in 0 .. 2
                            /\ Cardinality(DOMAIN ReadRows(u)) = Cardinality(DOMAIN ReadRows(t)) + 1
      BY <2>1, <3>2, LineAdded
    <3>4. CASE x = Garbled
      BY <3>2, <3>3, <3>4
    <3>5. CASE x # Garbled
      BY <1>2, <3>2, <3>3, <3>5
    <3> QED
      BY <3>4, <3>5
  <2>2. CASE ~ t.ended
    <3>1. u = [lines |-> ReplaceLast(t.lines, Garbled), ended |-> FALSE]
      BY <1>2, <2>2
    <3>2. Cardinality(DOMAIN ReadRows(t)) \in Nat /\ Unfinished(t) \in Nat
      BY RowsRead DEF Unfinished
    <3>3. /\ IsTable(u, R) /\ Lost(t, u) /\ Unfinished(u) = 1
          /\ Cardinality(DOMAIN ReadRows(u)) + Unfinished(t) = Cardinality(DOMAIN ReadRows(t)) + 1
      BY <2>2, <3>1, LineSpoilt
    <3>4. Cardinality(DOMAIN ReadRows(u)) \in Nat
      BY <3>3, RowsRead
    <3> QED
      BY <3>2, <3>3, <3>4
  <2> QED
    BY <2>1, <2>2 DEF IsTable
<1>3. CASE u = AppendRow(t, r)
  <2>1. Unfinished(t) \in Nat /\ Cardinality(DOMAIN ReadRows(t)) \in Nat
    BY RowsRead DEF Unfinished
  <2>2. IsTable(u, R) /\ Cardinality(DOMAIN ReadRows(u)) \in Nat
    BY <1>3, Appended, RowsRead
  <2> QED
    BY <1>3, Appended, <2>1, <2>2
<1>4. u \in {t, Cut(Garbled), Cut(r), AppendRow(t, r)}
  BY DEF PartialAppends
<1> QED
  BY <1>1, <1>2, <1>3, <1>4

\* Only what was unfinished is lost, and what is unfinished is the last row
\* written, unless it is garbled.
LEMMA NothingFinishedIsLost ==
  ASSUME NEW R, Garbled \notin R, NEW t, IsTable(t, R), NEW r \in R,
         NEW u \in PartialAppends(t, r), t.ended
  PROVE  Same(t, u) \/ Added(t, u, r)
<1>1. \/ u = t
      \/ u = [lines |-> Append(t.lines, Garbled), ended |-> FALSE]
      \/ u = [lines |-> Append(t.lines, r), ended |-> FALSE]
      \/ u = [lines |-> Append(t.lines, r), ended |-> TRUE]
  BY DEF PartialAppends, AppendRow
<1>2. CASE u = t
  BY <1>2 DEF Same
<1>3. CASE u # t
  <2> DEFINE Cut(x, e) == [lines |-> Append(t.lines, x), ended |-> e]
  <2>3. ASSUME NEW x, NEW e \in BOOLEAN, u = Cut(x, e)
        PROVE  /\ u = [lines |-> u.lines, ended |-> u.ended] /\ u.ended \in BOOLEAN
               /\ u.lines = Append(t.lines, x)
    BY <2>3
  <2>4. u = Cut(Garbled, FALSE) \/ u = Cut(r, FALSE) \/ u = Cut(r, TRUE)
    BY <1>1, <1>3
  <2>1. /\ u = [lines |-> u.lines, ended |-> u.ended] /\ u.ended \in BOOLEAN
        /\ u.lines = Append(t.lines, r) \/ u.lines = Append(t.lines, Garbled)
    <3> HIDE DEF Cut
    <3> QED
      BY <2>3, <2>4
  <2>2. ASSUME NEW x \in R \cup {Garbled}, u.lines = Append(t.lines, x)
        PROVE  (x = Garbled => Same(t, u)) /\ (x # Garbled => Added(t, u, x))
    BY <2>1, <2>2, LineAdded
  <2> QED
    BY <2>1, <2>2
<1> QED
  BY <1>2, <1>3

\* After a finished line a row is added for good.
LEMMA FinishedTable ==
  ASSUME NEW R, Garbled \notin R, NEW t, IsTable(t, R), NEW r \in R, t.ended
  PROVE  Added(t, AppendRow(t, r), r)
<1> DEFINE u == AppendRow(t, r)
<1>1. u = [lines |-> Append(t.lines, r), ended |-> TRUE]
  BY DEF AppendRow
<1> HIDE DEF u
<1>2. /\ u = [lines |-> u.lines, ended |-> u.ended] /\ u.ended \in BOOLEAN
      /\ u.lines = Append(t.lines, r) /\ r \in R \cup {Garbled}
  BY <1>1
<1>3. r # Garbled => Added(t, u, r)
  BY <1>2, LineAdded
<1> QED
  BY <1>3 DEF u

\* A whole append is one of the partial ones, and ends its line.
LEMMA WholeAppend ==
  ASSUME NEW t, NEW r
  PROVE  AppendRow(t, r).ended /\ AppendRow(t, r) \in PartialAppends(t, r)
BY DEF AppendRow, PartialAppends

\* What an append that is cut off leaves as its last line.
LEMMA LineLeft ==
  ASSUME NEW R, NEW t, IsTable(t, R), NEW r \in R, NEW u \in PartialAppends(t, r)
  PROVE  u = t \/ u.ended \/ u.lines[Len(u.lines)] \in {r, Garbled}
<1>1. t.lines \in Seq(R \cup {Garbled}) /\ (t.ended \/ t.lines # << >>)
  BY DEF IsTable
<1>2. \A x \in {r, Garbled} : LET s == Append(t.lines, x) IN s[Len(s)] = x
  BY <1>1
<1>3. t.lines # << >> => LET s == ReplaceLast(t.lines, Garbled) IN s[Len(s)] = Garbled
  <2> SUFFICES ASSUME t.lines # << >>
               PROVE  LET s == ReplaceLast(t.lines, Garbled) IN s[Len(s)] = Garbled
    OBVIOUS
  <2>1. Len(t.lines) \in 1 .. Len(t.lines)
    BY <1>1, EmptySeq
  <2>2. Len(ReplaceLast(t.lines, Garbled)) = Len(t.lines)
    BY <1>1, <2>1, ExceptSeq DEF ReplaceLast
  <2> QED
    BY <1>1, <2>1, <2>2 DEF ReplaceLast
<1> QED
  BY <1>1, <1>2, <1>3 DEF PartialAppends, AppendRow

\* A bounded set of numbers has a greatest one.
LEMMA GreatestNumber ==
  ASSUME NEW n \in Nat, NEW S \in SUBSET (1 .. n), S # {}
  PROVE  \E m \in S : \A k \in S : k <= m
<1> DEFINE Less == {ss \in Nat \X Nat : ss[1] < ss[2]}
           T == {n - k : k \in S}
<1>1. IsWellFoundedOn(Less, Nat)
  BY NatLessThanWellFounded DEF OpToRel
<1>2. T \in SUBSET Nat /\ T # {}
  <2>1. \A k \in S : k \in 1 .. n /\ n - k \in Nat
    OBVIOUS
  <2> QED
    BY <2>1
<1>3. PICK d \in T : \A k \in T : <<k, d>> \notin Less
  <2> HIDE DEF Less, T
  <2> QED BY <1>1, <1>2, WFMin
<1>4. PICK m \in S : d = n - m
  BY <1>3
<1>5. ASSUME NEW k \in S PROVE k <= m
  <2>1. n - k \in T /\ n - k \in Nat /\ d \in Nat
    BY <1>2, <1>3
  <2>2. ~ (n - k < d)
    BY <1>3, <2>1
  <2> QED
    BY <1>4, <2>1, <2>2
<1> QED
  BY <1>5

\* Of numbers up to n there is a least one.
LEMMA LeastNumber ==
  ASSUME NEW n \in Nat, NEW S \in SUBSET (0 .. n), S # {}
  PROVE  \E m \in S : \A k \in S : m <= k
<1> DEFINE T == {n + 1 - k : k \in S}
<1>1. T \in SUBSET (1 .. n + 1) /\ T # {} /\ n + 1 \in Nat
  <2>1. \A k \in S : k \in 0 .. n /\ n + 1 - k \in 1 .. n + 1
    OBVIOUS
  <2>2. \A x \in T : x \in 1 .. n + 1
    BY <2>1
  <2>3. T # {}
    OBVIOUS
  <2> HIDE DEF T
  <2> QED
    BY <2>2, <2>3
<1>2. PICK m \in T : \A k \in T : k <= m
  <2> HIDE DEF T
  <2> QED
    BY <1>1, GreatestNumber
<1>3. PICK l \in S : m = n + 1 - l
  OBVIOUS
<1>4. \A k \in S : l <= k
  <2> TAKE k \in S
  <2>1. n + 1 - k \in T
    OBVIOUS
  <2>2. n + 1 - k <= m
    BY <1>2, <2>1
  <2> QED
    BY <1>3, <2>2
<1> QED
  BY <1>3, <1>4

\* The greatest of them is the one that Max chooses.
LEMMA MaxOfNumbers ==
  ASSUME NEW n \in Nat, NEW S \in SUBSET (1 .. n), S # {}
  PROVE  Max(S) \in S /\ \A k \in S : Max(S) >= k
<1>1. \E m \in S : \A k \in S : m >= k
  BY GreatestNumber
<1> QED
  BY <1>1 DEF Max

\* A set that has grown by one element at most.
LEMMA OneMore ==
  ASSUME NEW T, IsFiniteSet(T), NEW x, NEW S, S \subseteq T \cup {x}
  PROVE  /\ IsFiniteSet(S)
         /\ Cardinality(S) \in Nat /\ Cardinality(T) \in Nat
         /\ Cardinality(S) <= Cardinality(T) + 1
         /\ S \subseteq T => Cardinality(S) <= Cardinality(T)
<1>1. /\ IsFiniteSet(T \cup {x})
      /\ Cardinality(T \cup {x}) <= Cardinality(T) + 1
      /\ Cardinality(T) \in Nat /\ Cardinality(T \cup {x}) \in Nat
  BY FS_AddElement, FS_CardinalityType
<1>2. IsFiniteSet(S) /\ Cardinality(S) <= Cardinality(T \cup {x}) /\ Cardinality(S) \in Nat
  BY <1>1, FS_Subset, FS_CardinalityType
<1>3. S \subseteq T => Cardinality(S) <= Cardinality(T)
  BY FS_Subset
<1> QED
  BY <1>1, <1>2, <1>3

-----------------------------------------------------------------------------
\* The rows that stay whatever is written next: all but one in an unfinished line.
Solid(t) ==
  [i \in {i \in DOMAIN ReadRows(t) : t.ended \/ i # Len(t.lines)} |-> ReadRows(t)[i]]

\* An append adds its row to a finished table; of another one it leaves what is solid.
LEMMA SolidAppended ==
  ASSUME NEW R, Garbled \notin R, NEW t, IsTable(t, R), NEW r \in R
  PROVE  /\ AppendRow(t, r).ended
         /\ Solid(AppendRow(t, r)) = ReadRows(AppendRow(t, r))
         /\ t.ended => Solid(t) = ReadRows(t) /\ Added(t, AppendRow(t, r), r)
         /\ ~ t.ended => ReadRows(AppendRow(t, r)) = Solid(t)
<1> DEFINE u == AppendRow(t, r)
<1>1. u.ended
  BY DEF AppendRow
<1>2. \A w : w.ended => Solid(w) = ReadRows(w)
  BY DEF Solid, ReadRows
<1>3. t.ended => Added(t, u, r)
  BY FinishedTable
<1>4. ASSUME ~ t.ended PROVE ReadRows(u) = Solid(t)
  <2>1. u = [lines |-> ReplaceLast(t.lines, Garbled), ended |-> TRUE]
    BY <1>4 DEF AppendRow
  <2>2. Lost(t, u)
    BY <1>4, <2>1, LineSpoilt
  <2>3. DOMAIN ReadRows(u) = DOMAIN Solid(t)
    BY <1>4, <2>2 DEF Lost, Solid
  <2>4. \A i \in DOMAIN Solid(t) : ReadRows(u)[i] = Solid(t)[i]
    BY <2>2, <2>3 DEF Lost, Solid
  <2> QED
    BY <2>3, <2>4 DEF ReadRows, Solid
<1> QED
  BY <1>1, <1>2, <1>3, <1>4

\* An append that is cut short in its line leaves what is solid solid.
LEMMA SolidCut ==
  ASSUME NEW R, Garbled \notin R, NEW t, IsTable(t, R), NEW r \in R,
         NEW u \in PartialAppends(t, r), u # t, u # AppendRow(t, r)
  PROVE  /\ ~ u.ended
         /\ Solid(u) = Solid(t)
         /\ IF t.ended THEN Same(t, u) \/ Added(t, u, r) ELSE ReadRows(u) = Solid(t)
<1> DEFINE n == Len(t.lines)
<1>1. n \in Nat /\ DOMAIN ReadRows(t) \subseteq 1 .. n
  BY RowsRead
<1>2. CASE t.ended
  <2>1. PICK x \in {r, Garbled} : u = [lines |-> Append(t.lines, x), ended |-> FALSE]
    BY <1>2 DEF PartialAppends
  <2>2. Len(u.lines) = n + 1 /\ ~ u.ended
    BY <2>1 DEF IsTable
  <2>3. Same(t, u) \/ Added(t, u, r)
    BY <1>2, NothingFinishedIsLost
  <2>4. DOMAIN Solid(u) = DOMAIN ReadRows(t) /\ \A i \in DOMAIN Solid(u) : Solid(u)[i] = ReadRows(t)[i]
    <3>1. /\ DOMAIN Solid(u) = {i \in DOMAIN ReadRows(u) : i # n + 1}
          /\ \A i \in DOMAIN Solid(u) : Solid(u)[i] = ReadRows(u)[i]
      BY <2>2 DEF Solid
    <3>2. n + 1 \notin DOMAIN ReadRows(t)
      BY <1>1
    <3>3. CASE Same(t, u)
      BY <3>1, <3>2, <3>3 DEF Same
    <3>4. CASE Added(t, u, r)
      BY <3>1, <3>2, <3>4 DEF Added
    <3> QED
      BY <2>3, <3>3, <3>4
  <2>5. Solid(t) = ReadRows(t)
    BY <1>2 DEF Solid, ReadRows
  <2>6. Solid(u) = ReadRows(t)
    BY <2>4 DEF Solid, ReadRows
  <2> QED
    BY <1>2, <2>2, <2>3, <2>5, <2>6
<1>3. CASE ~ t.ended
  <2>1. u = [lines |-> ReplaceLast(t.lines, Garbled), ended |-> FALSE]
    BY <1>3 DEF PartialAppends
  <2>2. Lost(t, u)
    BY <1>3, <2>1, LineSpoilt
  <2>3. Len(u.lines) = n
    BY <2>1, <1>1 DEF ReplaceLast, IsTable
  <2>4. /\ DOMAIN ReadRows(u) = DOMAIN Solid(t)
        /\ \A i \in DOMAIN Solid(t) : ReadRows(u)[i] = Solid(t)[i]
    BY <1>3, <2>2 DEF Lost, Solid
  <2>5. ReadRows(u) = Solid(t)
    <3>1. ReadRows(u) = [i \in DOMAIN ReadRows(u) |-> ReadRows(u)[i]]
      BY DEF ReadRows
    <3>2. Solid(t) = [i \in DOMAIN Solid(t) |-> Solid(t)[i]]
      BY DEF Solid
    <3> QED
      BY <2>4, <3>1, <3>2
  <2>6. /\ DOMAIN Solid(u) = DOMAIN Solid(t)
        /\ \A i \in DOMAIN Solid(t) : Solid(u)[i] = Solid(t)[i]
    BY <1>3, <2>3, <2>5 DEF Solid
  <2>7. Solid(u) = Solid(t)
    <3>1. \A w : Solid(w) = [i \in DOMAIN Solid(w) |-> Solid(w)[i]]
      BY DEF Solid
    <3> QED
      BY <2>6, <3>1
  <2> QED
    BY <1>3, <2>1, <2>5, <2>7
<1> QED
  BY <1>2, <1>3

\* What is solid are rows of the table, and all of them when it is finished.
LEMMA SolidRows ==
  ASSUME NEW R, NEW t, IsTable(t, R)
  PROVE  /\ DOMAIN Solid(t) \subseteq DOMAIN ReadRows(t)
         /\ \A i \in DOMAIN Solid(t) : Solid(t)[i] = ReadRows(t)[i] /\ Solid(t)[i] \in R
         /\ t.ended => Solid(t) = ReadRows(t)
         /\ DOMAIN ReadRows(t) \subseteq DOMAIN Solid(t) \cup {Len(t.lines)}
<1>1. \A i \in DOMAIN ReadRows(t) : ReadRows(t)[i] \in R
  BY RowsRead
<1>2. t.ended => Solid(t) = ReadRows(t)
  BY DEF Solid, ReadRows
<1> QED
  BY <1>1, <1>2 DEF Solid

=============================================================================
