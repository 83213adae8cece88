--------------------------- MODULE CandidateProofs ---------------------------
(***************************************************************************)
(* For every set of versions and evidence and every bound: what crashes    *)
(* leave of a candidate's rows is a legal life, they cost one record each, *)
(* and without a human's approval promote() lets nothing pass.             *)
(***************************************************************************)
EXTENDS CandidateLifecycle, JsonlTableProofs

\* Both tables hold rows of their kind.
Types ==
  /\ IsTable(rows, Row) /\ IsTable(history, Entry)
  /\ crashes \in Nat /\ acked \in Nat

\* Every row that can be read, but for a first proposal, follows a row it may
\* follow: the last one at the time of its call.
Before(rs, i) == {j \in DOMAIN rs : j < i /\ \A k \in DOMAIN rs : k <= j \/ i <= k}

Follows(rs, i) ==
  IF rs[i].status = "proposed"
    THEN \A j \in Before(rs, i) : rs[j].version # rs[i].version
    ELSE \E j \in Before(rs, i) : /\ rs[j].version = rs[i].version
                                  /\ rs[i].status \in Transitions(rs[j].status)

Lives(rs) == \A i \in DOMAIN rs : Follows(rs, i)

\* Every record that was acknowledged can be read, or a crash pays for it; an
\* unfinished line is paid for before the next append runs into it.
Covered(t) == acked + Unfinished(t) <= Cardinality(DOMAIN ReadRows(t)) + crashes

\* Without a human approval the history shows none, and promote() refused.
HumanlyMade(entry) == entry.to = "approved" /\ entry.evidence = Human

Unapproved ==
  humans = {} =>
    /\ promotions = {}
    /\ \A i \in DOMAIN ReadRows(history) : ~ HumanlyMade(ReadRows(history)[i])

LifeInv ==
  /\ Types
  /\ Lives(ReadRows(rows))
  /\ Covered(rows) /\ Covered(history)
  /\ Unapproved

\* Neither table can hold a garbled row that is one.
LEMMA GarbledIsNoRow == Garbled \notin Row /\ Garbled \notin Entry
<1>1. "garbled" \in DOMAIN Garbled
  BY DEF Garbled
<1>2. \A r \in Row : "garbled" \notin DOMAIN r
  BY DEF Row
<1>3. \A r \in Entry : "garbled" \notin DOMAIN r
  BY DEF Entry
<1> QED
  BY <1>1, <1>2, <1>3

-----------------------------------------------------------------------------
(* Lives *)

\* Which status may come before which.
LEMMA StatesInOrder ==
  ASSUME NEW from, NEW to \in Transitions(from)
  PROVE  /\ to \in Status /\ to # "proposed"
         /\ to = "evaluated" => from = "proposed"
         /\ to = "approved" => from = "evaluated"
         /\ to = "promoted" => from = "approved"
         /\ to = "rolled-back" => from = "promoted"
BY DEF Transitions, Status

\* The latest row of the candidate is the last that can be read.
LEMMA LatestIsNewest ==
  ASSUME IsTable(rows, Row)
  PROVE  /\ \A j \in Newest(ReadRows(rows)) : LatestCandidate = ReadRows(rows)[j] /\ LatestCandidate # None
         /\ LatestCandidate # None => LatestCandidate \in Row /\ Newest(ReadRows(rows)) # {}
<1> DEFINE all == ReadRows(rows)
           n   == Len(rows.lines)
<1>1. /\ DOMAIN all \in SUBSET (1 .. n) /\ n \in Nat
      /\ \A i \in DOMAIN all : all[i] \in Row
  BY RowsRead
<1>2. ASSUME DOMAIN all # {}
      PROVE  Max(DOMAIN all) \in Newest(all) /\ Newest(all) = {Max(DOMAIN all)}
  <2>1. \E m \in DOMAIN all : \A k \in DOMAIN all : k <= m
    <3> HIDE DEF all, n
    <3> QED
      BY <1>1, <1>2, GreatestNumber
  <2>2. /\ Max(DOMAIN all) \in DOMAIN all
        /\ \A k \in DOMAIN all : Max(DOMAIN all) >= k
    <3>1. \E m \in DOMAIN all : \A k \in DOMAIN all : m >= k
      BY <1>1, <2>1
    <3> QED
      BY <3>1 DEF Max
  <2>3. \A j \in Newest(all) : j = Max(DOMAIN all)
    BY <1>1, <2>2 DEF Newest
  <2> QED
    BY <1>1, <2>2, <2>3 DEF Newest
<1>3. DOMAIN all # {} => LatestCandidate = all[Max(DOMAIN all)] /\ LatestCandidate \in Row /\ LatestCandidate # None
  BY <1>1, <1>2, NoneAssumption DEF LatestCandidate, Newest
<1>4. DOMAIN all = {} => LatestCandidate = None /\ Newest(all) = {}
  BY DEF LatestCandidate, Newest
<1> QED
  BY <1>2, <1>3, <1>4

\* A row that may follow the last one.
MayFollow(rs, r) ==
  IF r.status = "proposed"
    THEN \A j \in Newest(rs) : rs[j].version # r.version
    ELSE \E j \in Newest(rs) : rs[j].version = r.version /\ r.status \in Transitions(rs[j].status)

\* A row that may follow keeps the lives legal, whatever a crash makes of it.
LEMMA LivesKept ==
  ASSUME NEW t, IsTable(t, Row), NEW u, NEW r \in Row,
         Lives(ReadRows(t)), MayFollow(ReadRows(t), r),
         Same(t, u) \/ Added(t, u, r) \/ Lost(t, u)
  PROVE  Lives(ReadRows(u))
<1> DEFINE rs == ReadRows(t)
           ru == ReadRows(u)
           n  == Len(t.lines)
<1>1. DOMAIN rs \subseteq 1 .. n /\ n \in Nat
  BY RowsRead
<1>2. CASE Same(t, u)
  BY <1>2 DEF Same
<1>3. CASE Added(t, u, r)
  <2>1. /\ DOMAIN ru = DOMAIN rs \cup {n + 1} /\ ru[n + 1] = r
        /\ \A i \in DOMAIN rs : ru[i] = rs[i]
    BY <1>3 DEF Added
  <2> HIDE DEF rs, ru, n
  <2>2. ASSUME NEW i \in DOMAIN rs PROVE Follows(ru, i)
    <3>1. Before(ru, i) = Before(rs, i) /\ Before(rs, i) \subseteq DOMAIN rs
      BY <1>1, <2>1 DEF Before
    <3>2. Follows(rs, i)
      BY DEF Lives, rs
    <3> QED
      BY <2>1, <3>1, <3>2 DEF Follows
  <2>3. Follows(ru, n + 1)
    <3>1. Before(ru, n + 1) = Newest(rs) /\ Newest(rs) \subseteq DOMAIN rs
      BY <1>1, <2>1 DEF Before, Newest
    <3> QED
      BY <2>1, <3>1 DEF Follows, MayFollow, rs
  <2> QED
    BY <2>1, <2>2, <2>3 DEF Lives, ru
<1>4. CASE Lost(t, u)
  <2>1. DOMAIN ru = DOMAIN rs \ {n} /\ \A i \in DOMAIN ru : ru[i] = rs[i]
    BY <1>4 DEF Lost
  <2> HIDE DEF rs, ru, n
  <2>2. ASSUME NEW i \in DOMAIN ru PROVE Follows(ru, i)
    <3>1. Before(ru, i) = Before(rs, i) /\ Before(rs, i) \subseteq DOMAIN ru
      BY <1>1, <2>1 DEF Before
    <3>2. Follows(rs, i)
      BY <2>1 DEF Lives, rs
    <3> QED
      BY <2>1, <3>1, <3>2 DEF Follows
  <2> QED
    BY <2>2 DEF Lives, ru
<1> QED
  BY <1>2, <1>3, <1>4

-----------------------------------------------------------------------------
(* The invariant *)

\* The invariant holds at first.
LEMMA InitLifeInv == Init => LifeInv
<1> SUFFICES ASSUME Init PROVE LifeInv
  OBVIOUS
<1>1. EmptyTable \in [lines : Seq(Row \cup {Garbled}) \cap Seq(Entry \cup {Garbled}), ended : BOOLEAN]
  BY DEF EmptyTable
<1>2. DOMAIN ReadRows(EmptyTable) = {} /\ Unfinished(EmptyTable) = 0
  BY DEF ReadRows, EmptyTable, Unfinished
<1>3. Types
  BY <1>1 DEF Init, Types, IsTable, EmptyTable
<1>4. Covered(rows) /\ Covered(history)
  BY <1>2, FS_EmptySet DEF Init, Covered
<1> QED
  BY <1>2, <1>3, <1>4 DEF Init, LifeInv, Lives, Unapproved

\* A record that is cut short or lost is paid for by its crash, or was not counted.
LEMMA CoveredKept ==
  ASSUME NEW R, Garbled \notin R, NEW t, IsTable(t, R), NEW r \in R, NEW u,
         Covered(t), acked \in Nat, crashes \in Nat,
         \/ u = AppendRow(t, r) /\ acked' = acked + 1 /\ crashes' = crashes
         \/ u \in PartialAppends(t, r) /\ acked' = acked /\ crashes' = crashes + 1
  PROVE  acked' + Unfinished(u) <= Cardinality(DOMAIN ReadRows(u)) + crashes'
<1> DEFINE c == Cardinality(DOMAIN ReadRows(t))
           d == Cardinality(DOMAIN ReadRows(u))
<1>1. c \in Nat /\ Unfinished(t) \in Nat /\ Unfinished(u) \in Nat
  BY RowsRead DEF Unfinished
<1>2. IsTable(u, R)
  BY Appended, CutShort
<1>3. d \in Nat
  BY <1>2, RowsRead
<1>4. acked + Unfinished(t) <= c + crashes
  BY DEF Covered
<1>5. CASE u = AppendRow(t, r) /\ acked' = acked + 1 /\ crashes' = crashes
  <2>1. Unfinished(u) = 0 /\ d + Unfinished(t) = c + 1
    BY <1>5, Appended
  <2> QED
    BY <1>1, <1>3, <1>4, <1>5, <2>1
<1>6. CASE u \in PartialAppends(t, r) /\ acked' = acked /\ crashes' = crashes + 1
  <2>1. c + Unfinished(u) <= d + Unfinished(t) + 1
    BY <1>6, CutShort
  <2> QED
    BY <1>1, <1>3, <1>4, <1>6, <2>1
<1> QED
  BY <1>5, <1>6

\* Two appends, or a crash in one of them.
LEMMA WriteKeeps ==
  ASSUME LifeInv, NEW row \in Row, NEW entry \in Entry, Write(row, entry),
         MayFollow(ReadRows(rows), row),
         humans' = {} => ~ HumanlyMade(entry) /\ promotions' = promotions
  PROVE  LifeInv'
<1>1. /\ IsTable(rows, Row) /\ IsTable(history, Entry)
      /\ crashes \in Nat /\ acked \in Nat
      /\ Covered(rows) /\ Covered(history)
      /\ Garbled \notin Row /\ Garbled \notin Entry
  BY GarbledIsNoRow DEF LifeInv, Types
<1>2. /\ rows' \in PartialAppends(rows, row)
      /\ history' \in PartialAppends(history, entry)
      /\ \/ rows' = AppendRow(rows, row) /\ acked' = acked + 1 /\ crashes' = crashes
         \/ acked' = acked /\ crashes' = crashes + 1
      /\ \/ history' = AppendRow(history, entry) /\ acked' = acked + 1 /\ crashes' = crashes
         \/ acked' = acked /\ crashes' = crashes + 1
  BY DEF Write, PartialAppends
<1>3. /\ IsTable(rows', Row)
      /\ Same(rows, rows') \/ Added(rows, rows', row) \/ Lost(rows, rows')
  BY <1>1, <1>2, CutShort
<1>4. /\ IsTable(history', Entry)
      /\ Same(history, history') \/ Added(history, history', entry) \/ Lost(history, history')
  BY <1>1, <1>2, CutShort
<1>5. Types'
  BY <1>1, <1>2, <1>3, <1>4 DEF Types
<1>6. Lives(ReadRows(rows))'
  BY <1>1, <1>3, LivesKept DEF LifeInv
<1>7. Covered(rows)'
  <2>1. acked' + Unfinished(rows') <= Cardinality(DOMAIN ReadRows(rows')) + crashes'
    BY <1>1, <1>2, CoveredKept
  <2> QED
    BY <2>1 DEF Covered
<1>8. Covered(history)'
  <2>1. acked' + Unfinished(history') <= Cardinality(DOMAIN ReadRows(history')) + crashes'
    BY <1>1, <1>2, CoveredKept
  <2> QED
    BY <2>1 DEF Covered
<1>9. Unapproved'
  <2> SUFFICES ASSUME humans' = {}
               PROVE  /\ promotions' = {}
                      /\ \A i \in DOMAIN ReadRows(history') : ~ HumanlyMade(ReadRows(history')[i])
    BY DEF Unapproved
  <2>1. humans = {} /\ ~ HumanlyMade(entry) /\ promotions' = promotions
    BY DEF Write
  <2>2. /\ promotions = {}
        /\ \A i \in DOMAIN ReadRows(history) : ~ HumanlyMade(ReadRows(history)[i])
    BY <2>1 DEF LifeInv, Unapproved
  <2>3. ASSUME NEW i \in DOMAIN ReadRows(history') PROVE ~ HumanlyMade(ReadRows(history')[i])
    <3>1. \/ ReadRows(history')[i] = entry
          \/ i \in DOMAIN ReadRows(history) /\ ReadRows(history')[i] = ReadRows(history)[i]
      BY <1>4 DEF Same, Added, Lost
    <3> QED
      BY <2>1, <2>2, <3>1
  <2> QED
    BY <2>1, <2>2, <2>3
<1> QED
  BY <1>5, <1>6, <1>7, <1>8, <1>9 DEF LifeInv

\* A proposal keeps the invariant.
LEMMA ProposeKeeps ==
  ASSUME LifeInv, NEW v \in Versions, Propose(v)
  PROVE  LifeInv'
<1> DEFINE row   == [version |-> v, status |-> "proposed"]
           entry == [from |-> None, to |-> "proposed", evidence |-> None]
<1>1. row \in Row /\ entry \in Entry
  BY DEF Row, Entry, Status
<1>2. MayFollow(ReadRows(rows), row)
  BY LatestIsNewest DEF LifeInv, Types, Propose, MayFollow
<1>3. ~ HumanlyMade(entry) /\ promotions' = promotions
  BY DEF HumanlyMade, Propose
<1>4. Write(row, entry)
  BY DEF Propose
<1> QED
  BY <1>1, <1>2, <1>3, <1>4, WriteKeeps

\* A transition keeps it.
LEMMA TransitionKeeps ==
  ASSUME LifeInv, NEW to, NEW evidence \in Evidence \cup {None}, Transition(to, evidence),
         promotions' = promotions \/ humans # {}
  PROVE  LifeInv'
<1> DEFINE row   == [LatestCandidate EXCEPT !.status = to]
           entry == [from |-> LatestCandidate.status, to |-> to, evidence |-> evidence]
<1>1. LatestCandidate \in Row /\ to \in Transitions(LatestCandidate.status) /\ Write(row, entry)
  BY LatestIsNewest DEF LifeInv, Types, Transition
<1>2. to \in Status /\ to # "proposed"
  BY <1>1, StatesInOrder
<1>3. /\ row \in Row /\ row.status = to /\ row.version = LatestCandidate.version
      /\ entry \in Entry
  BY <1>1, <1>2 DEF Row, Entry
<1>4. MayFollow(ReadRows(rows), row)
  <2>1. PICK j \in Newest(ReadRows(rows)) : LatestCandidate = ReadRows(rows)[j]
    BY <1>1, LatestIsNewest, NoneAssumption DEF LifeInv, Types
  <2> QED
    BY <1>1, <1>2, <1>3, <2>1 DEF MayFollow
<1>5. humans' = {} => ~ HumanlyMade(entry) /\ promotions' = promotions
  BY <1>1, <1>3 DEF Write, HumanlyMade
<1> HIDE DEF row, entry
<1> QED
  BY <1>1, <1>3, <1>4, <1>5, WriteKeeps

\* A call of promote() keeps it, for it asks for a human approval.
LEMMA PromoteKeeps == LifeInv /\ Promote => LifeInv'
<1> SUFFICES ASSUME LifeInv, Promote PROVE LifeInv'
  OBVIOUS
<1>1. humans # {}
  <2>1. PICK i \in Approvals : ReadRows(history)[i].evidence = Human
    BY DEF Promote, ApprovedByHuman, FirstOf
  <2> QED
    BY <2>1 DEF LifeInv, Unapproved, Approvals, HumanlyMade
<1> QED
  BY <1>1, TransitionKeeps, EvidenceAssumption DEF Promote

\* Every step keeps the invariant.
LEMMA NextLifeInv == LifeInv /\ [Next]_vars => LifeInv'
<1> SUFFICES ASSUME LifeInv, [Next]_vars PROVE LifeInv'
  OBVIOUS
<1>1. ASSUME NEW v \in Versions, Propose(v) PROVE LifeInv'
  BY <1>1, ProposeKeeps
<1>2. ASSUME NEW to, TransitionCandidate(to) PROVE LifeInv'
  BY <1>2, TransitionKeeps DEF TransitionCandidate
<1>3. ASSUME NEW e \in Evidence, Approve(e) PROVE LifeInv'
  BY <1>3, TransitionKeeps DEF Approve
<1>4. ASSUME Promote PROVE LifeInv'
  BY <1>4, PromoteKeeps
<1>5. ASSUME NEW success \in BOOLEAN, ReportCanaryResult(success) PROVE LifeInv'
  BY <1>5 DEF ReportCanaryResult, LifeInv, Types, Covered, Unapproved
<1>6. ASSUME AutoDisable PROVE LifeInv'
  BY <1>6, TransitionKeeps DEF AutoDisable
<1>7. ASSUME Rollback PROVE LifeInv'
  BY <1>7, TransitionKeeps DEF Rollback
<1>8. CASE UNCHANGED vars
  BY <1>8 DEF vars, LifeInv, Types, Covered, Unapproved
<1> QED
  BY <1>1, <1>2, <1>3, <1>4, <1>5, <1>6, <1>7, <1>8 DEF Next

\* The invariant holds in every state.
LEMMA LifeInvHolds == Spec => []LifeInv
BY InitLifeInv, NextLifeInv, PTL DEF Spec

-----------------------------------------------------------------------------
(* Theorems *)

\* What can be read of a candidate is a legal life: every promotion that a reader
\* finds follows the approval, evaluation and proposal of its version directly,
\* whatever lines crashes garbled in between (src/core/candidates.mjs:54-96).
THEOREM LifeIsLegal == Spec => []LegalLife
<1>1. LifeInv => LegalLife
  <2> DEFINE all == ReadRows(rows)
             Was(j, i, status) == all[j] = [version |-> all[i].version, status |-> status]
  <2> SUFFICES ASSUME LifeInv PROVE LegalLife
    OBVIOUS
  <2>1. \A i \in DOMAIN all : all[i] \in Row /\ Follows(all, i)
    BY RowsRead DEF LifeInv, Types, Lives
  <2> HIDE DEF all
  <2>2. ASSUME NEW i \in DOMAIN all, NEW to, all[i].status = to, to # "proposed"
        PROVE  \E j \in Before(all, i) : /\ j \in DOMAIN all
                                         /\ all[j].version = all[i].version
                                         /\ to \in Transitions(all[j].status)
    BY <2>1, <2>2 DEF Follows, Before
  <2>3. ASSUME NEW i \in DOMAIN all, NEW status, NEW j \in DOMAIN all,
               all[j].version = all[i].version, all[j].status = status
        PROVE  Was(j, i, status)
    BY <2>1, <2>3 DEF Row
  <2>4. ASSUME NEW i \in DOMAIN all, all[i].status = "promoted"
        PROVE  \E a \in Before(all, i) : \E e \in Before(all, a) : \E p \in Before(all, e) :
                 Was(a, i, "approved") /\ Was(e, i, "evaluated") /\ Was(p, i, "proposed")
    <3>1. PICK a \in Before(all, i) : /\ a \in DOMAIN all /\ all[a].version = all[i].version
                                      /\ all[a].status = "approved"
      BY <2>2, <2>4, StatesInOrder
    <3>2. PICK e \in Before(all, a) : /\ e \in DOMAIN all /\ all[e].version = all[a].version
                                      /\ all[e].status = "evaluated"
      BY <2>2, <3>1, StatesInOrder
    <3>3. PICK p \in Before(all, e) : /\ p \in DOMAIN all /\ all[p].version = all[e].version
                                      /\ all[p].status = "proposed"
      BY <2>2, <3>2, StatesInOrder
    <3> QED
      BY <2>3, <3>1, <3>2, <3>3
  <2>5. ASSUME NEW i \in DOMAIN all, all[i].status = "rolled-back"
        PROVE  \E p \in Before(all, i) : Was(p, i, "promoted")
    <3>1. PICK p \in Before(all, i) : /\ p \in DOMAIN all /\ all[p].version = all[i].version
                                      /\ all[p].status = "promoted"
      BY <2>2, <2>5, StatesInOrder
    <3> QED
      BY <2>3, <3>1
  <2>6. ASSUME NEW i \in DOMAIN all, all[i].status = "proposed", NEW j \in Before(all, i)
        PROVE  all[j].version # all[i].version
    BY <2>1, <2>6 DEF Follows
  <2> QED
    BY <2>4, <2>5, <2>6 DEF LegalLife, Before, all
<1> QED
  BY <1>1, LifeInvHolds, PTL

\* Every crash costs at most one of the acknowledged records of each table, also
\* the line that a later append merges with an unfinished one
\* (src/core/store.mjs, _append and _readAll).
THEOREM LossIsBounded == Spec => []LossBounded
<1>1. LifeInv => LossBounded
  <2> SUFFICES ASSUME LifeInv PROVE LossBounded
    OBVIOUS
  <2>1. ASSUME NEW R, NEW t, IsTable(t, R), Covered(t)
        PROVE  acked <= Cardinality(DOMAIN ReadRows(t)) + crashes
    <3>1. /\ Unfinished(t) \in Nat /\ Cardinality(DOMAIN ReadRows(t)) \in Nat
          /\ acked \in Nat /\ crashes \in Nat
      BY <2>1, RowsRead DEF Unfinished, LifeInv, Types
    <3> QED
      BY <2>1, <3>1 DEF Covered
  <2> QED
    BY <2>1 DEF LifeInv, Types, LossBounded
<1> QED
  BY <1>1, LifeInvHolds, PTL

\* promote() lets nothing of a candidate pass that no human approved, whoever
\* else approved it and whatever crashes left (src/core/canary.mjs, promote).
THEOREM PromotionAsksHuman == Spec => []PromoteAsksHuman
<1>1. LifeInv => PromoteAsksHuman
  BY DEF LifeInv, Unapproved, PromoteAsksHuman
<1> QED
  BY <1>1, LifeInvHolds, PTL

=============================================================================
