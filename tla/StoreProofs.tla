----------------------------- MODULE StoreProofs -----------------------------
(***************************************************************************)
(* Safety of what is kept in tables of the state store and in files beside *)
(* them, for any number of processes at work, of contents and of crashes:  *)
(* packages, project memory, the knowledge store, ingestion, evaluation.     *)
(***************************************************************************)
EXTENDS PackageEcosystem, ProjectMemory, KnowledgeStore, SourceIngestion, Evaluation, JsonlTableProofs

-----------------------------------------------------------------------------
(* Packages *)

PackageRow   == [version : Versions, verified : BOOLEAN, redone : BOOLEAN]
InstallEntry == [version : Versions, installed : BOOLEAN]

\* Where an install and an uninstall can be, and where they have changed the directory.
Installing   == {"verify", "copy", "record install"}
Uninstalling == {"remove", "reverse", "row", "record uninstall"}
Emptied      == {"reverse", "row", "record uninstall"}

Requests ==
  [at : Installing \cup Uninstalling, row : PackageRow \cup [version : Versions],
   places : BOOLEAN, alone : BOOLEAN]

PackageTypes ==
  /\ IsTable(packages, PackageRow) /\ IsTable(installs, InstallEntry)
  /\ installed \in Versions \cup {"none", "torn"}
  /\ exposed \subseteq Versions
  /\ blurred \in BOOLEAN
  /\ request \in [Clients -> {NoRequest} \cup Requests]
  /\ \A p \in Busy : /\ request[p].places \/ request[p].at = "row"
                     /\ request[p].at = "row" => request[p].row \in PackageRow

\* Of a version that is not exposed one call at most is at work ...
Unshared ==
  \A p, q \in Busy :
    p # q /\ request[p].row.version = request[q].row.version => request[p].row.version \in exposed

\* ... and no row of it is in an unfinished line.
TailExposed ==
  LET last == packages.lines[Len(packages.lines)]
  IN  packages.ended \/ last = Garbled \/ last.version \in exposed

RowsIn(t, v) == {i \in DOMAIN ReadRows(t) : ReadRows(t)[i].version = v}

AvailableIn(t, v) == RowsIn(t, v) # {} /\ ReadRows(t)[Max(RowsIn(t, v))].verified

InstalledVerified == installed \in Versions \ exposed => AvailableIn(packages, installed)

\* What is verified when an install begins is so when it copies ...
InstallsVerified ==
  \A p \in Busy : request[p].at \in {"verify", "copy"} =>
    request[p].row.version \in exposed \/ AvailableIn(packages, request[p].row.version)

\* ... and what a row is to take out of use is not installed.
UnverifiedGone ==
  \A p \in Busy :
    request[p].at = "reverse" \/ (request[p].at = "row" /\ ~ request[p].row.verified) =>
      request[p].row.version \in exposed \/ installed # request[p].row.version

VerifiedInv ==
  /\ PackageTypes
  /\ Unshared /\ TailExposed
  /\ InstalledVerified /\ InstallsVerified /\ UnverifiedGone

\* The last row of t says that the directory holds d.
TellsOf(t, d) ==
  LET last == LastOf(ReadRows(t), DOMAIN ReadRows(t))
  IN  IF \E row \in last : row.installed
      THEN \A row \in last : d = row.version
      ELSE d = "none"

\* A call that is alone finds what it did ...
AloneInOrder ==
  \A p \in Placing : request[p].alone =>
    /\ Placing = {p}
    /\ request[p].at = "record install" => installed = request[p].row.version
    /\ request[p].at \in Emptied => installed = "none"

\* ... and one that did nothing yet finds what the rows tell.
Clear ==
  ~ blurred => /\ installs.ended
               /\ \A p \in Placing : request[p].alone
               /\ \/ TellsOf(installs, installed)
                  \/ \E p \in Placing : request[p].at \in Emptied \cup {"record install"}

PlacedInv == AloneInOrder /\ Clear

\* A garbled line is no row of either table of packages.
LEMMA GarbledIsNoPackage == Garbled \notin PackageRow /\ Garbled \notin InstallEntry
<1>1. "garbled" \in DOMAIN Garbled
  BY DEF Garbled
<1>2. \A r \in PackageRow : "garbled" \notin DOMAIN r
  BY DEF PackageRow
<1>3. \A r \in InstallEntry : "garbled" \notin DOMAIN r
  BY DEF InstallEntry
<1> QED
  BY <1>1, <1>2, <1>3

\* A row of one version says nothing of another, and one that is lost nothing of
\* what it was not about.
LEMMA OthersUntouched ==
  ASSUME NEW t, IsTable(t, PackageRow), NEW r \in PackageRow, NEW u,
         Same(t, u) \/ Added(t, u, r) \/ Lost(t, u),
         NEW v, Added(t, u, r) => v # r.version,
         Lost(t, u) => Len(t.lines) \notin RowsIn(t, v)
  PROVE  AvailableIn(u, v) <=> AvailableIn(t, v)
<1>1. DOMAIN ReadRows(t) \subseteq 1 .. Len(t.lines) /\ Len(t.lines) \in Nat
  BY RowsRead
<1>2. CASE Same(t, u)
  BY <1>2 DEF Same, AvailableIn, RowsIn
<1>3. CASE Added(t, u, r) \/ Lost(t, u)
  <2>1. /\ RowsIn(u, v) = RowsIn(t, v)
        /\ \A i \in RowsIn(t, v) : ReadRows(u)[i] = ReadRows(t)[i]
    <3>1. CASE Added(t, u, r)
      BY <1>1, <3>1 DEF Added, RowsIn
    <3>2. CASE Lost(t, u)
      BY <1>1, <3>2 DEF Lost, RowsIn
    <3> QED
      BY <1>3, <3>1, <3>2
  <2>2. RowsIn(t, v) # {} => Max(RowsIn(t, v)) \in RowsIn(t, v)
    <3>1. RowsIn(t, v) \in SUBSET (1 .. Len(t.lines))
      BY <1>1 DEF RowsIn
    <3> QED
      BY <1>1, <3>1, MaxOfNumbers
  <2> QED
    BY <2>1, <2>2 DEF AvailableIn
<1> QED
  BY <1>2, <1>3

\* The row written last says whether its version is available.
LEMMA OwnRowCounts ==
  ASSUME NEW t, IsTable(t, PackageRow), NEW r \in PackageRow, NEW u, Added(t, u, r)
  PROVE  AvailableIn(u, r.version) <=> r.verified
<1> DEFINE n == Len(t.lines)
<1>1. DOMAIN ReadRows(t) \subseteq 1 .. n /\ n \in Nat
  BY RowsRead
<1>2. /\ n + 1 \in RowsIn(u, r.version) /\ ReadRows(u)[n + 1] = r
      /\ RowsIn(u, r.version) \in SUBSET (1 .. n + 1)
  BY <1>1 DEF Added, RowsIn
<1>3. Max(RowsIn(u, r.version)) = n + 1
  <2>1. /\ Max(RowsIn(u, r.version)) \in RowsIn(u, r.version)
        /\ Max(RowsIn(u, r.version)) >= n + 1
    <3>1. n + 1 \in Nat /\ RowsIn(u, r.version) # {}
      BY <1>1, <1>2
    <3> HIDE DEF n
    <3> QED
      BY <1>2, <3>1, MaxOfNumbers
  <2> QED
    BY <1>1, <1>2, <2>1
<1> QED
  BY <1>2, <1>3 DEF AvailableIn

\* An install row that was added is the one that tells.
LEMMA NewRowTells ==
  ASSUME NEW t, IsTable(t, InstallEntry), NEW r \in InstallEntry, NEW u, Added(t, u, r), NEW d,
         IF r.installed THEN d = r.version ELSE d = "none"
  PROVE  TellsOf(u, d)
<1> DEFINE n == Len(t.lines)
<1>1. DOMAIN ReadRows(t) \subseteq 1 .. n /\ n \in Nat
  BY RowsRead
<1>2. {i \in DOMAIN ReadRows(u) : \A j \in DOMAIN ReadRows(u) : j <= i} = {n + 1}
  BY <1>1 DEF Added
<1>3. LastOf(ReadRows(u), DOMAIN ReadRows(u)) = {r}
  BY <1>2 DEF LastOf, Added
<1> QED
  BY <1>3 DEF TellsOf

-----------------------------------------------------------------------------
\* How requests change: one more, ...
LEMMA Begun ==
  ASSUME PackageTypes, NEW p \in Clients, NEW place \in Installing \cup Uninstalling,
         NEW row \in PackageRow \cup [version : Versions], NEW places \in BOOLEAN,
         Begin(p, place, row, places)
  PROVE  /\ request' \in [Clients -> {NoRequest} \cup Requests]
         /\ p \notin Busy /\ Busy' = Busy \cup {p}
         /\ request'[p].at = place /\ request'[p].row = row
         /\ request'[p].places <=> places
         /\ request'[p].alone <=> Placing = {}
         /\ \A q \in Busy : /\ request'[q].at = request[q].at
                            /\ request'[q].row = request[q].row
                            /\ request'[q].places <=> request[q].places
                            /\ request'[q].alone <=> request[q].alone /\ ~ (places /\ q \in Placing)
<1>1. request \in [Clients -> {NoRequest} \cup Requests] /\ NoRequest \notin Requests
  BY DEF PackageTypes, NoRequest, Requests, Installing, Uninstalling
<1> DEFINE mine == [at |-> place, row |-> row, places |-> places, alone |-> Placing = {}]
<1>2. request[p] = NoRequest /\ p \notin Busy
  BY DEF Begin, Busy
<1>3. mine \in Requests
  BY DEF Requests
<1>4. request'[p] = mine
  BY DEF Begin
<1>5. ASSUME NEW q \in Busy
      PROVE  /\ q \in Clients /\ q # p /\ request[q] \in Requests
             /\ request'[q] = IF places /\ q \in Placing
                              THEN [request[q] EXCEPT !.alone = FALSE] ELSE request[q]
             /\ request'[q] \in Requests
  <2>1. q \in Clients /\ q # p /\ request[q] \in Requests
    BY <1>1, <1>2 DEF Busy
  <2>2. request'[q] = IF places /\ q \in Placing
                      THEN [request[q] EXCEPT !.alone = FALSE] ELSE request[q]
    BY <2>1 DEF Begin
  <2>3. [request[q] EXCEPT !.alone = FALSE] \in Requests
    BY <2>1 DEF Requests
  <2> QED
    BY <2>1, <2>2, <2>3
<1>6. ASSUME NEW q \in Clients, q \notin Busy, q # p PROVE request'[q] = NoRequest
  BY <1>6 DEF Begin, Busy, Placing
<1>7. request' = [q \in Clients |-> request'[q]]
  BY DEF Begin
<1>8. request' \in [Clients -> {NoRequest} \cup Requests]
  BY <1>3, <1>4, <1>5, <1>6, <1>7
<1>9. Busy' = Busy \cup {p}
  <2>1. \A q \in Busy \cup {p} : request'[q] \in Requests /\ q \in Clients
    BY <1>3, <1>4, <1>5
  <2> QED
    BY <1>1, <1>6, <2>1 DEF Busy
<1>10. ASSUME NEW q \in Busy
       PROVE /\ request'[q].at = request[q].at
             /\ request'[q].row = request[q].row
             /\ request'[q].places <=> request[q].places
             /\ request'[q].alone <=> request[q].alone /\ ~ (places /\ q \in Placing)
  <2>1. CASE places /\ q \in Placing
    BY <1>5, <2>1 DEF Requests
  <2>2. CASE ~ (places /\ q \in Placing)
    BY <1>5, <2>2
  <2> QED
    BY <2>1, <2>2
<1>11. request'[p].at = place /\ request'[p].row = row
  BY <1>4
<1>12. request'[p].places = places
  BY <1>4
<1>13. request'[p].alone = (Placing = {})
  BY <1>4
<1> QED
  BY <1>2, <1>8, <1>9, <1>10, <1>11, <1>12, <1>13

\* ... one at another place, perhaps with another row of its version, ...
LEMMA Moved ==
  ASSUME PackageTypes, NEW p \in Busy, NEW x \in Requests,
         request' = [request EXCEPT ![p] = x]
  PROVE  /\ request' \in [Clients -> {NoRequest} \cup Requests]
         /\ Busy' = Busy
         /\ request'[p] = x
         /\ \A q \in Busy : q # p => request'[q] = request[q]
<1>1. request \in [Clients -> {NoRequest} \cup Requests] /\ NoRequest \notin Requests
  BY DEF PackageTypes, NoRequest, Requests, Installing, Uninstalling
<1>2. p \in Clients
  BY DEF Busy
<1> QED
  BY <1>1, <1>2 DEF Busy

\* ... one less.
LEMMA Ended ==
  ASSUME PackageTypes, NEW p \in Busy, CallReturns(p)
  PROVE  /\ request' \in [Clients -> {NoRequest} \cup Requests]
         /\ Busy' = Busy \ {p}
         /\ \A q \in Busy' : request'[q] = request[q]
<1>1. request \in [Clients -> {NoRequest} \cup Requests]
  BY DEF PackageTypes
<1>2. p \in Clients
  BY DEF Busy
<1>3. request' \in [Clients -> {NoRequest} \cup Requests]
  BY <1>1, <1>2 DEF CallReturns
<1>4. Busy' = Busy \ {p}
  BY <1>1, <1>2 DEF CallReturns, Busy
<1>5. \A q \in Busy' : request'[q] = request[q]
  BY <1>1, <1>2, <1>4 DEF CallReturns, Busy
<1> QED
  BY <1>3, <1>4, <1>5

\* A call at work is one of the install or uninstall requests.
LEMMA BusyRequests ==
  ASSUME PackageTypes, NEW p \in Busy
  PROVE  /\ p \in Clients /\ request[p] \in Requests
         /\ request[p].row.version \in Versions
BY DEF PackageTypes, Busy, Requests, PackageRow

-----------------------------------------------------------------------------
\* What is installed and quiet is verified.
LEMMA InitVerifiedInv == PInit => VerifiedInv
<1> SUFFICES ASSUME PInit PROVE VerifiedInv
  OBVIOUS
<1>1. Busy = {}
  BY DEF PInit, Busy
<1>2. EmptyTable \in [lines : Seq(PackageRow \cup {Garbled}) \cap Seq(InstallEntry \cup {Garbled}),
                      ended : BOOLEAN]
  BY DEF EmptyTable
<1>3. PackageTypes
  BY <1>1, <1>2 DEF PInit, PackageTypes, IsTable, EmptyTable
<1>4. TailExposed /\ InstalledVerified
  BY PackageAssumption DEF PInit, TailExposed, EmptyTable, InstalledVerified
<1> QED
  BY <1>1, <1>3, <1>4 DEF VerifiedInv, Unshared, InstallsVerified, UnverifiedGone

\* A call that begins, with the row it has read, keeps the invariant.
LEMMA BeginVerified ==
  ASSUME VerifiedInv, NEW p \in Clients, NEW place \in {"row", "verify", "remove"},
         NEW row \in PackageRow \cup [version : Versions], NEW places \in BOOLEAN,
         Begin(p, place, row, places),
         places \/ place = "row",
         place = "row" => row \in PackageRow,
         place = "verify" => AvailableIn(packages, row.version),
         place = "row" /\ ~ row.verified => row.version \in exposed \/ installed # row.version
  PROVE  VerifiedInv'
<1>1. /\ request' \in [Clients -> {NoRequest} \cup Requests]
      /\ p \notin Busy /\ Busy' = Busy \cup {p}
      /\ request'[p].at = place /\ request'[p].row = row
      /\ request'[p].places <=> places
      /\ \A q \in Busy : /\ request'[q].at = request[q].at
                         /\ request'[q].row = request[q].row
                         /\ request'[q].places <=> request[q].places
  <2>1. place \in Installing \cup Uninstalling /\ PackageTypes
    BY DEF VerifiedInv, Installing, Uninstalling
  <2> QED
    BY <2>1, Begun, SMTT(60)
<1>2. /\ exposed \subseteq exposed' /\ exposed' \subseteq Versions
      /\ \A q \in Busy : request[q].row.version = row.version => row.version \in exposed'
      /\ UNCHANGED <<packages, installs, installed>>
  <2>1. row.version \in Versions
    BY DEF PackageRow
  <2> QED
    BY <2>1 DEF Begin, VerifiedInv, PackageTypes
<1>3. blurred' \in BOOLEAN
  BY DEF Begin
<1>4. PackageTypes'
  BY <1>1, <1>2, <1>3 DEF VerifiedInv, PackageTypes
<1>5. Unshared'
  BY <1>1, <1>2 DEF VerifiedInv, Unshared
<1>6. TailExposed' /\ InstalledVerified'
  BY <1>2 DEF VerifiedInv, TailExposed, InstalledVerified
<1>7. InstallsVerified'
  BY <1>1, <1>2 DEF VerifiedInv, InstallsVerified
<1>8. UnverifiedGone'
  BY <1>1, <1>2 DEF VerifiedInv, UnverifiedGone
<1> QED
  BY <1>4, <1>5, <1>6, <1>7, <1>8 DEF VerifiedInv

\* What the code asks before an install is that the rows make the version available.
LEMMA AvailableMeans ==
  ASSUME NEW v
  PROVE  /\ Available(v) <=> AvailableIn(packages, v)
         /\ MayInstall(v) <=> AvailableIn(packages, v)
         /\ AvailableIn(packages, v) => Registered(v)
BY DEF Available, MayInstall, AvailableIn, Registered, LatestRow, RowsOf, RowsIn

\* The latest row of a registered version is a row of that version.
LEMMA LatestRowTyped ==
  ASSUME PackageTypes, NEW v, Registered(v)
  PROVE  LatestRow(v) \in PackageRow /\ LatestRow(v).version = v
<1>1. /\ DOMAIN ReadRows(packages) \subseteq 1 .. Len(packages.lines)
      /\ \A i \in DOMAIN ReadRows(packages) : ReadRows(packages)[i] \in PackageRow
      /\ Len(packages.lines) \in Nat
  BY RowsRead DEF PackageTypes
<1>2. Max(RowsOf(v)) \in RowsOf(v)
  <2>1. RowsOf(v) \in SUBSET (1 .. Len(packages.lines)) /\ RowsOf(v) # {}
    BY <1>1 DEF RowsOf, Registered
  <2> QED
    BY <1>1, <2>1, MaxOfNumbers
<1> QED
  BY <1>1, <1>2 DEF LatestRow, RowsOf

\* Each of the four calls begins so.
LEMMA BeginsVerified ==
  ASSUME VerifiedInv, NEW p \in Clients, NEW v \in Versions,
         \/ RegisterPackage(p, v) \/ MarkVerified(p, v)
         \/ InstallPackage(p, v) \/ UninstallPackage(p, v)
  PROVE  VerifiedInv'
<1>1. CASE RegisterPackage(p, v)
  <2> DEFINE row == [version |-> v, verified |-> FALSE, redone |-> FALSE]
  <2>1. row \in PackageRow /\ row.version = v
    BY DEF PackageRow
  <2>2. v \in exposed \/ installed # v
    BY <1>1, AvailableMeans DEF RegisterPackage, VerifiedInv, InstalledVerified
  <2>3. Begin(p, "row", row, FALSE)
    BY <1>1 DEF RegisterPackage
  <2> HIDE DEF row
  <2> QED
    BY <2>1, <2>2, <2>3, BeginVerified
<1>2. CASE MarkVerified(p, v)
  <2> DEFINE row == [LatestRow(v) EXCEPT !.verified = TRUE]
  <2>1. LatestRow(v) \in PackageRow
    BY <1>2, LatestRowTyped DEF MarkVerified, VerifiedInv
  <2>2. row \in PackageRow /\ row.verified
    BY <2>1 DEF PackageRow
  <2>3. Begin(p, "row", row, FALSE)
    BY <1>2 DEF MarkVerified
  <2> HIDE DEF row
  <2> QED
    BY <2>2, <2>3, BeginVerified
<1>3. CASE InstallPackage(p, v)
  <2> DEFINE row == LatestRow(v)
  <2>1. AvailableIn(packages, v) /\ row \in PackageRow /\ row.version = v
    BY <1>3, AvailableMeans, LatestRowTyped DEF InstallPackage, VerifiedInv
  <2>2. Begin(p, "verify", row, TRUE)
    BY <1>3 DEF InstallPackage
  <2> HIDE DEF row
  <2> QED
    BY <2>1, <2>2, BeginVerified
<1>4. CASE UninstallPackage(p, v)
  <2> DEFINE row == [version |-> v]
  <2>1. row \in [version : Versions]
    OBVIOUS
  <2>2. Begin(p, "remove", row, TRUE)
    BY <1>4 DEF UninstallPackage
  <2> HIDE DEF row
  <2> QED
    BY <2>1, <2>2, BeginVerified
<1> QED
  BY <1>1, <1>2, <1>3, <1>4

\* A step that changes the place of a call, and perhaps what is installed.
LEMMA MoveVerified ==
  ASSUME VerifiedInv, NEW p \in Busy, NEW x \in Requests,
         request' = [request EXCEPT ![p] = x],
         UNCHANGED <<packages, exposed, blurred>>,
         IsTable(installs', InstallEntry),
         x.row.version = request[p].row.version,
         x.places \/ x.at = "row",
         x.at = "row" => x.row \in PackageRow,
         x.at \in {"verify", "copy"} => request[p].at \in {"verify", "copy"},
         \/ installed' = installed
         \/ installed' = "none"
         \/ installed' = request[p].row.version /\ request[p].at \in {"verify", "copy"},
         x.at = "reverse" \/ (x.at = "row" /\ ~ x.row.verified) =>
           x.row.version \in exposed \/ installed' # x.row.version
  PROVE  VerifiedInv'
<1>1. /\ request' \in [Clients -> {NoRequest} \cup Requests]
      /\ Busy' = Busy
      /\ request'[p] = x
      /\ \A q \in Busy : q # p => request'[q] = request[q]
  BY Moved DEF VerifiedInv
<1>2. request[p].row.version \in Versions
  BY BusyRequests DEF VerifiedInv
<1>3. PackageTypes'
  BY <1>1, <1>2 DEF VerifiedInv, PackageTypes
<1>4. \A q \in Busy : request'[q].row.version = request[q].row.version
  BY <1>1
<1>5. Unshared' /\ TailExposed'
  BY <1>1, <1>4 DEF VerifiedInv, Unshared, TailExposed
<1>6. InstallsVerified'
  BY <1>1, <1>4 DEF VerifiedInv, InstallsVerified
<1>7. InstalledVerified'
  BY PackageAssumption DEF VerifiedInv, InstalledVerified, InstallsVerified
<1>8. UnverifiedGone'
  <2> SUFFICES ASSUME NEW q \in Busy,
                      request'[q].at = "reverse" \/ (request'[q].at = "row" /\ ~ request'[q].row.verified),
                      request'[q].row.version \notin exposed
               PROVE  installed' # request'[q].row.version
    BY <1>1 DEF UnverifiedGone
  <2>1. CASE q = p
    BY <1>1, <2>1
  <2>2. CASE q # p
    <3>1. /\ request'[q] = request[q] /\ installed # request[q].row.version
          /\ request[q].row.version # request[p].row.version
          /\ request[q].row.version \in Versions
      BY <1>1, <2>2, BusyRequests DEF VerifiedInv, UnverifiedGone, Unshared
    <3> QED
      BY <3>1, PackageAssumption
  <2> QED
    BY <2>1, <2>2
<1> QED
  BY <1>3, <1>5, <1>6, <1>7, <1>8 DEF VerifiedInv

\* A return that changes no row of a package, and at most tears the directory.
LEMMA EndVerified ==
  ASSUME VerifiedInv, NEW p \in Busy, CallReturns(p),
         UNCHANGED packages,
         IsTable(installs', InstallEntry), blurred' \in BOOLEAN,
         exposed \subseteq exposed', exposed' \subseteq Versions,
         installed' \in {installed, "torn"}
  PROVE  VerifiedInv'
<1>1. /\ request' \in [Clients -> {NoRequest} \cup Requests]
      /\ Busy' = Busy \ {p}
      /\ \A q \in Busy' : request'[q] = request[q]
  BY Ended DEF VerifiedInv
<1>2. PackageTypes'
  BY <1>1 DEF VerifiedInv, PackageTypes
<1>3. Unshared' /\ TailExposed' /\ InstallsVerified'
  BY <1>1 DEF VerifiedInv, Unshared, TailExposed, InstallsVerified
<1>4. InstalledVerified'
  BY PackageAssumption DEF VerifiedInv, InstalledVerified
<1>5. UnverifiedGone'
  BY <1>1, BusyRequests, PackageAssumption DEF VerifiedInv, UnverifiedGone
<1> QED
  BY <1>2, <1>3, <1>4, <1>5 DEF VerifiedInv

\* A row of a package is written, or its call dies in it.
LEMMA RowVerified ==
  ASSUME VerifiedInv, NEW p \in Busy, request[p].at = "row",
         packages' \in PartialAppends(packages, request[p].row),
         packages' = AppendRow(packages, request[p].row) \/ request[p].row.version \in exposed',
         exposed \subseteq exposed', exposed' \subseteq Versions, blurred' \in BOOLEAN,
         UNCHANGED <<installs, installed>>,
         request' \in [Clients -> {NoRequest} \cup Requests], Busy' \subseteq Busy,
         \A q \in Busy' : IF q = p
                          THEN /\ request'[p].at = "record uninstall"
                               /\ request'[p].row = request[p].row /\ request'[p].places
                          ELSE request'[q] = request[q]
  PROVE  VerifiedInv'
<1> DEFINE row == request[p].row
<1>1. /\ IsTable(packages, PackageRow) /\ row \in PackageRow /\ row.version \in Versions
      /\ Garbled \notin PackageRow
  BY GarbledIsNoPackage DEF VerifiedInv, PackageTypes, PackageRow
<1>2. /\ IsTable(packages', PackageRow)
      /\ Same(packages, packages') \/ Added(packages, packages', row) \/ Lost(packages, packages')
  BY <1>1, CutShort
<1>3. PackageTypes'
  BY <1>2 DEF VerifiedInv, PackageTypes
<1>11. \A q \in Busy' : /\ q \in Busy /\ request'[q].row = request[q].row
                        /\ IF q = p THEN request'[q].at = "record uninstall"
                                    ELSE request'[q] = request[q]
  OBVIOUS
<1>4. Unshared'
  <2> SUFFICES ASSUME NEW q \in Busy', NEW s \in Busy', q # s,
                      request'[q].row.version = request'[s].row.version
               PROVE  request'[q].row.version \in exposed'
    BY DEF Unshared
  <2>1. q \in Busy /\ s \in Busy /\ request[q].row.version = request[s].row.version
    BY <1>11
  <2> QED
    BY <1>11, <2>1 DEF VerifiedInv, Unshared
<1> HIDE DEF row
<1>5. TailExposed'
  <2>1. packages' = packages \/ packages'.ended
        \/ packages'.lines[Len(packages'.lines)] \in {row, Garbled}
    BY <1>1, LineLeft DEF row
  <2>2. packages' = AppendRow(packages, row) => packages'.ended
    BY WholeAppend
  <2> QED
    BY <2>1, <2>2 DEF VerifiedInv, TailExposed, row
<1>6. ASSUME NEW v, v \notin exposed', Lost(packages, packages')
      PROVE  Len(packages.lines) \notin RowsIn(packages, v)
  <2> SUFFICES ASSUME Len(packages.lines) \in RowsIn(packages, v) PROVE FALSE
    OBVIOUS
  <2>1. packages.ended
    BY <1>6 DEF VerifiedInv, TailExposed, RowsIn, ReadRows
  <2>2. Same(packages, packages') \/ Added(packages, packages', row)
    BY <1>1, <2>1, NothingFinishedIsLost DEF row
  <2>3. Len(packages.lines) \in DOMAIN ReadRows(packages')
    BY <2>2 DEF Same, Added, RowsIn
  <2> QED
    BY <1>6, <2>3 DEF Lost
<1>7. ASSUME NEW v, v \notin exposed', v # row.version \/ row.verified,
             AvailableIn(packages, v)
      PROVE  AvailableIn(packages', v)
  <2>1. CASE Added(packages, packages', row) /\ v = row.version
    BY <1>1, <1>7, <2>1, OwnRowCounts
  <2>2. CASE ~ (Added(packages, packages', row) /\ v = row.version)
    <3>1. /\ Added(packages, packages', row) => v # row.version
          /\ Lost(packages, packages') => Len(packages.lines) \notin RowsIn(packages, v)
      BY <1>6, <1>7, <2>2
    <3> QED
      BY <1>1, <1>2, <1>7, <3>1, OthersUntouched
  <2> QED
    BY <2>1, <2>2
<1>8. InstalledVerified'
  <2>1. installed = row.version => row.verified \/ row.version \in exposed
    BY DEF VerifiedInv, UnverifiedGone, row
  <2> QED
    BY <1>7, <2>1 DEF VerifiedInv, InstalledVerified
<1>9. InstallsVerified'
  <2> SUFFICES ASSUME NEW q \in Busy', request'[q].at \in {"verify", "copy"},
                      request'[q].row.version \notin exposed'
               PROVE  AvailableIn(packages', request'[q].row.version)
    BY DEF InstallsVerified
  <2>1. q \in Busy /\ q # p /\ request'[q] = request[q]
    BY <1>11
  <2>2. request[q].row.version # row.version /\ AvailableIn(packages, request[q].row.version)
    BY <2>1 DEF VerifiedInv, Unshared, InstallsVerified, row
  <2> QED
    BY <1>7, <2>1, <2>2
<1>10. UnverifiedGone'
  BY <1>11 DEF VerifiedInv, UnverifiedGone
<1> QED
  BY <1>3, <1>4, <1>5, <1>8, <1>9, <1>10 DEF VerifiedInv

Relocated(p, place) == [request[p] EXCEPT !.at = place]

\* What is left of a request when a call goes on to another place.
LEMMA GoingTo ==
  ASSUME PackageTypes, NEW p \in Busy, NEW place \in Installing \cup Uninstalling, GoTo(p, place)
  PROVE  /\ request' = [request EXCEPT ![p] = Relocated(p, place)]
         /\ Relocated(p, place) \in Requests
         /\ Relocated(p, place).at = place
         /\ Relocated(p, place).row = request[p].row
         /\ Relocated(p, place).places = request[p].places
         /\ Relocated(p, place).alone = request[p].alone
<1>1. request[p] \in Requests
  BY BusyRequests
<1>2. /\ Relocated(p, place) \in Requests /\ Relocated(p, place).at = place
      /\ Relocated(p, place).row = request[p].row
      /\ Relocated(p, place).places = request[p].places
      /\ Relocated(p, place).alone = request[p].alone
  BY <1>1 DEF Requests, Relocated
<1>3. request' = [request EXCEPT ![p] = Relocated(p, place)]
  BY DEF GoTo, Relocated
<1> QED
  BY <1>2, <1>3

\* A client whose request names a place is at work.
LEMMA AtWork ==
  ASSUME NEW p \in Clients, request[p].at \in Installing \cup Uninstalling
  PROVE  p \in Busy
<1>1. NoRequest.at = "idle"
  BY DEF NoRequest
<1> QED
  BY <1>1 DEF Busy, Installing, Uninstalling

\* What an install or an uninstall records is an entry of its table.
LEMMA InstallRows ==
  ASSUME VerifiedInv, NEW p \in Busy
  PROVE  InstallRow(p) \in InstallEntry /\ Garbled \notin InstallEntry /\ IsTable(installs, InstallEntry)
BY BusyRequests, GarbledIsNoPackage DEF InstallRow, InstallEntry, VerifiedInv, PackageTypes

\* The steps on the directory keep the invariant.
LEMMA MovesVerified ==
  ASSUME VerifiedInv, NEW p \in Clients,
         VerifyPackage(p) \/ CopyManifest(p) \/ RemoveDirectory(p) \/ ReverseVerified(p)
  PROVE  VerifiedInv'
<1>1. p \in Busy
  BY AtWork DEF VerifyPackage, CopyManifest, RemoveDirectory, ReverseVerified, Installing, Uninstalling
<1>2. PackageTypes /\ request[p] \in Requests /\ (request[p].places \/ request[p].at = "row")
      /\ IsTable(installs, InstallEntry) /\ exposed \subseteq Versions /\ blurred \in BOOLEAN
  BY <1>1, BusyRequests DEF VerifiedInv, PackageTypes
<1>3. CASE VerifyPackage(p) /\ CallReturns(p)
  <2>1. UNCHANGED <<packages, installs, installed, exposed, blurred>>
    BY <1>3 DEF VerifyPackage
  <2> QED
    BY <1>1, <1>2, <1>3, <2>1, EndVerified
<1>4. CASE VerifyPackage(p) /\ GoTo(p, "copy")
  <2> DEFINE x == Relocated(p, "copy")
  <2>1. /\ x \in Requests /\ request' = [request EXCEPT ![p] = x]
        /\ x.at = "copy" /\ x.row = request[p].row /\ x.places = request[p].places
    BY <1>1, <1>2, <1>4, GoingTo DEF Installing
  <2>2. /\ UNCHANGED <<packages, installs, installed, exposed, blurred>>
        /\ request[p].at = "verify"
    BY <1>4 DEF VerifyPackage
  <2> QED
    BY <1>1, <1>2, <2>1, <2>2, MoveVerified
<1>5. CASE CopyManifest(p)
  <2> DEFINE x == Relocated(p, "record install")
  <2>1. /\ x \in Requests /\ request' = [request EXCEPT ![p] = x]
        /\ x.at = "record install" /\ x.row = request[p].row /\ x.places = request[p].places
    BY <1>1, <1>2, <1>5, GoingTo DEF Installing, CopyManifest
  <2>2. /\ UNCHANGED <<packages, installs, exposed, blurred>>
        /\ request[p].at = "copy" /\ installed' = request[p].row.version
    BY <1>5 DEF CopyManifest
  <2> QED
    BY <1>1, <1>2, <2>1, <2>2, MoveVerified
<1>6. CASE RemoveDirectory(p)
  <2> DEFINE x == Relocated(p, "reverse")
  <2>1. /\ x \in Requests /\ request' = [request EXCEPT ![p] = x]
        /\ x.at = "reverse" /\ x.row = request[p].row /\ x.places = request[p].places
    BY <1>1, <1>2, <1>6, GoingTo DEF Uninstalling, RemoveDirectory
  <2>2. /\ UNCHANGED <<packages, installs, exposed, blurred>>
        /\ request[p].at = "remove" /\ installed' = "none"
    BY <1>6 DEF RemoveDirectory, RemovedDirectory
  <2>3. request[p].row.version # "none"
    BY <1>1, <1>2, BusyRequests, PackageAssumption
  <2> QED
    BY <1>1, <1>2, <2>1, <2>2, <2>3, MoveVerified
<1>7. CASE ReverseVerified(p)
  <2> DEFINE v == request[p].row.version
             x == IF Available(v)
                  THEN [request[p] EXCEPT !.at = "row",
                          !.row = [version |-> v, verified |-> FALSE, redone |-> TRUE]]
                  ELSE [request[p] EXCEPT !.at = "record uninstall"]
  <2>1. /\ UNCHANGED <<packages, installs, installed, exposed, blurred>>
        /\ request[p].at = "reverse" /\ request' = [request EXCEPT ![p] = x]
    BY <1>7 DEF ReverseVerified
  <2>2. v \in Versions /\ (v \in exposed \/ installed # v)
    BY <1>1, <1>2, <2>1, BusyRequests DEF VerifiedInv, UnverifiedGone
  <2>3. /\ x \in Requests /\ x.row.version = v /\ x.places = request[p].places
        /\ x.at \in {"row", "record uninstall"}
        /\ x.at = "row" => x.row \in PackageRow
    BY <1>2, <2>2 DEF Requests, PackageRow, Uninstalling
  <2> HIDE DEF x
  <2> QED
    BY <1>1, <1>2, <2>1, <2>2, <2>3, MoveVerified
<1> QED
  BY <1>3, <1>4, <1>5, <1>6, <1>7 DEF VerifyPackage

\* The steps that append a row keep it.
LEMMA AppendsVerified ==
  ASSUME VerifiedInv, NEW p \in Clients, AppendPackageRow(p) \/ AppendInstallRow(p)
  PROVE  VerifiedInv'
<1>1. p \in Busy
  BY AtWork DEF AppendPackageRow, AppendInstallRow, Recording, Installing, Uninstalling
<1>2. PackageTypes /\ IsTable(installs, InstallEntry) /\ exposed \subseteq Versions /\ blurred \in BOOLEAN
  BY DEF VerifiedInv, PackageTypes
<1>3. CASE AppendPackageRow(p)
  <2>1. /\ request[p].at = "row"
        /\ packages' = AppendRow(packages, request[p].row)
        /\ packages' \in PartialAppends(packages, request[p].row)
        /\ UNCHANGED <<installs, installed, exposed, blurred>>
    BY <1>3, WholeAppend DEF AppendPackageRow
  <2>2. CASE request[p].places
    <3> DEFINE x == Relocated(p, "record uninstall")
    <3>1. /\ x \in Requests /\ request' = [request EXCEPT ![p] = x]
          /\ x.at = "record uninstall" /\ x.row = request[p].row /\ x.places = request[p].places
      BY <1>1, <1>2, <1>3, <2>2, GoingTo DEF Uninstalling, AppendPackageRow
    <3>2. /\ request' \in [Clients -> {NoRequest} \cup Requests]
          /\ Busy' = Busy /\ request'[p] = x
          /\ \A q \in Busy : q # p => request'[q] = request[q]
      BY <1>1, <1>2, <3>1, Moved
    <3> QED
      BY <1>1, <1>2, <2>1, <2>2, <3>1, <3>2, RowVerified
  <2>3. CASE ~ request[p].places
    <3>1. /\ request' \in [Clients -> {NoRequest} \cup Requests]
          /\ Busy' = Busy \ {p}
          /\ \A q \in Busy' : request'[q] = request[q]
      BY <1>1, <1>2, <1>3, <2>3, Ended DEF AppendPackageRow
    <3> QED
      BY <1>1, <1>2, <2>1, <3>1, RowVerified
  <2> QED
    BY <2>2, <2>3
<1>4. CASE AppendInstallRow(p)
  <2>1. IsTable(installs', InstallEntry)
    BY <1>1, <1>4, InstallRows, Appended DEF AppendInstallRow
  <2>2. CallReturns(p) /\ UNCHANGED <<packages, installed, exposed>> /\ blurred' \in BOOLEAN
    BY <1>4 DEF AppendInstallRow
  <2> QED
    BY <1>1, <1>2, <2>1, <2>2, EndVerified
<1> QED
  BY <1>3, <1>4

\* A death anywhere keeps it.
LEMMA CrashVerified ==
  ASSUME VerifiedInv, NEW p \in Clients, Crash(p)
  PROVE  VerifiedInv'
<1>1. p \in Busy /\ CallReturns(p)
  BY DEF Crash, Busy
<1>2. PackageTypes /\ IsTable(installs, InstallEntry) /\ request[p].row.version \in Versions
  BY <1>1, BusyRequests DEF VerifiedInv, PackageTypes
<1>3. /\ exposed \subseteq exposed' /\ exposed' \subseteq Versions
      /\ request[p].row.version \in exposed' /\ blurred' \in BOOLEAN
  BY <1>2 DEF Crash, PackageTypes
<1>4. CASE request[p].at = "row"
  <2>1. /\ packages' \in PartialAppends(packages, request[p].row)
        /\ UNCHANGED <<installs, installed>>
    BY <1>4 DEF Crash, Recording
  <2>2. /\ request' \in [Clients -> {NoRequest} \cup Requests]
        /\ Busy' = Busy \ {p}
        /\ \A q \in Busy' : request'[q] = request[q]
    BY <1>1, <1>2, Ended
  <2> QED
    BY <1>1, <1>3, <1>4, <2>1, <2>2, RowVerified
<1>5. CASE request[p].at # "row"
  <2>1. packages' = packages /\ installed' \in {installed, "torn"}
    BY <1>5 DEF Crash
  <2>2. IsTable(installs', InstallEntry)
    BY <1>1, <1>2, InstallRows, CutShort DEF Crash
  <2> QED
    BY <1>1, <1>3, <2>1, <2>2, EndVerified
<1> QED
  BY <1>4, <1>5

\* Every step keeps the invariant.
LEMMA NextVerifiedInv == VerifiedInv /\ [PNext]_pvars => VerifiedInv'
<1> SUFFICES ASSUME VerifiedInv, [PNext]_pvars PROVE VerifiedInv'
  OBVIOUS
<1>1. CASE UNCHANGED pvars
  BY <1>1 DEF pvars, VerifiedInv, PackageTypes, Busy, Unshared, TailExposed, InstalledVerified,
              InstallsVerified, UnverifiedGone
<1>2. ASSUME NEW p \in Clients, NEW v \in Versions,
             \/ RegisterPackage(p, v) \/ MarkVerified(p, v)
             \/ InstallPackage(p, v) \/ UninstallPackage(p, v)
      PROVE  VerifiedInv'
  BY <1>2, BeginsVerified
<1>3. ASSUME NEW p \in Clients,
             VerifyPackage(p) \/ CopyManifest(p) \/ RemoveDirectory(p) \/ ReverseVerified(p)
      PROVE  VerifiedInv'
  BY <1>3, MovesVerified
<1>4. ASSUME NEW p \in Clients, AppendPackageRow(p) \/ AppendInstallRow(p) PROVE VerifiedInv'
  BY <1>4, AppendsVerified
<1>5. ASSUME NEW p \in Clients, Crash(p) PROVE VerifiedInv'
  BY <1>5, CrashVerified
<1> QED
  BY <1>1, <1>2, <1>3, <1>4, <1>5 DEF PNext

\* The invariant holds in every state.
LEMMA VerifiedInvHolds == PSpec => []VerifiedInv
BY InitVerifiedInv, NextVerifiedInv, PTL DEF PSpec

\* The directory of a package never holds a version that is not verified, unless
\* calls about that version overlapped or one of them died, though any uninstall
\* takes the directory of all versions (src/core/packages-l7.mjs:5-9).
THEOREM InstalledAreVerified == PSpec => []InstalledStaysVerified
<1>1. VerifiedInv => InstalledStaysVerified
  BY AvailableMeans DEF VerifiedInv, InstalledVerified, InstalledStaysVerified
<1> QED
  BY <1>1, VerifiedInvHolds, PTL

-----------------------------------------------------------------------------
\* Calls alone and the last install row.
LEMMA InitPlacedInv == PInit => PlacedInv
<1> SUFFICES ASSUME PInit PROVE PlacedInv
  OBVIOUS
<1>1. Placing = {}
  BY DEF PInit, Placing, Busy
<1>2. DOMAIN ReadRows(EmptyTable) = {} /\ EmptyTable.ended
  BY DEF ReadRows, EmptyTable
<1>3. LastOf(ReadRows(EmptyTable), DOMAIN ReadRows(EmptyTable)) = {}
  BY <1>2 DEF LastOf
<1>4. TellsOf(EmptyTable, "none")
  BY <1>3 DEF TellsOf
<1> QED
  BY <1>1, <1>2, <1>4 DEF PInit, PlacedInv, AloneInOrder, Clear

\* Calls that place nothing come and go unnoticed.
LEMMA OthersPlaced ==
  ASSUME PlacedInv, UNCHANGED <<installs, installed, blurred>>, Placing' = Placing,
         \A q \in Placing : /\ request'[q].at = request[q].at
                            /\ request'[q].row = request[q].row
                            /\ request'[q].alone <=> request[q].alone
  PROVE  PlacedInv'
<1>1. AloneInOrder'
  BY DEF PlacedInv, AloneInOrder
<1>2. Clear'
  BY DEF PlacedInv, Clear
<1> QED
  BY <1>1, <1>2 DEF PlacedInv

\* Where a version is placed and recorded survives the beginning of a call.
LEMMA BeginsPlaced ==
  ASSUME VerifiedInv, PlacedInv, NEW p \in Clients, NEW v \in Versions,
         \/ RegisterPackage(p, v) \/ MarkVerified(p, v)
         \/ InstallPackage(p, v) \/ UninstallPackage(p, v)
  PROVE  PlacedInv'
<1>1. PICK place \in {"row", "verify", "remove"}, row \in PackageRow \cup [version : Versions],
           places \in BOOLEAN :
        Begin(p, place, row, places) /\ (places <=> place # "row")
  <2>1. CASE RegisterPackage(p, v)
    <3> DEFINE row == [version |-> v, verified |-> FALSE, redone |-> FALSE]
    <3>1. row \in PackageRow /\ Begin(p, "row", row, FALSE)
      BY <2>1 DEF RegisterPackage, PackageRow
    <3> HIDE DEF row
    <3> QED
      BY <3>1
  <2>2. CASE MarkVerified(p, v)
    <3> DEFINE row == [LatestRow(v) EXCEPT !.verified = TRUE]
    <3>1. row \in PackageRow
      BY <2>2, LatestRowTyped DEF MarkVerified, VerifiedInv, PackageRow
    <3>2. Begin(p, "row", row, FALSE)
      BY <2>2 DEF MarkVerified
    <3> HIDE DEF row
    <3> QED
      BY <3>1, <3>2
  <2>3. CASE InstallPackage(p, v)
    <3>1. LatestRow(v) \in PackageRow /\ Begin(p, "verify", LatestRow(v), TRUE)
      BY <2>3, LatestRowTyped DEF InstallPackage, MayInstall, VerifiedInv
    <3> QED
      BY <3>1
  <2>4. CASE UninstallPackage(p, v)
    <3> DEFINE row == [version |-> v]
    <3>1. row \in [version : Versions] /\ Begin(p, "remove", row, TRUE)
      BY <2>4 DEF UninstallPackage
    <3> HIDE DEF row
    <3> QED
      BY <3>1
  <2> QED
    BY <2>1, <2>2, <2>3, <2>4
<1>2. /\ p \notin Busy /\ Busy' = Busy \cup {p}
      /\ request'[p].at = place
      /\ request'[p].places <=> places
      /\ request'[p].alone <=> Placing = {}
      /\ \A q \in Busy : /\ request'[q].at = request[q].at
                         /\ request'[q].row = request[q].row
                         /\ request'[q].places <=> request[q].places
                         /\ request'[q].alone <=> request[q].alone /\ ~ (places /\ q \in Placing)
  <2>1. place \in Installing \cup Uninstalling /\ PackageTypes
    BY DEF VerifiedInv, Installing, Uninstalling
  <2> QED
    BY <1>1, <2>1, Begun, SMTT(60)
<1>3. UNCHANGED <<installs, installed>> /\ (blurred' <=> blurred \/ (places /\ Placing # {}))
  BY <1>1 DEF Begin
<1>4. blurred \in BOOLEAN
  BY DEF VerifiedInv, PackageTypes
<1>5. CASE ~ places
  <2>1. Placing' = Placing /\ blurred' = blurred
    <3>1. Placing' = Placing
      BY <1>2, <1>5 DEF Placing
    <3>2. blurred' = blurred
      BY <1>1, <1>5, <1>4 DEF Begin
    <3> QED
      BY <3>1, <3>2
  <2>2. \A q \in Placing : q \in Busy
    BY DEF Placing
  <2> QED
    BY <1>2, <1>3, <1>5, <2>1, <2>2, OthersPlaced
<1>6. CASE places
  <2>1. Placing' = Placing \cup {p} /\ p \notin Placing
    BY <1>2, <1>6 DEF Placing
  <2>2. \A q \in Placing : q \in Busy /\ ~ request'[q].alone
    BY <1>2, <1>6 DEF Placing
  <2>3. place \in {"verify", "remove"}
    BY <1>1, <1>6
  <2>4. AloneInOrder'
    BY <1>2, <2>1, <2>2, <2>3 DEF AloneInOrder, Emptied
  <2>5. Clear'
    <3> SUFFICES ASSUME ~ blurred' PROVE Clear'
      BY DEF Clear
    <3>1. ~ blurred /\ Placing = {}
      BY <1>3, <1>6
    <3>2. installs.ended /\ TellsOf(installs, installed)
      BY <3>1 DEF PlacedInv, Clear
    <3> QED
      BY <1>2, <1>3, <2>1, <3>1, <3>2 DEF Clear
  <2> QED
    BY <2>4, <2>5 DEF PlacedInv
<1> QED
  BY <1>5, <1>6

\* A step of an install or uninstall that writes no install row.
LEMMA MovePlaced ==
  ASSUME VerifiedInv, PlacedInv, NEW p \in Placing, NEW x \in Requests,
         request' = [request EXCEPT ![p] = x],
         UNCHANGED <<installs, blurred>>,
         x.places, x.alone <=> request[p].alone,
         \/ x.at \in {"verify", "copy"} /\ request[p].at \in {"verify", "copy"}
            /\ installed' = installed
         \/ x.at = "record install" /\ installed' = x.row.version
         \/ x.at \in Emptied /\ installed' = "none"
         \/ x.at \in Emptied /\ request[p].at \in Emptied /\ installed' = installed
  PROVE  PlacedInv'
<1>1. /\ Busy' = Busy
      /\ request'[p] = x /\ p \in Busy
      /\ \A q \in Busy : q # p => request'[q] = request[q]
  BY Moved DEF VerifiedInv, Placing
<1>2. Placing' = Placing /\ \A q \in Placing : q \in Busy
  BY <1>1 DEF Placing
<1>3. ASSUME NEW q \in Placing, request'[q].alone PROVE q = p /\ Placing = {p} /\ request[p].alone
  <2>1. request[q].alone
    BY <1>1, <1>2, <1>3
  <2>2. Placing = {q}
    BY <2>1 DEF PlacedInv, AloneInOrder
  <2> QED
    BY <2>1, <2>2
<1>4. AloneInOrder'
  <2>1. request[p].alone => (request[p].at \in Emptied => installed = "none")
    BY DEF PlacedInv, AloneInOrder
  <2> QED
    BY <1>1, <1>2, <1>3, <2>1 DEF AloneInOrder, Emptied
<1>5. Clear'
  <2> SUFFICES ASSUME ~ blurred' PROVE Clear'
    BY DEF Clear
  <2>1. /\ installs.ended /\ \A q \in Placing : request[q].alone
        /\ \/ TellsOf(installs, installed)
           \/ \E q \in Placing : request[q].at \in Emptied \cup {"record install"}
    BY DEF PlacedInv, Clear
  <2>2. \A q \in Placing : request'[q].alone
    BY <1>1, <1>2, <2>1
  <2>3. \A q \in Placing : q = p
    BY <1>3, <2>2
  <2>4. \/ TellsOf(installs, installed')
        \/ \E q \in Placing : request'[q].at \in Emptied \cup {"record install"}
    BY <1>1, <2>1, <2>3 DEF Emptied
  <2> QED
    BY <1>2, <2>1, <2>2, <2>4 DEF Clear
<1> QED
  BY <1>4, <1>5 DEF PlacedInv

\* An install or uninstall that returns or dies leaves none that is alone.
LEMMA EndPlaced ==
  ASSUME VerifiedInv, PlacedInv, NEW p \in Placing, CallReturns(p),
         ~ blurred' => request[p].alone /\ installs'.ended /\ TellsOf(installs', installed')
  PROVE  PlacedInv'
<1>1. /\ Busy' = Busy \ {p} /\ p \in Busy
      /\ \A q \in Busy' : request'[q] = request[q]
  BY Ended DEF VerifiedInv, Placing
<1>2. Placing' = Placing \ {p} /\ \A q \in Placing' : q # p /\ request'[q] = request[q]
  BY <1>1 DEF Placing
<1>3. AloneInOrder'
  BY <1>2 DEF PlacedInv, AloneInOrder
<1>4. Clear'
  <2>1. request[p].alone => Placing' = {}
    BY <1>2 DEF PlacedInv, AloneInOrder
  <2> QED
    BY <2>1 DEF Clear
<1> QED
  BY <1>3, <1>4 DEF PlacedInv

\* A call at work places a version unless it only writes a row.
LEMMA PlacingCalls ==
  ASSUME VerifiedInv, NEW p \in Clients, request[p].at \in Installing \cup Uninstalling
  PROVE  /\ p \in Busy
         /\ p \in Placing <=> request[p].places
         /\ request[p].at # "row" => p \in Placing
BY AtWork DEF VerifiedInv, PackageTypes, Placing

\* The steps on the directory keep the invariant of places.
LEMMA MovesPlaced ==
  ASSUME VerifiedInv, PlacedInv, NEW p \in Clients,
         VerifyPackage(p) \/ CopyManifest(p) \/ RemoveDirectory(p) \/ ReverseVerified(p)
  PROVE  PlacedInv'
<1>1. p \in Placing /\ request[p].places /\ p \in Busy
  BY PlacingCalls DEF VerifyPackage, CopyManifest, RemoveDirectory, ReverseVerified,
                      Installing, Uninstalling
<1>2. PackageTypes /\ request[p] \in Requests
  BY <1>1, BusyRequests DEF VerifiedInv
<1>3. CASE VerifyPackage(p) /\ CallReturns(p)
  <2>1. /\ UNCHANGED <<installs, installed, blurred>>
        /\ request[p].at = "verify"
    BY <1>3 DEF VerifyPackage
  <2>2. ASSUME ~ blurred
        PROVE  request[p].alone /\ installs.ended /\ TellsOf(installs, installed)
    <3>1. /\ installs.ended /\ request[p].alone
          /\ \/ TellsOf(installs, installed)
             \/ \E q \in Placing : request[q].at \in Emptied \cup {"record install"}
      BY <1>1, <2>2 DEF PlacedInv, Clear
    <3>2. Placing = {p}
      BY <1>1, <3>1 DEF PlacedInv, AloneInOrder
    <3> QED
      BY <2>1, <3>1, <3>2 DEF Emptied
  <2> QED
    BY <1>1, <1>3, <2>1, <2>2, EndPlaced
<1>4. CASE VerifyPackage(p) /\ GoTo(p, "copy")
  <2> DEFINE x == Relocated(p, "copy")
  <2>1. /\ x \in Requests /\ request' = [request EXCEPT ![p] = x]
        /\ x.at = "copy" /\ x.places = request[p].places /\ x.alone = request[p].alone
    BY <1>1, <1>2, <1>4, GoingTo DEF Installing
  <2>2. UNCHANGED <<installs, installed, blurred>> /\ request[p].at = "verify"
    BY <1>4 DEF VerifyPackage
  <2> HIDE DEF x
  <2> QED
    BY <1>1, <2>1, <2>2, MovePlaced
<1>5. CASE CopyManifest(p)
  <2> DEFINE x == Relocated(p, "record install")
  <2>1. /\ x \in Requests /\ request' = [request EXCEPT ![p] = x] /\ x.row = request[p].row
        /\ x.at = "record install" /\ x.places = request[p].places /\ x.alone = request[p].alone
    BY <1>1, <1>2, <1>5, GoingTo DEF Installing, CopyManifest
  <2>2. UNCHANGED <<installs, blurred>> /\ installed' = request[p].row.version
    BY <1>5 DEF CopyManifest
  <2> HIDE DEF x
  <2> QED
    BY <1>1, <2>1, <2>2, MovePlaced
<1>6. CASE RemoveDirectory(p)
  <2> DEFINE x == Relocated(p, "reverse")
  <2>1. /\ x \in Requests /\ request' = [request EXCEPT ![p] = x]
        /\ x.at = "reverse" /\ x.places = request[p].places /\ x.alone = request[p].alone
    BY <1>1, <1>2, <1>6, GoingTo DEF Uninstalling, RemoveDirectory
  <2>2. UNCHANGED <<installs, blurred>> /\ installed' = "none"
    BY <1>6 DEF RemoveDirectory, RemovedDirectory
  <2>3. x.at \in Emptied
    BY <2>1 DEF Emptied
  <2> HIDE DEF x
  <2> QED
    BY <1>1, <2>1, <2>2, <2>3, MovePlaced
<1>7. CASE ReverseVerified(p)
  <2> DEFINE v == request[p].row.version
             x == IF Available(v)
                  THEN [request[p] EXCEPT !.at = "row",
                          !.row = [version |-> v, verified |-> FALSE, redone |-> TRUE]]
                  ELSE [request[p] EXCEPT !.at = "record uninstall"]
  <2>1. /\ UNCHANGED <<installs, installed, blurred>>
        /\ request[p].at = "reverse" /\ request' = [request EXCEPT ![p] = x]
    BY <1>7 DEF ReverseVerified
  <2>2. v \in Versions
    BY <1>1, <1>2, BusyRequests
  <2>3. /\ x \in Requests /\ x.places = request[p].places /\ x.alone = request[p].alone
        /\ x.at \in Emptied
    BY <1>2, <2>2 DEF Requests, PackageRow, Uninstalling, Emptied
  <2>4. request[p].at \in Emptied
    BY <2>1 DEF Emptied
  <2> HIDE DEF x
  <2> QED
    BY <1>1, <2>1, <2>3, <2>4, MovePlaced
<1> QED
  BY <1>3, <1>4, <1>5, <1>6, <1>7 DEF VerifyPackage

\* A call that places nothing returns or dies.
LEMMA LeavePlaced ==
  ASSUME VerifiedInv, PlacedInv, NEW p \in Busy, ~ request[p].places, CallReturns(p),
         UNCHANGED <<installs, installed, blurred>>
  PROVE  PlacedInv'
<1>1. /\ Busy' = Busy \ {p}
      /\ \A q \in Busy' : request'[q] = request[q]
  BY Ended DEF VerifiedInv
<1>2. Placing' = Placing /\ \A q \in Placing : request'[q] = request[q]
  BY <1>1 DEF Placing
<1> QED
  BY <1>2, OthersPlaced

\* The steps that append a row keep it.
LEMMA AppendsPlaced ==
  ASSUME VerifiedInv, PlacedInv, NEW p \in Clients, AppendPackageRow(p) \/ AppendInstallRow(p)
  PROVE  PlacedInv'
<1>1. /\ p \in Busy
      /\ p \in Placing <=> request[p].places
      /\ request[p].at # "row" => p \in Placing
  BY PlacingCalls DEF AppendPackageRow, AppendInstallRow, Recording, Installing, Uninstalling
<1>2. PackageTypes
  BY DEF VerifiedInv
<1>3. CASE AppendPackageRow(p) /\ ~ request[p].places
  BY <1>1, <1>3, LeavePlaced DEF AppendPackageRow
<1>4. CASE AppendPackageRow(p) /\ request[p].places
  <2> DEFINE x == Relocated(p, "record uninstall")
  <2>1. /\ x \in Requests /\ request' = [request EXCEPT ![p] = x]
        /\ x.at = "record uninstall" /\ x.places = request[p].places /\ x.alone = request[p].alone
    BY <1>1, <1>2, <1>4, GoingTo DEF Uninstalling, AppendPackageRow
  <2>2. UNCHANGED <<installs, installed, blurred>> /\ request[p].at = "row"
    BY <1>4 DEF AppendPackageRow
  <2>3. x.at \in Emptied /\ request[p].at \in Emptied
    BY <2>1, <2>2 DEF Emptied
  <2> HIDE DEF x
  <2> QED
    BY <1>1, <1>4, <2>1, <2>2, <2>3, MovePlaced
<1>5. CASE AppendInstallRow(p)
  <2>1. /\ request[p].at \in Recording /\ p \in Placing
        /\ installs' = AppendRow(installs, InstallRow(p))
        /\ CallReturns(p) /\ installed' = installed
        /\ ~ blurred' => ~ blurred \/ (installs.ended /\ request[p].alone)
    BY <1>1, <1>5 DEF AppendInstallRow, Recording
  <2>2. ASSUME ~ blurred'
        PROVE  request[p].alone /\ installs'.ended /\ TellsOf(installs', installed')
    <3>1. installs.ended /\ request[p].alone
      BY <2>1, <2>2 DEF PlacedInv, Clear
    <3>2. /\ request[p].at = "record install" => installed = request[p].row.version
          /\ request[p].at = "record uninstall" => installed = "none"
      BY <2>1, <3>1 DEF PlacedInv, AloneInOrder, Emptied
    <3>3. /\ InstallRow(p) \in InstallEntry /\ Garbled \notin InstallEntry
          /\ IsTable(installs, InstallEntry)
          /\ IF InstallRow(p).installed THEN installed = InstallRow(p).version ELSE installed = "none"
      <4>1. IF InstallRow(p).installed THEN installed = InstallRow(p).version ELSE installed = "none"
        BY <2>1, <3>2 DEF InstallRow, Recording
      <4> QED
        BY <1>1, <4>1, InstallRows
    <3>4. installs'.ended
      BY <2>1, WholeAppend
    <3>6. Added(installs, installs', InstallRow(p))
      BY <2>1, <3>1, <3>3, FinishedTable
    <3>7. TellsOf(installs', installed)
      BY <3>3, <3>6, NewRowTells
    <3> QED
      BY <2>1, <3>1, <3>4, <3>7
  <2> QED
    BY <2>1, <2>2, EndPlaced
<1> QED
  BY <1>3, <1>4, <1>5

\* A death anywhere keeps it.
LEMMA CrashPlaced ==
  ASSUME VerifiedInv, PlacedInv, NEW p \in Clients, Crash(p)
  PROVE  PlacedInv'
<1>1. p \in Busy /\ CallReturns(p) /\ blurred \in BOOLEAN
  BY DEF Crash, Busy, VerifiedInv, PackageTypes
<1>2. CASE request[p].places
  BY <1>1, <1>2, EndPlaced DEF Crash, Placing
<1>3. CASE ~ request[p].places
  <2>1. request[p].at = "row"
    BY <1>1, <1>3 DEF VerifiedInv, PackageTypes
  <2>2. UNCHANGED <<installs, installed>>
    BY <2>1 DEF Crash, Recording
  <2>3. blurred' = blurred
    BY <1>1, <1>3 DEF Crash
  <2> QED
    BY <1>1, <1>3, <2>2, <2>3, LeavePlaced
<1> QED
  BY <1>2, <1>3

\* Every step keeps the invariant.
LEMMA NextPlacedInv == VerifiedInv /\ PlacedInv /\ [PNext]_pvars => PlacedInv'
<1> SUFFICES ASSUME VerifiedInv, PlacedInv, [PNext]_pvars PROVE PlacedInv'
  OBVIOUS
<1>1. CASE UNCHANGED pvars
  BY <1>1, OthersPlaced DEF pvars, Placing, Busy
<1>2. ASSUME NEW p \in Clients, NEW v \in Versions,
             \/ RegisterPackage(p, v) \/ MarkVerified(p, v)
             \/ InstallPackage(p, v) \/ UninstallPackage(p, v)
      PROVE  PlacedInv'
  BY <1>2, BeginsPlaced
<1>3. ASSUME NEW p \in Clients,
             VerifyPackage(p) \/ CopyManifest(p) \/ RemoveDirectory(p) \/ ReverseVerified(p)
      PROVE  PlacedInv'
  BY <1>3, MovesPlaced
<1>4. ASSUME NEW p \in Clients, AppendPackageRow(p) \/ AppendInstallRow(p) PROVE PlacedInv'
  BY <1>4, AppendsPlaced
<1>5. ASSUME NEW p \in Clients, Crash(p) PROVE PlacedInv'
  BY <1>5, CrashPlaced
<1> QED
  BY <1>1, <1>2, <1>3, <1>4, <1>5 DEF PNext

\* The invariant holds in every state.
LEMMA PlacedInvHolds == PSpec => []PlacedInv
BY InitPlacedInv, NextPlacedInv, VerifiedInvHolds, PTL DEF PSpec

\* When no install or uninstall is at work, the last row of package_install says
\* what the directory of the package holds, once one has run alone since the last
\* that overlapped another or died (src/core/packages-l7.mjs, installPackage and
\* uninstallPackage, which write the row after they changed the directory).
THEOREM LastInstallRowTells == PSpec => []LastRowTells
<1>1. PlacedInv => LastRowTells
  BY DEF PlacedInv, Clear, TellsOf, LastRowTells
<1> QED
  BY <1>1, PlacedInvHolds, PTL

-----------------------------------------------------------------------------
(* Project memory *)

MemoryRow == [type : Types, source : Names \cup Types, content : Bodies]

\* What the rows rs answer to a query for a key.
Serves(rs, key, content) ==
  \E i \in DOMAIN rs :
    /\ HasKey(rs[i], key) /\ rs[i].content = content
    /\ \A j \in DOMAIN rs : HasKey(rs[j], key) => j <= i

\* The keys whose last save they do not answer.
Forgotten(rs) == {key \in Keys : \E content \in kept[key] : ~ Serves(rs, key, content)}

TornFiles == {c \in Bodies : files[c] = "torn"}

MemoryTypes ==
  /\ IsTable(memory, MemoryRow)
  /\ files \in [Bodies -> {"none", "torn", "whole"}]
  /\ kept \in [Keys -> SUBSET Bodies]
  /\ losses \in Nat

\* Every death forgot one save, or will when the unfinished line it left meets the next.
Remembered ==
  /\ IsFiniteSet(Forgotten(Solid(memory)))
  /\ Cardinality(Forgotten(Solid(memory))) + (IF memory.ended THEN 0 ELSE 1) <= losses

\* ... or tore one file; a row is written after its file.
FilesThere ==
  /\ IsFiniteSet(TornFiles) /\ Cardinality(TornFiles) <= losses
  /\ \A i \in DOMAIN ReadRows(memory) : files[ReadRows(memory)[i].content] # "none"

MemoryInv == MemoryTypes /\ Remembered /\ FilesThere

\* A garbled line is no memory row.
LEMMA GarbledIsNoMemory == Garbled \notin MemoryRow
<1>1. "garbled" \in DOMAIN Garbled
  BY DEF Garbled
<1>2. \A r \in MemoryRow : "garbled" \notin DOMAIN r
  BY DEF MemoryRow
<1> QED
  BY <1>1, <1>2

\* A row more answers for its key, and changes nothing for the others.
LEMMA NewRowServes ==
  ASSUME NEW t, IsTable(t, MemoryRow), NEW r \in MemoryRow, NEW u, Added(t, u, r),
         NEW key \in Keys, NEW content
  PROVE  IF key = <<r.type, r.source>>
           THEN Serves(ReadRows(u), key, r.content)
           ELSE Serves(ReadRows(t), key, content) => Serves(ReadRows(u), key, content)
<1> DEFINE rt == ReadRows(t)
           ru == ReadRows(u)
           n  == Len(t.lines)
<1>1. DOMAIN rt \subseteq 1 .. n /\ n \in Nat
  BY RowsRead
<1>2. /\ DOMAIN ru = DOMAIN rt \cup {n + 1} /\ ru[n + 1] = r
      /\ \A i \in DOMAIN rt : ru[i] = rt[i]
  BY DEF Added
<1>3. HasKey(r, key) <=> key = <<r.type, r.source>>
  BY DEF HasKey, Keys
<1> HIDE DEF rt, ru, n
<1>4. CASE key = <<r.type, r.source>>
  BY <1>1, <1>2, <1>3, <1>4 DEF Serves, ru
<1>5. CASE key # <<r.type, r.source>>
  BY <1>1, <1>2, <1>3, <1>5 DEF Serves, ru, rt
<1> QED
  BY <1>4, <1>5

\* The invariant holds at first.
LEMMA InitMemoryInv == MInit => MemoryInv
<1> SUFFICES ASSUME MInit PROVE MemoryInv
  OBVIOUS
<1>1. MemoryTypes
  BY DEF MInit, MemoryTypes, IsTable, EmptyTable
<1>2. Forgotten(Solid(memory)) = {} /\ TornFiles = {} /\ memory.ended
  BY DEF MInit, Forgotten, TornFiles, EmptyTable
<1>3. DOMAIN ReadRows(memory) = {}
  BY DEF MInit, ReadRows, EmptyTable
<1> QED
  BY <1>1, <1>2, <1>3, FS_EmptySet DEF MInit, MemoryInv, Remembered, FilesThere

\* The file is written or torn by the death that is counted.
LEMMA FilesKept ==
  ASSUME MemoryInv, NEW row \in MemoryRow, WriteMemoryRow(row)
  PROVE  files' \in [Bodies -> {"none", "torn", "whole"}] /\ FilesThere'
<1> DEFINE c == row.content
           written == [files EXCEPT ![c] = IF @ = "none" THEN "whole" ELSE @]
<1>1. /\ files \in [Bodies -> {"none", "torn", "whole"}] /\ c \in Bodies
      /\ losses \in Nat /\ IsFiniteSet(TornFiles) /\ Cardinality(TornFiles) <= losses
      /\ \A i \in DOMAIN ReadRows(memory) : /\ files[ReadRows(memory)[i].content] # "none"
                                            /\ ReadRows(memory)[i] \in MemoryRow
      /\ IsTable(memory, MemoryRow)
  BY RowsRead DEF MemoryInv, MemoryTypes, FilesThere, MemoryRow
<1>2. CASE files' = written /\ memory' \in PartialAppends(memory, row) /\ losses' \in {losses, losses + 1}
  <2>1. /\ files' \in [Bodies -> {"none", "torn", "whole"}] /\ files'[c] # "none"
        /\ \A d \in Bodies : files[d] # "none" => files'[d] # "none"
        /\ TornFiles' = TornFiles
    BY <1>1, <1>2 DEF TornFiles
  <2>2. Same(memory, memory') \/ Added(memory, memory', row) \/ Lost(memory, memory')
    BY <1>1, <1>2, CutShort, GarbledIsNoMemory
  <2>3. ASSUME NEW i \in DOMAIN ReadRows(memory')
        PROVE  files'[ReadRows(memory')[i].content] # "none"
    <3>1. \/ ReadRows(memory')[i] = row
          \/ i \in DOMAIN ReadRows(memory) /\ ReadRows(memory')[i] = ReadRows(memory)[i]
      BY <2>2 DEF Same, Added, Lost
    <3> QED
      BY <1>1, <2>1, <3>1 DEF MemoryRow
  <2>4. Cardinality(TornFiles) \in Nat
    BY <1>1, FS_CardinalityType
  <2> QED
    BY <1>1, <1>2, <2>1, <2>3, <2>4 DEF FilesThere
<1>3. CASE files' = [files EXCEPT ![c] = "torn"] /\ memory' = memory /\ losses' = losses + 1
  <2>1. /\ files' \in [Bodies -> {"none", "torn", "whole"}]
        /\ \A d \in Bodies : files[d] # "none" => files'[d] # "none"
        /\ TornFiles' \subseteq TornFiles \cup {c}
    BY <1>1, <1>3 DEF TornFiles
  <2>2. IsFiniteSet(TornFiles') /\ Cardinality(TornFiles') <= losses'
    <3> DEFINE T == TornFiles
               S == TornFiles'
    <3>1. IsFiniteSet(T) /\ S \subseteq T \cup {c}
      BY <1>1, <2>1
    <3>2. IsFiniteSet(S) /\ Cardinality(S) \in Nat /\ Cardinality(T) \in Nat /\ Cardinality(S) <= Cardinality(T) + 1
      <4> HIDE DEF T, S, c
      <4> QED
        BY <3>1, OneMore
    <3> QED
      BY <1>1, <1>3, <3>2
  <2> QED
    BY <1>1, <1>3, <2>1, <2>2 DEF FilesThere, MemoryRow
<1>4. CASE files' = written /\ memory' = AppendRow(memory, row) /\ losses' = losses
  BY <1>2, <1>4, WholeAppend
<1>5. \/ files' = written /\ memory' = AppendRow(memory, row) /\ losses' = losses
      \/ files' = written /\ memory' \in PartialAppends(memory, row) /\ losses' = losses + 1
      \/ files' = [files EXCEPT ![c] = "torn"] /\ memory' = memory /\ losses' = losses + 1
  BY DEF WriteMemoryRow
<1> QED
  <2> HIDE DEF c, written
  <2> QED
    BY <1>2, <1>3, <1>4, <1>5

\* A save that returns is remembered, unless it met an unfinished line.
LEMMA SaveRemembered ==
  ASSUME MemoryInv, NEW row \in MemoryRow, memory' = AppendRow(memory, row), losses' = losses,
         kept' = [kept EXCEPT ![<<row.type, row.source>>] = {row.content}]
  PROVE  Remembered'
<1> DEFINE key == <<row.type, row.source>>
<1>1. /\ IsTable(memory, MemoryRow) /\ Garbled \notin MemoryRow
      /\ kept \in [Keys -> SUBSET Bodies] /\ losses \in Nat
  BY GarbledIsNoMemory DEF MemoryInv, MemoryTypes
<1>2. key \in Keys
  BY DEF MemoryRow, Keys
<1>3. /\ kept'[key] = {row.content}
      /\ \A k \in Keys : k # key => kept'[k] = kept[k]
  BY <1>1, <1>2
<1>4. memory'.ended /\ Solid(memory') = ReadRows(memory')
  BY <1>1, SolidAppended
<1>5. Forgotten(Solid(memory))' \subseteq Forgotten(Solid(memory)) \cup {key}
      /\ (memory.ended => Forgotten(Solid(memory))' \subseteq Forgotten(Solid(memory)))
  <2>1. CASE memory.ended
    <3>1. Added(memory, memory', row) /\ Solid(memory) = ReadRows(memory)
      BY <1>1, <2>1, SolidAppended
    <3>2. Serves(ReadRows(memory'), key, row.content)
      BY <1>1, <1>2, <3>1, NewRowServes
    <3>3. \A k \in Keys : \A content : k # key /\ Serves(ReadRows(memory), k, content)
                                     => Serves(ReadRows(memory'), k, content)
      BY <1>1, <3>1, NewRowServes
    <3> HIDE DEF key
    <3> QED
      BY <1>3, <1>4, <3>1, <3>2, <3>3 DEF Forgotten
  <2>2. CASE ~ memory.ended
    <3>1. ReadRows(memory') = Solid(memory)
      BY <1>1, <2>2, SolidAppended
    <3> HIDE DEF key
    <3> QED
      BY <1>3, <1>4, <2>2, <3>1 DEF Forgotten
  <2> QED
    BY <2>1, <2>2
<1>6. IsFiniteSet(Forgotten(Solid(memory))) /\ Cardinality(Forgotten(Solid(memory))) \in Nat
  BY FS_CardinalityType DEF MemoryInv, Remembered
<1>7. /\ IsFiniteSet(Forgotten(Solid(memory))')
      /\ Cardinality(Forgotten(Solid(memory))') \in Nat
      /\ Cardinality(Forgotten(Solid(memory))') <= Cardinality(Forgotten(Solid(memory))) + 1
      /\ memory.ended => Cardinality(Forgotten(Solid(memory))') <= Cardinality(Forgotten(Solid(memory)))
  <2> HIDE DEF key
  <2> QED
    BY <1>5, <1>6, OneMore
<1> QED
  BY <1>1, <1>4, <1>6, <1>7 DEF MemoryInv, Remembered

\* One that dies forgets one key at most, now or with the next.
LEMMA DeathRemembered ==
  ASSUME MemoryInv, NEW row \in MemoryRow, memory' \in PartialAppends(memory, row),
         losses' = losses + 1, kept' = kept
  PROVE  Remembered'
<1> DEFINE key == <<row.type, row.source>>
           F   == Forgotten(Solid(memory))
<1>1. /\ IsTable(memory, MemoryRow) /\ Garbled \notin MemoryRow
      /\ kept \in [Keys -> SUBSET Bodies] /\ losses \in Nat
      /\ IsFiniteSet(F) /\ Cardinality(F) \in Nat
      /\ Cardinality(F) + (IF memory.ended THEN 0 ELSE 1) <= losses
  BY GarbledIsNoMemory, FS_CardinalityType DEF MemoryInv, MemoryTypes, Remembered
<1>3. CASE memory' = memory
  BY <1>1, <1>3 DEF Remembered, Forgotten
<1>4. CASE memory' # memory /\ memory' # AppendRow(memory, row)
  <2>1. Solid(memory') = Solid(memory) /\ ~ memory'.ended
    BY <1>1, <1>4, SolidCut
  <2>2. F' = F
    BY <2>1 DEF Forgotten
  <2> QED
    BY <1>1, <2>1, <2>2 DEF Remembered
<1>5. CASE memory' = AppendRow(memory, row)
  <2>1. memory'.ended /\ Solid(memory') = ReadRows(memory')
    BY <1>1, <1>5, SolidAppended
  <2>2. F' \subseteq F \cup {key}
    <3>1. CASE memory.ended
      <4>1. Added(memory, memory', row) /\ Solid(memory) = ReadRows(memory)
        BY <1>1, <1>5, <3>1, SolidAppended
      <4>2. \A k \in Keys : \A content : k # key /\ Serves(ReadRows(memory), k, content)
                                       => Serves(ReadRows(memory'), k, content)
        BY <1>1, <4>1, NewRowServes
      <4> HIDE DEF key
      <4> QED
        BY <2>1, <4>1, <4>2 DEF Forgotten
    <3>2. CASE ~ memory.ended
      <4>1. ReadRows(memory') = Solid(memory)
        BY <1>1, <1>5, <3>2, SolidAppended
      <4> QED
        BY <2>1, <4>1 DEF Forgotten
    <3> QED
      BY <3>1, <3>2
  <2>3. IsFiniteSet(F') /\ Cardinality(F') \in Nat /\ Cardinality(F') <= Cardinality(F) + 1
    <3> HIDE DEF key, F
    <3> QED
      BY <1>1, <2>2, OneMore
  <2> QED
    BY <1>1, <2>1, <2>3 DEF Remembered
<1> QED
  BY <1>3, <1>4, <1>5

\* The two steps of a save, and the death in one of them.
LEMMA WriteMemoryKeeps ==
  ASSUME MemoryInv, NEW row \in MemoryRow, WriteMemoryRow(row)
  PROVE  MemoryInv'
<1>1. files' \in [Bodies -> {"none", "torn", "whole"}] /\ FilesThere'
  BY FilesKept
<1>2. /\ IsTable(memory, MemoryRow) /\ Garbled \notin MemoryRow
      /\ kept \in [Keys -> SUBSET Bodies] /\ losses \in Nat
  BY GarbledIsNoMemory DEF MemoryInv, MemoryTypes
<1>3. \/ /\ memory' = AppendRow(memory, row) /\ losses' = losses
         /\ kept' = [kept EXCEPT ![<<row.type, row.source>>] = {row.content}]
      \/ memory' \in PartialAppends(memory, row) /\ losses' = losses + 1 /\ kept' = kept
  BY DEF WriteMemoryRow, PartialAppends
<1>4. MemoryTypes'
  <2>1. IsTable(memory', MemoryRow)
    BY <1>2, <1>3, Appended, CutShort
  <2>2. kept' \in [Keys -> SUBSET Bodies]
    BY <1>2, <1>3 DEF MemoryRow
  <2> QED
    BY <1>1, <1>2, <1>3, <2>1, <2>2 DEF MemoryTypes
<1>5. Remembered'
  BY <1>3, SaveRemembered, DeathRemembered
<1> QED
  BY <1>1, <1>4, <1>5 DEF MemoryInv

\* Every step keeps the invariant.
LEMMA NextMemoryInv == MemoryInv /\ [MNext]_mvars => MemoryInv'
<1> SUFFICES ASSUME MemoryInv, [MNext]_mvars PROVE MemoryInv'
  OBVIOUS
<1>1. ASSUME NEW name \in Names \cup {Unnamed}, NEW content \in Bodies, NEW a \in BOOLEAN, NEW b \in BOOLEAN,
             SaveDecision(name, content, a, b)
      PROVE  MemoryInv'
  <2>1. [type |-> "decision", source |-> SourceOf("decision", name), content |-> content] \in MemoryRow
    BY DEF MemoryRow, SourceOf, Types
  <2> QED
    BY <1>1, <2>1, WriteMemoryKeeps DEF SaveDecision
<1>2. ASSUME NEW name \in Names \cup {Unnamed}, NEW content \in Bodies, NEW a \in BOOLEAN, NEW b \in BOOLEAN,
             SaveVerifiedArtifact(name, content, a, b)
      PROVE  MemoryInv'
  <2>1. [type |-> "artifact", source |-> SourceOf("artifact", name), content |-> content] \in MemoryRow
    BY DEF MemoryRow, SourceOf, Types
  <2> QED
    BY <1>2, <2>1, WriteMemoryKeeps DEF SaveVerifiedArtifact
<1>3. CASE UNCHANGED mvars
  BY <1>3 DEF mvars, MemoryInv, MemoryTypes, Remembered, FilesThere, Forgotten, TornFiles
<1> QED
  BY <1>1, <1>2, <1>3 DEF MNext

\* The invariant holds in every state.
LEMMA MemoryInvHolds == MSpec => []MemoryInv
BY InitMemoryInv, NextMemoryInv, PTL DEF MSpec

\* Reviewed decisions and verified artifacts are durable: for any number of keys,
\* contents and deaths, at most one key per death does not answer what its last
\* acknowledged save said, and at most one active content per death cannot be
\* read (src/core/project-memory.mjs, _writeRow and _activeRows).
THEOREM MemoryIsKept == MSpec => []MemoryKept
<1>1. MemoryInv => MemoryKept
  <2> SUFFICES ASSUME MemoryInv PROVE MemoryKept
    OBVIOUS
  <2> DEFINE rs == ReadRows(memory)
             F  == Forgotten(Solid(memory))
             Answers(key, content) == \E row \in ActiveMemory : HasKey(row, key) /\ row.content = content
             Unanswered == {key \in Keys : \E content \in kept[key] : ~ Answers(key, content)}
             Unreadable == {row.content : row \in {r \in ActiveMemory : files[r.content] # "whole"}}
  <2>1. /\ IsTable(memory, MemoryRow) /\ losses \in Nat
        /\ files \in [Bodies -> {"none", "torn", "whole"}]
        /\ IsFiniteSet(F) /\ Cardinality(F) \in Nat
        /\ Cardinality(F) + (IF memory.ended THEN 0 ELSE 1) <= losses
        /\ IsFiniteSet(TornFiles) /\ Cardinality(TornFiles) <= losses
        /\ \A i \in DOMAIN rs : files[rs[i].content] # "none"
    BY FS_CardinalityType DEF MemoryInv, MemoryTypes, Remembered, FilesThere
  <2>2. /\ DOMAIN rs \subseteq 1 .. Len(memory.lines) /\ Len(memory.lines) \in Nat
        /\ \A i \in DOMAIN rs : rs[i] \in MemoryRow
    BY <2>1, RowsRead
  <2>3. \A key \in Keys : \A content : Serves(rs, key, content) => Answers(key, content)
    BY <2>2 DEF Serves, ActiveMemory, HasKey, MemoryRow, Keys
  <2>4. PICK last : Unanswered \subseteq F \cup {last} /\ (memory.ended => Unanswered \subseteq F)
    <3> DEFINE n == Len(memory.lines)
    <3>1. /\ DOMAIN Solid(memory) \subseteq DOMAIN rs
          /\ \A i \in DOMAIN Solid(memory) : Solid(memory)[i] = rs[i]
          /\ memory.ended => Solid(memory) = rs
          /\ DOMAIN rs \subseteq DOMAIN Solid(memory) \cup {n}
      BY <2>1, SolidRows
    <3>2. ASSUME NEW key \in Keys, NEW content, Serves(Solid(memory), key, content),
                 memory.ended \/ key # <<rs[n].type, rs[n].source>>
          PROVE  Serves(rs, key, content)
      <4>1. HasKey(rs[n], key) => key = <<rs[n].type, rs[n].source>>
        BY DEF HasKey, Keys
      <4> HIDE DEF rs, n
      <4>2. CASE memory.ended
        BY <3>1, <3>2, <4>2
      <4>3. CASE key # <<rs[n].type, rs[n].source>>
        BY <3>1, <3>2, <4>1, <4>3 DEF Serves
      <4> QED
        BY <3>2, <4>2, <4>3
    <3>3. Unanswered \subseteq F \cup {<<rs[n].type, rs[n].source>>} /\ (memory.ended => Unanswered \subseteq F)
      <4> HIDE DEF rs, n, Answers
      <4> QED
        BY <2>3, <3>2 DEF Forgotten
    <3> QED
      BY <3>3
  <2>5. Cardinality(Unanswered) <= losses
    <3> HIDE DEF F, Unanswered
    <3>1. /\ Cardinality(Unanswered) \in Nat /\ Cardinality(Unanswered) <= Cardinality(F) + 1
          /\ Unanswered \subseteq F => Cardinality(Unanswered) <= Cardinality(F)
      BY <2>1, <2>4, OneMore
    <3> QED
      BY <2>1, <2>4, <3>1
  <2>6. Unreadable \subseteq TornFiles
    <3>1. \A row \in ActiveMemory : \E i \in DOMAIN rs : row = rs[i]
      BY DEF ActiveMemory
    <3> HIDE DEF rs
    <3> QED
      BY <2>1, <2>2, <3>1 DEF TornFiles, MemoryRow
  <2>7. Cardinality(Unreadable) <= losses
    <3> HIDE DEF Unreadable
    <3> QED
      BY <2>1, <2>6, OneMore
  <2> QED
    BY <2>5, <2>7 DEF MemoryKept
<1> QED
  BY <1>1, MemoryInvHolds, PTL

-----------------------------------------------------------------------------
(* Knowledge store *)

SourceFile == [source : Sources, content : Contents]

IndexRow ==
  [source : Sources, content : Contents, status : {"ACTIVE", "DELETED"}, id : Nat, at : Nat]

WriteCalls ==
  [at : {"write", "stamp", "append"}, todo : Seq(SourceFile), row : IndexRow, over : SUBSET Nat]

Calls ==
  {Idle} \cup WriteCalls
    \cup [at : {"next"}, todo : Seq(SourceFile) \ {<<>>}]
    \cup [at : {"list"}, referenced : SUBSET Contents]
    \cup [at : {"sweep"}, left : SUBSET Contents]

\* Row i is what the index shows of its source.
Shows(rs, i) ==
  \A j \in DOMAIN rs : rs[j].source = rs[i].source =>
    rs[j].at < rs[i].at \/ (rs[j].at = rs[i].at /\ j <= i)

ShowsActive(rs, i) == Shows(rs, i) /\ rs[i].status = "ACTIVE"

Indexed == ReadRows(index)

KnowledgeTypes ==
  /\ IsTable(index, IndexRow)
  /\ objects \in [Contents -> {"none", "torn", "whole"}]
  /\ clock \in Nat /\ ids \in Nat /\ deaths \in Nat
  /\ call \in [Processes -> Calls]
  /\ suspect \subseteq Contents
  /\ past \in [Sources -> SUBSET Nat]
  /\ \A i \in DOMAIN Indexed : Indexed[i].at <= clock

(* What damage can be done *)

Safe(c) == objects[c] = "whole" \/ c \in suspect

ShownSafe == \A i \in DOMAIN Indexed : ShowsActive(Indexed, i) => Safe(Indexed[i].content)

\* What an unfinished line hides, and its loss brings back, is suspect.
HiddenSuspect ==
  \A i \in DOMAIN Solid(index) : ShowsActive(Solid(index), i) =>
    Solid(index)[i].content \in suspect \/ Shows(Indexed, i)

TornSuspect == \A c \in Contents : objects[c] = "torn" => c \in suspect

\* A call that found or wrote its object can rely on it.
WrittenSafe ==
  \A p \in Processes :
    call[p].at \in {"stamp", "append"} /\ call[p].row.status = "ACTIVE" => Safe(call[p].row.content)

\* A purge unlinks nothing that is shown, or is about to be, and is not suspect.
Doomed(p) == IF call[p].at = "list" THEN Contents \ call[p].referenced ELSE call[p].left

PurgesSpare ==
  \A p \in Purging : \A c \in Doomed(p) \ suspect :
    /\ \A i \in DOMAIN Indexed : ShowsActive(Indexed, i) => Indexed[i].content # c
    /\ \A q \in Writing : call[q].row.content = c => call[q].row.status = "DELETED"

DamageInv ==
  KnowledgeTypes /\ ShownSafe /\ HiddenSuspect /\ TornSuspect /\ WrittenSafe /\ PurgesSpare

(* Which call counts *)

\* Ids are given once, to a call that is writing or to a row ...
IdsUnique ==
  /\ \A i \in DOMAIN Indexed : Indexed[i].id < ids
  /\ \A p \in Writing : call[p].row.id < ids
  /\ \A i, j \in DOMAIN Indexed : Indexed[i].id = Indexed[j].id => i = j
  /\ \A i \in DOMAIN Indexed, p \in Writing : Indexed[i].id # call[p].row.id
  /\ \A p, q \in Writing : call[p].row.id = call[q].row.id => p = q

\* ... and past and overridden know those of the calls that returned.
PastTrue ==
  /\ \A s \in Sources : \A x \in past[s] : x < ids
  /\ \A p \in Writing, s \in Sources : call[p].row.id \notin past[s]
  /\ \A i \in DOMAIN Indexed, s \in Sources : Indexed[i].id \in past[s] => Indexed[i].source = s
  /\ \A x \in overridden : \E s \in Sources : x \in past[s]
  /\ \A p \in Writing : call[p].over \subseteq past[call[p].row.source]

\* What a call comes after is not stamped later.
StampsInOrder ==
  \A p \in Processes : call[p].at = "append" =>
    \A i \in DOMAIN Indexed : Indexed[i].id \in call[p].over => Indexed[i].at <= call[p].row.at

\* The rows shown although a later call returned.
Overtaken(rs) == {rs[i] : i \in {i \in DOMAIN rs : Shows(rs, i) /\ rs[i].id \in overridden}}

\* There is one for every death at most, or there will be when its unfinished
\* line meets the next.
DeathsPay ==
  /\ IsFiniteSet(Overtaken(Solid(index)))
  /\ Cardinality(Overtaken(Solid(index))) + (IF index.ended THEN 0 ELSE 1) <= deaths

CallsInv == KnowledgeTypes /\ IdsUnique /\ PastTrue /\ StampsInOrder /\ DeathsPay

\* A garbled line is no row of the index.
LEMMA GarbledIsNoIndexRow == Garbled \notin IndexRow
<1>1. "garbled" \in DOMAIN Garbled
  BY DEF Garbled
<1>2. \A r \in IndexRow : "garbled" \notin DOMAIN r
  BY DEF IndexRow
<1> QED
  BY <1>1, <1>2

\* What a call is by where it is.
LEMMA CallsAt ==
  ASSUME NEW c \in Calls
  PROVE  /\ c.at \in {"write", "stamp", "append"} => c \in WriteCalls
         /\ c.at = "next" => c.todo \in Seq(SourceFile) /\ c.todo # <<>>
         /\ c.at = "list" => c.referenced \subseteq Contents
         /\ c.at = "sweep" => c.left \subseteq Contents
         /\ c.at \in {"idle", "write", "stamp", "append", "next", "list", "sweep"}
         /\ c = Idle <=> c.at = "idle"
BY DEF Calls, WriteCalls, Idle

\* What the record of a call that writes is made of.
LEMMA WriteCallsAre ==
  ASSUME NEW c \in WriteCalls
  PROVE  /\ c.at \in {"write", "stamp", "append"} /\ c \in Calls
         /\ c.todo \in Seq(SourceFile) /\ c.row \in IndexRow /\ c.over \subseteq Nat
         /\ c.row.source \in Sources /\ c.row.content \in Contents /\ c.row.id \in Nat /\ c.row.at \in Nat
BY DEF WriteCalls, Calls, IndexRow

\* A process enters a call, the others go on with theirs.
LEMMA Entered ==
  ASSUME call \in [Processes -> Calls], NEW p \in Processes, NEW c \in Calls, Enter(p, c)
  PROVE  /\ call' \in [Processes -> Calls]
         /\ call'[p] = c
         /\ \A q \in Processes : q # p => call'[q] = call[q]
BY DEF Enter

\* The rows that can be read from the index are rows, numbered by their lines.
LEMMA IndexedRows ==
  ASSUME KnowledgeTypes
  PROVE  /\ DOMAIN Indexed \subseteq 1 .. Len(index.lines) /\ Len(index.lines) \in Nat
         /\ \A i \in DOMAIN Indexed :
              /\ Indexed[i] \in IndexRow
              /\ Indexed[i].source \in Sources /\ Indexed[i].content \in Contents
              /\ Indexed[i].id \in Nat /\ Indexed[i].at \in Nat
<1>1. IsTable(index, IndexRow)
  BY DEF KnowledgeTypes
<1>2. /\ DOMAIN Indexed \subseteq 1 .. Len(index.lines) /\ Len(index.lines) \in Nat
      /\ \A i \in DOMAIN Indexed : Indexed[i] \in IndexRow
  BY <1>1, RowsRead DEF Indexed
<1> QED
  BY <1>2 DEF IndexRow

\* Of every source that has rows one is shown, ...
LEMMA SomeShown ==
  ASSUME KnowledgeTypes, NEW k \in DOMAIN Indexed
  PROVE  \E i \in DOMAIN Indexed : Indexed[i].source = Indexed[k].source /\ Shows(Indexed, i)
<1> DEFINE S     == {j \in DOMAIN Indexed : Indexed[j].source = Indexed[k].source}
           Times == {Indexed[j].at + 1 : j \in S}
           n     == Len(index.lines)
<1>1. /\ DOMAIN Indexed \subseteq 1 .. n /\ n \in Nat
      /\ \A i \in DOMAIN Indexed : Indexed[i].at \in Nat
  BY IndexedRows
<1>2. \E m \in Times : \A t \in Times : t <= m
  <2>1. clock + 1 \in Nat /\ Times \in SUBSET (1 .. clock + 1) /\ Times # {}
    BY <1>1 DEF KnowledgeTypes
  <2> HIDE DEF Times
  <2> QED
    BY <2>1, GreatestNumber
<1>3. \E top \in S : \A j \in S : Indexed[j].at <= Indexed[top].at
  <2>1. PICK m \in Times : \A x \in Times : x <= m
    BY <1>2
  <2>2. PICK top \in S : m = Indexed[top].at + 1
    OBVIOUS
  <2>3. ASSUME NEW j \in S PROVE Indexed[j].at <= Indexed[top].at
    <3>1. Indexed[j].at + 1 <= m
      BY <2>1
    <3> QED
      BY <1>1, <2>2, <3>1
  <2> QED
    BY <2>3
<1> PICK top \in S : \A j \in S : Indexed[j].at <= Indexed[top].at
  BY <1>3
<1> DEFINE Tops == {j \in S : Indexed[j].at = Indexed[top].at}
<1>4. \E i \in Tops : \A j \in Tops : j <= i
  <2>1. Tops \in SUBSET (1 .. n) /\ Tops # {}
    BY <1>1
  <2> HIDE DEF Tops, n
  <2> QED
    BY <1>1, <2>1, GreatestNumber
<1>5. PICK i \in Tops : \A j \in Tops : j <= i
  BY <1>4
<1>6. Indexed[i].source = Indexed[k].source /\ i \in DOMAIN Indexed
  OBVIOUS
<1>7. ASSUME NEW j \in DOMAIN Indexed, Indexed[j].source = Indexed[i].source
      PROVE  Indexed[j].at < Indexed[i].at \/ (Indexed[j].at = Indexed[i].at /\ j <= i)
  <2>1. j \in S /\ Indexed[j].at <= Indexed[top].at /\ Indexed[i].at = Indexed[top].at
    BY <1>6, <1>7
  <2>2. Indexed[j].at = Indexed[top].at => j <= i
    BY <1>5, <2>1
  <2> QED
    BY <1>1, <2>1, <2>2
<1> QED
  BY <1>6, <1>7 DEF Shows

\* ... no two are, ...
LEMMA OneShown ==
  ASSUME NEW t, IsTable(t, IndexRow), NEW rs, DOMAIN rs \subseteq DOMAIN ReadRows(t),
         \A i \in DOMAIN rs : rs[i] \in IndexRow,
         NEW i \in DOMAIN rs, NEW j \in DOMAIN rs, Shows(rs, i), Shows(rs, j),
         rs[i].source = rs[j].source
  PROVE  i = j
<1>1. i \in Nat /\ j \in Nat
  BY RowsRead
<1>2. rs[i].at \in Nat /\ rs[j].at \in Nat
  BY DEF IndexRow
<1> QED
  BY <1>1, <1>2 DEF Shows

\* ... and it is the winner.
LEMMA LatestShown ==
  ASSUME KnowledgeTypes
  PROVE  Latest = {Indexed[i] : i \in {i \in DOMAIN Indexed : Shows(Indexed, i)}}
<1>1. ASSUME NEW s, NEW i \in DOMAIN Indexed, Indexed[i].source = s, Shows(Indexed, i)
      PROVE  Winner(Indexed, s) = i
  <2> DEFINE Wins(k) == /\ Indexed[k].source = s
                        /\ \A j \in DOMAIN Indexed : Indexed[j].source = s =>
                             Indexed[j].at < Indexed[k].at \/ (Indexed[j].at = Indexed[k].at /\ j <= k)
  <2>1. Wins(i)
    BY <1>1 DEF Shows
  <2>2. ASSUME NEW k \in DOMAIN Indexed, Wins(k) PROVE k = i
    <3>1. Shows(Indexed, k)
      BY <2>2 DEF Shows
    <3> QED
      BY <1>1, <2>2, <3>1, OneShown, IndexedRows DEF KnowledgeTypes, Indexed
  <2>3. Winner(Indexed, s) = CHOOSE k \in DOMAIN Indexed : Wins(k)
    BY DEF Winner
  <2> HIDE DEF Wins
  <2> QED
    BY <2>1, <2>2, <2>3
<1>2. ASSUME NEW k \in DOMAIN Indexed
      PROVE  \E i \in DOMAIN Indexed : Shows(Indexed, i) /\ Indexed[Winner(Indexed, Indexed[k].source)] = Indexed[i]
  BY <1>1, SomeShown
<1>3. Latest = {Indexed[Winner(Indexed, s)] : s \in {Indexed[i].source : i \in DOMAIN Indexed}}
  BY DEF Latest, Indexed
<1>4. \A row \in Latest : \E i \in DOMAIN Indexed : Shows(Indexed, i) /\ row = Indexed[i]
  BY <1>2, <1>3
<1>5. ASSUME NEW i \in DOMAIN Indexed, Shows(Indexed, i) PROVE Indexed[i] \in Latest
  BY <1>1, <1>3, <1>5
<1> QED
  BY <1>4, <1>5

\* Which rows a query shows as active.
LEMMA ShownRows ==
  ASSUME KnowledgeTypes
  PROVE  /\ \A row : row \in ActiveRows <=>
                       \E i \in DOMAIN Indexed : ShowsActive(Indexed, i) /\ row = Indexed[i]
         /\ \A s : \A row \in ActiveOf(s) : row \in IndexRow /\ row.source = s
<1>1. \A row : row \in ActiveRows <=>
                 \E i \in DOMAIN Indexed : ShowsActive(Indexed, i) /\ row = Indexed[i]
  BY LatestShown DEF ActiveRows, ShowsActive
<1>2. \A i \in DOMAIN Indexed : Indexed[i] \in IndexRow
  BY IndexedRows
<1> QED
  BY <1>1, <1>2 DEF ActiveOf

\* The invariant holds at first.
LEMMA InitDamageInv == KInit => DamageInv
<1> SUFFICES ASSUME KInit PROVE DamageInv
  OBVIOUS
<1>1. KnowledgeTypes
  BY DEF KInit, KnowledgeTypes, IsTable, EmptyTable, Calls, Indexed, ReadRows
<1>2. DOMAIN Indexed = {} /\ DOMAIN Solid(index) = {}
  BY DEF KInit, Indexed, Solid, ReadRows, EmptyTable
<1>3. \A p \in Processes : call[p].at = "idle"
  BY DEF KInit, Idle
<1>4. \A c \in Contents : objects[c] = "none"
  BY DEF KInit
<1> QED
  BY <1>1, <1>2, <1>3, <1>4
  DEF DamageInv, ShownSafe, HiddenSuspect, TornSuspect, WrittenSafe, PurgesSpare, Purging

\* A step that writes no row and takes no object away.
LEMMA QuietSteps ==
  ASSUME DamageInv, index' = index, suspect \subseteq suspect',
         \A c \in Contents : objects'[c] = objects[c] \/ objects'[c] = "whole"
  PROVE  /\ ShownSafe' /\ HiddenSuspect' /\ TornSuspect'
         /\ \A c \in Contents : Safe(c) => Safe(c)'
<1>1. \A c \in Contents : Safe(c) => Safe(c)'
  BY DEF Safe
<1>2. \A i \in DOMAIN Indexed : Indexed[i].content \in Contents
  BY IndexedRows DEF DamageInv
<1>3. ShownSafe'
  BY <1>1, <1>2 DEF DamageInv, ShownSafe, Indexed, ShowsActive, Shows
<1>4. HiddenSuspect'
  BY DEF DamageInv, HiddenSuspect, Indexed
<1>5. TornSuspect'
  BY DEF DamageInv, TornSuspect
<1> QED
  BY <1>1, <1>3, <1>4, <1>5

\* A purge at work goes on sparing what it must, when others begin to write
\* suspect contents only.
LEMMA PurgesGoOn ==
  ASSUME DamageInv, index' = index, suspect \subseteq suspect',
         \A p \in Purging' : p \in Purging /\ Doomed(p)' \subseteq Doomed(p),
         \A q \in Writing' :
           \/ q \in Writing /\ call'[q].row.content = call[q].row.content
                            /\ call'[q].row.status = call[q].row.status
           \/ call'[q].row.status = "DELETED"
           \/ Purging # {} => call'[q].row.content \in suspect'
  PROVE  PurgesSpare'
<1> SUFFICES ASSUME NEW p \in Purging', NEW c \in Doomed(p)' \ suspect'
             PROVE  /\ \A i \in DOMAIN Indexed' : ShowsActive(Indexed', i) => Indexed'[i].content # c
                    /\ \A q \in Writing' : call'[q].row.content = c => call'[q].row.status = "DELETED"
  BY DEF PurgesSpare
<1>1. Indexed' = Indexed
  BY DEF Indexed
<1>2. p \in Purging /\ c \in Doomed(p) \ suspect
  OBVIOUS
<1>3. /\ \A i \in DOMAIN Indexed : ShowsActive(Indexed, i) => Indexed[i].content # c
      /\ \A q \in Writing : call[q].row.content = c => call[q].row.status = "DELETED"
  BY <1>2 DEF DamageInv, PurgesSpare
<1>4. ASSUME NEW q \in Writing', call'[q].row.content = c
      PROVE  call'[q].row.status = "DELETED"
  BY <1>2, <1>3, <1>4
<1> QED
  BY <1>1, <1>3, <1>4

\* ingest, up to its look for the object.
LEMMA CheckDamage ==
  ASSUME DamageInv, NEW p \in Processes, NEW todo \in Seq(SourceFile), todo # <<>>,
         call[p].at \in {"idle", "next"}, CheckObject(p, todo)
  PROVE  DamageInv'
<1> DEFINE file == Head(todo)
           row  == [source |-> file.source, content |-> file.content,
                    status |-> "ACTIVE", id |-> ids, at |-> 0]
           c    == [at   |-> IF objects[file.content] = "none" THEN "write" ELSE "stamp",
                    todo |-> Tail(todo), row |-> row, over |-> past[file.source]]
<1>1. KnowledgeTypes
  BY DEF DamageInv
<1>2. file \in SourceFile /\ Tail(todo) \in Seq(SourceFile)
  BY HeadTailProperties
<1>3. c \in WriteCalls /\ c \in Calls
  <2>1. row \in IndexRow /\ past[file.source] \subseteq Nat
    BY <1>1, <1>2 DEF KnowledgeTypes, SourceFile, IndexRow
  <2> HIDE DEF row, file
  <2> QED
    BY <1>2, <2>1 DEF WriteCalls, Calls
<1>4. Enter(p, c)
  BY DEF CheckObject
<1>5. /\ call' \in [Processes -> Calls] /\ call'[p] = c
      /\ \A q \in Processes : q # p => call'[q] = call[q]
  <2> HIDE DEF c
  <2> QED
    BY <1>1, <1>3, <1>4, Entered DEF KnowledgeTypes
<1>6. /\ index' = index /\ objects' = objects /\ suspect \subseteq suspect'
      /\ suspect' \subseteq Contents
      /\ Purging # {} => file.content \in suspect'
  BY <1>1, <1>2 DEF CheckObject, KnowledgeTypes, SourceFile
<1>7. KnowledgeTypes'
  BY <1>1, <1>5, <1>6 DEF CheckObject, KnowledgeTypes, Indexed
<1>8. ShownSafe' /\ HiddenSuspect' /\ TornSuspect' /\ \A d \in Contents : Safe(d) => Safe(d)'
  BY <1>6, QuietSteps
<1>9. WrittenSafe'
  <2>1. call'[p].at = "stamp" => Safe(file.content)'
    BY <1>1, <1>2, <1>5, <1>6, <1>8 DEF DamageInv, TornSuspect, Safe, KnowledgeTypes, SourceFile
  <2>2. call'[p].row.content = file.content /\ call'[p].at # "append"
    BY <1>5
  <2>3. ASSUME NEW q \in Processes, q # p, call'[q].at \in {"stamp", "append"}, call'[q].row.status = "ACTIVE"
        PROVE  Safe(call[q].row.content)'
    <3>1. call[q] \in WriteCalls /\ Safe(call[q].row.content) /\ call[q].row.content \in Contents
      BY <1>1, <1>5, <2>3, CallsAt, WriteCallsAre DEF DamageInv, WrittenSafe, KnowledgeTypes
    <3> QED
      BY <1>5, <1>8, <2>3, <3>1 DEF Safe
  <2> QED
    BY <2>1, <2>2, <2>3 DEF WrittenSafe, Safe
<1>10. PurgesSpare'
  <2>1. \A q \in Purging' : q \in Purging /\ Doomed(q)' \subseteq Doomed(q)
    BY <1>3, <1>5, WriteCallsAre DEF Purging, Doomed
  <2>2. call'[p].row.content = file.content
    BY <1>5
  <2>3. \A q \in Writing' : \/ q \in Writing /\ call'[q] = call[q]
                            \/ call'[q].row.content = file.content
    BY <1>5, <2>2 DEF Writing
  <2> HIDE DEF file
  <2> QED
    BY <1>6, <2>1, <2>3, PurgesGoOn
<1> QED
  BY <1>7, <1>8, <1>9, <1>10 DEF DamageInv

\* The steps that only go on with a call of their own, or begin a removal.
LEMMA GoOnDamage ==
  ASSUME DamageInv, NEW p \in Processes, WriteObject(p) \/ Stamp(p) \/ \E s \in Sources : RemoveIndexRow(p, s)
  PROVE  DamageInv'
<1>1. KnowledgeTypes
  BY DEF DamageInv
<1>2. /\ index' = index /\ suspect' = suspect /\ deaths' = deaths /\ past' = past
      /\ \A c \in Contents : objects'[c] = objects[c] \/ objects'[c] = "whole"
      /\ objects' \in [Contents -> {"none", "torn", "whole"}]
  BY <1>1 DEF WriteObject, Stamp, RemoveIndexRow, KnowledgeTypes
<1>3. /\ call' \in [Processes -> Calls] /\ call'[p] \in WriteCalls
      /\ \A q \in Processes : q # p => call'[q] = call[q]
      /\ call[p].at \notin {"list", "sweep"}
      /\ clock' \in Nat /\ clock <= clock' /\ ids' \in Nat
      /\ \/ call'[p].row.status = "DELETED"
         \/ /\ p \in Writing
            /\ call'[p].row.content = call[p].row.content
            /\ call'[p].row.status = call[p].row.status
            /\ call[p].at = "write" => objects'[call[p].row.content] = "whole"
            /\ call[p].at # "append"
  <2>1. CASE WriteObject(p)
    <3> DEFINE c == [call[p] EXCEPT !.at = "stamp"]
    <3>1. call[p] \in WriteCalls /\ call[p].at = "write" /\ call[p].row.content \in Contents
      BY <1>1, <2>1, CallsAt, WriteCallsAre DEF WriteObject, KnowledgeTypes
    <3>2. c \in WriteCalls /\ c.row = call[p].row
      BY <3>1 DEF WriteCalls
    <3> HIDE DEF c
    <3>3. Enter(p, c)
      BY <2>1 DEF WriteObject, c
    <3> QED
      BY <1>1, <2>1, <3>1, <3>2, <3>3, Entered, WriteCallsAre DEF WriteObject, KnowledgeTypes, Writing
  <2>2. CASE Stamp(p)
    <3> DEFINE c == [call[p] EXCEPT !.at = "append", !.row.at = clock']
    <3>1. call[p] \in WriteCalls /\ call[p].at = "stamp" /\ call[p].row \in IndexRow
      BY <1>1, <2>2, CallsAt, WriteCallsAre DEF Stamp, KnowledgeTypes
    <3>2. clock' \in Nat /\ clock <= clock'
      BY <1>1, <2>2 DEF Stamp, KnowledgeTypes
    <3>3. /\ c \in WriteCalls
          /\ c.row.content = call[p].row.content /\ c.row.status = call[p].row.status
      BY <3>1, <3>2 DEF WriteCalls, IndexRow
    <3> HIDE DEF c
    <3>4. Enter(p, c)
      BY <2>2 DEF Stamp, c
    <3> QED
      BY <1>1, <2>2, <3>1, <3>2, <3>3, <3>4, Entered, WriteCallsAre DEF Stamp, KnowledgeTypes, Writing
  <2>3. ASSUME NEW s \in Sources, RemoveIndexRow(p, s)
        PROVE  /\ call' \in [Processes -> Calls] /\ call'[p] \in WriteCalls
               /\ \A q \in Processes : q # p => call'[q] = call[q]
               /\ call[p].at \notin {"list", "sweep"}
               /\ clock' \in Nat /\ clock <= clock' /\ ids' \in Nat
               /\ call'[p].row.status = "DELETED"
    <3>1. PICK active \in ActiveOf(s) :
            Enter(p, [at |-> "stamp", todo |-> <<>>, over |-> past[s],
                      row |-> [active EXCEPT !.status = "DELETED", !.id = ids, !.at = 0]])
      BY <2>3 DEF RemoveIndexRow
    <3>2. active \in IndexRow
      BY <1>1, ShownRows
    <3> DEFINE row == [active EXCEPT !.status = "DELETED", !.id = ids, !.at = 0]
               c   == [at |-> "stamp", todo |-> <<>>, over |-> past[s], row |-> row]
    <3>3. row \in IndexRow /\ row.status = "DELETED"
      BY <1>1, <3>2 DEF IndexRow, KnowledgeTypes
    <3>4. c \in WriteCalls /\ c.row.status = "DELETED"
      <4> HIDE DEF row
      <4> QED
        BY <1>1, <3>3 DEF WriteCalls, KnowledgeTypes
    <3>5. Enter(p, c)
      BY <3>1
    <3> HIDE DEF c
    <3>6. /\ call' \in [Processes -> Calls] /\ call'[p] = c
          /\ \A q \in Processes : q # p => call'[q] = call[q]
      BY <1>1, <3>4, <3>5, Entered, WriteCallsAre DEF KnowledgeTypes
    <3>7. call[p].at = "idle" /\ clock' \in Nat /\ clock <= clock' /\ ids' \in Nat
      <4>1. call[p] = Idle /\ clock' = clock /\ ids' = ids + 1
        BY <2>3 DEF RemoveIndexRow
      <4> QED
        BY <1>1, <4>1 DEF KnowledgeTypes, Idle
    <3> QED
      BY <3>4, <3>6, <3>7
  <2> QED
    BY <2>1, <2>2, <2>3
<1>4. KnowledgeTypes'
  <2>1. \A i \in DOMAIN Indexed : Indexed[i].at <= clock'
    BY <1>1, <1>3, IndexedRows DEF KnowledgeTypes
  <2> QED
    BY <1>1, <1>2, <1>3, <2>1 DEF KnowledgeTypes, Indexed
<1>5. ShownSafe' /\ HiddenSuspect' /\ TornSuspect' /\ \A d \in Contents : Safe(d) => Safe(d)'
  BY <1>2, QuietSteps
<1>6. WrittenSafe'
  <2> SUFFICES ASSUME NEW q \in Processes, call'[q].at \in {"stamp", "append"}, call'[q].row.status = "ACTIVE"
               PROVE  objects'[call'[q].row.content] = "whole" \/ call'[q].row.content \in suspect'
    BY DEF WrittenSafe, Safe
  <2>1. CASE q # p
    <3>1. call[q] \in WriteCalls /\ Safe(call[q].row.content) /\ call[q].row.content \in Contents
      BY <1>1, <1>3, <2>1, CallsAt, WriteCallsAre DEF DamageInv, WrittenSafe, KnowledgeTypes
    <3> QED
      BY <1>3, <1>5, <2>1, <3>1 DEF Safe
  <2>2. CASE q = p
    <3>1. call[p] \in WriteCalls /\ call[p].at \in {"write", "stamp"} /\ call[p].row.content \in Contents
      BY <1>1, <1>3, <2>2, CallsAt, WriteCallsAre DEF KnowledgeTypes, Writing
    <3>2. call[p].at = "stamp" => Safe(call[p].row.content)
      BY <1>3, <2>2 DEF DamageInv, WrittenSafe
    <3> QED
      BY <1>3, <1>5, <2>2, <3>1, <3>2 DEF Safe
  <2> QED
    BY <2>1, <2>2
<1>7. PurgesSpare'
  <2>1. \A q \in Purging' : q \in Purging /\ Doomed(q)' \subseteq Doomed(q)
    BY <1>3, WriteCallsAre DEF Purging, Doomed
  <2> QED
    BY <1>2, <1>3, <2>1, PurgesGoOn DEF Writing
<1> QED
  BY <1>4, <1>5, <1>6, <1>7 DEF DamageInv

\* purgeUnreferenced
LEMMA PurgeDamage ==
  ASSUME DamageInv, NEW p \in Processes, PurgeReads(p) \/ PurgeLists(p) \/ PurgeUnlinks(p)
  PROVE  DamageInv'
<1>1. KnowledgeTypes
  BY DEF DamageInv
<1>2. CASE PurgeReads(p)
  <2> DEFINE c == [at |-> "list", referenced |-> Referenced]
  <2>1. c \in Calls
    <3>1. Referenced \subseteq Contents
      BY <1>1, ShownRows, IndexedRows DEF Referenced
    <3> QED
      BY <3>1 DEF Calls
  <2>2. Enter(p, c)
    BY <1>2 DEF PurgeReads
  <2> HIDE DEF c
  <2>3. /\ call' \in [Processes -> Calls] /\ call'[p] = c
        /\ \A q \in Processes : q # p => call'[q] = call[q]
    BY <1>1, <2>1, <2>2, Entered DEF KnowledgeTypes
  <2>4. /\ index' = index /\ objects' = objects /\ clock' = clock /\ ids' = ids /\ deaths' = deaths
        /\ past' = past
        /\ suspect' = suspect \cup {call[q].row.content : q \in Writing}
        /\ call[p].at = "idle"
    BY <1>2 DEF PurgeReads, Idle
  <2>5. suspect \subseteq suspect' /\ suspect' \subseteq Contents
    BY <1>1, <2>4, CallsAt, WriteCallsAre DEF KnowledgeTypes, Writing
  <2>6. KnowledgeTypes'
    BY <1>1, <2>3, <2>4, <2>5 DEF KnowledgeTypes, Indexed
  <2>7. ShownSafe' /\ HiddenSuspect' /\ TornSuspect' /\ \A d \in Contents : Safe(d) => Safe(d)'
    BY <2>4, <2>5, QuietSteps
  <2>8. WrittenSafe'
    <3>1. call'[p].at = "list"
      BY <2>3 DEF c
    <3> QED
      BY <2>3, <2>4, <2>5, <3>1 DEF DamageInv, WrittenSafe, Safe
  <2>9. PurgesSpare'
    <3> SUFFICES ASSUME NEW q \in Purging', NEW d \in Doomed(q)' \ suspect'
                 PROVE  /\ \A i \in DOMAIN Indexed' : ShowsActive(Indexed', i) => Indexed'[i].content # d
                        /\ \A w \in Writing' : call'[w].row.content = d => call'[w].row.status = "DELETED"
      BY DEF PurgesSpare
    <3>1. Indexed' = Indexed
      BY <2>4 DEF Indexed
    <3>2. \A w \in Writing' : w \in Writing /\ call'[w] = call[w]
      BY <2>3 DEF Writing, c
    <3>3. CASE q = p
      <4>1. d \notin Referenced
        BY <2>3, <3>3 DEF Doomed, c
      <4>2. \A i \in DOMAIN Indexed : ShowsActive(Indexed, i) => Indexed[i].content # d
        BY <1>1, <4>1, ShownRows DEF Referenced
      <4>3. \A w \in Writing : call[w].row.content # d
        BY <2>4
      <4> QED
        BY <3>1, <3>2, <4>2, <4>3
    <3>4. CASE q # p
      <4>1. q \in Purging /\ d \in Doomed(q) \ suspect
        BY <2>3, <2>5, <3>4 DEF Purging, Doomed
      <4>2. /\ \A i \in DOMAIN Indexed : ShowsActive(Indexed, i) => Indexed[i].content # d
            /\ \A w \in Writing : call[w].row.content = d => call[w].row.status = "DELETED"
        BY <4>1 DEF DamageInv, PurgesSpare
      <4> QED
        BY <3>1, <3>2, <4>2
    <3> QED
      BY <3>3, <3>4
  <2> QED
    BY <2>6, <2>7, <2>8, <2>9 DEF DamageInv
<1>3. CASE PurgeLists(p) \/ PurgeUnlinks(p)
  <2>1. PICK left \in SUBSET Contents :
          /\ Sweep(p, left) /\ left \subseteq Doomed(p) /\ p \in Purging
          /\ index' = index /\ clock' = clock /\ ids' = ids /\ deaths' = deaths
          /\ past' = past /\ suspect' = suspect
          /\ objects' \in [Contents -> {"none", "torn", "whole"}]
          /\ \A c \in Contents : objects'[c] = objects[c]
                                 \/ (objects'[c] = "none" /\ c \in Doomed(p))
    <3>1. CASE PurgeLists(p)
      BY <1>1, <3>1 DEF PurgeLists, KnowledgeTypes, Doomed, Purging
    <3>2. CASE PurgeUnlinks(p)
      <4>1. call[p].left \subseteq Contents /\ call[p].at = "sweep"
        BY <1>1, <3>2, CallsAt DEF PurgeUnlinks, KnowledgeTypes
      <4> QED
        BY <1>1, <3>2, <4>1 DEF PurgeUnlinks, KnowledgeTypes, Doomed, Purging
    <3> QED
      BY <1>3, <3>1, <3>2
  <2>2. /\ call' \in [Processes -> Calls]
        /\ call'[p] = Idle \/ call'[p] = [at |-> "sweep", left |-> left]
        /\ \A q \in Processes : q # p => call'[q] = call[q]
    <3>1. Idle \in Calls /\ [at |-> "sweep", left |-> left] \in Calls
      BY DEF Calls
    <3>2. Enter(p, Idle) \/ Enter(p, [at |-> "sweep", left |-> left])
      BY <2>1 DEF Sweep
    <3> QED
      BY <1>1, <3>1, <3>2, Entered DEF KnowledgeTypes
  <2>3. KnowledgeTypes'
    BY <1>1, <2>1, <2>2 DEF KnowledgeTypes, Indexed
  <2>4. \A c \in Contents : c \in Doomed(p) \ suspect =>
          /\ \A i \in DOMAIN Indexed : ShowsActive(Indexed, i) => Indexed[i].content # c
          /\ \A q \in Writing : call[q].row.content = c => call[q].row.status = "DELETED"
    BY <2>1 DEF DamageInv, PurgesSpare
  <2>5. Indexed' = Indexed
    BY <2>1 DEF Indexed
  <2>6. ShownSafe'
    BY <1>1, <2>1, <2>4, <2>5, IndexedRows DEF DamageInv, ShownSafe, Safe
  <2>7. HiddenSuspect' /\ TornSuspect'
    BY <2>1, <2>5 DEF DamageInv, HiddenSuspect, TornSuspect
  <2>8. \A q \in Processes : call'[q].at \notin {"idle", "sweep"} => call'[q] = call[q]
    BY <2>2 DEF Idle
  <2>9. WrittenSafe'
    <3> SUFFICES ASSUME NEW q \in Processes, call'[q].at \in {"stamp", "append"}, call'[q].row.status = "ACTIVE"
                 PROVE  objects'[call'[q].row.content] = "whole" \/ call'[q].row.content \in suspect'
      BY DEF WrittenSafe, Safe
    <3>1. /\ call'[q] = call[q] /\ q \in Writing /\ call[q].row.content \in Contents
      BY <1>1, <2>8, CallsAt, WriteCallsAre DEF KnowledgeTypes, Writing
    <3>2. Safe(call[q].row.content)
      BY <3>1 DEF DamageInv, WrittenSafe
    <3> QED
      BY <2>1, <2>4, <3>1, <3>2 DEF Safe
  <2>10. PurgesSpare'
    <3>1. \A q \in Purging' : q \in Purging /\ Doomed(q)' \subseteq Doomed(q)
      <4>1. ASSUME NEW q \in Purging' PROVE q \in Purging /\ Doomed(q)' \subseteq Doomed(q)
        <5>1. CASE q = p
          BY <2>1, <2>2, <5>1 DEF Purging, Doomed, Idle
        <5>2. CASE q # p
          BY <2>2, <5>2 DEF Purging, Doomed
        <5> QED
          BY <5>1, <5>2
      <4> QED
        BY <4>1
    <3>2. \A q \in Writing' : q \in Writing /\ call'[q] = call[q]
      BY <2>8 DEF Writing
    <3> QED
      BY <2>1, <3>1, <3>2, PurgesGoOn
  <2> QED
    BY <2>3, <2>6, <2>7, <2>9, <2>10 DEF DamageInv
<1> QED
  BY <1>2, <1>3

\* A row is written, whole or not: what is shown after it was shown before, or is
\* the row, or was hidden by an unfinished line.
LEMMA ShownAfter ==
  ASSUME KnowledgeTypes, NEW r \in IndexRow, index' \in PartialAppends(index, r),
         NEW i \in DOMAIN Indexed', Shows(Indexed', i)
  PROVE  \/ Indexed'[i] = r
         \/ i \in DOMAIN Indexed /\ Shows(Indexed, i) /\ Indexed'[i] = Indexed[i]
         \/ /\ i \in DOMAIN Solid(index) /\ Shows(Solid(index), i)
            /\ Indexed'[i] = Solid(index)[i]
            /\ Indexed' = Solid(index)
<1>1. IsTable(index, IndexRow) /\ Garbled \notin IndexRow
  BY GarbledIsNoIndexRow DEF KnowledgeTypes
<1>2. \/ Indexed' = Indexed
      \/ Added(index, index', r)
      \/ Indexed' = Solid(index)
  <2>1. CASE index' = index
    BY <2>1 DEF Indexed
  <2>2. CASE index' = AppendRow(index, r)
    BY <1>1, <2>2, SolidAppended DEF Indexed
  <2>3. CASE index' # index /\ index' # AppendRow(index, r)
    BY <1>1, <2>3, SolidCut DEF Indexed, Same
  <2> QED
    BY <2>1, <2>2, <2>3
<1>3. CASE Added(index, index', r)
  <2>1. /\ DOMAIN Indexed' = DOMAIN Indexed \cup {Len(index.lines) + 1}
        /\ Indexed'[Len(index.lines) + 1] = r
        /\ \A j \in DOMAIN Indexed : Indexed'[j] = Indexed[j]
    BY <1>3 DEF Added, Indexed
  <2> QED
    BY <2>1 DEF Shows
<1> QED
  BY <1>2, <1>3

\* A row is written, or what a crash leaves of it.
LEMMA IndexTypes ==
  ASSUME KnowledgeTypes, NEW r \in IndexRow, r.at <= clock, index' \in PartialAppends(index, r),
         objects' \in [Contents -> {"none", "torn", "whole"}],
         call' \in [Processes -> Calls], clock' = clock, ids' = ids, deaths' \in Nat,
         suspect' \subseteq Contents, past' \in [Sources -> SUBSET Nat]
  PROVE  KnowledgeTypes'
<1>1. IsTable(index, IndexRow) /\ Garbled \notin IndexRow
  BY GarbledIsNoIndexRow DEF KnowledgeTypes
<1>2. /\ IsTable(index', IndexRow)
      /\ Same(index, index') \/ Added(index, index', r) \/ Lost(index, index')
  BY <1>1, CutShort
<1>3. \A i \in DOMAIN Indexed' : Indexed'[i].at <= clock'
  <2> SUFFICES ASSUME NEW i \in DOMAIN Indexed' PROVE Indexed'[i].at <= clock
    OBVIOUS
  <2>1. i \in DOMAIN ReadRows(index')
    BY DEF Indexed
  <2>2. \/ ReadRows(index')[i] = r
        \/ i \in DOMAIN ReadRows(index) /\ ReadRows(index')[i] = ReadRows(index)[i]
    <3>1. CASE Same(index, index')
      BY <2>1, <3>1 DEF Same
    <3>2. CASE Added(index, index', r)
      BY <2>1, <3>2 DEF Added
    <3>3. CASE Lost(index, index')
      BY <2>1, <3>3 DEF Lost
    <3> QED
      BY <1>2, <3>1, <3>2, <3>3
  <2>3. Indexed'[i] = r \/ (i \in DOMAIN Indexed /\ Indexed'[i] = Indexed[i])
    BY <2>2 DEF Indexed
  <2> QED
    BY <2>3 DEF KnowledgeTypes
<1> QED
  BY <1>2, <1>3 DEF KnowledgeTypes

\* Every call that writes was stamped in the past, if it was.
StampsPast == \A p \in Writing : call[p].row.at <= clock

\* What is shown after a row was written is safe when the row is.
LEMMA ShownStaySafe ==
  ASSUME DamageInv, NEW r \in IndexRow, index' \in PartialAppends(index, r),
         \A c \in Contents : Safe(c) => objects'[c] = "whole" \/ c \in suspect',
         r.status = "ACTIVE" => objects'[r.content] = "whole" \/ r.content \in suspect'
  PROVE  ShownSafe'
<1>1. KnowledgeTypes
  BY DEF DamageInv
<1> SUFFICES ASSUME NEW i \in DOMAIN Indexed', Shows(Indexed', i), Indexed'[i].status = "ACTIVE"
             PROVE  objects'[Indexed'[i].content] = "whole" \/ Indexed'[i].content \in suspect'
  BY DEF ShownSafe, ShowsActive, Safe
<1>2. CASE Indexed'[i] = r
  BY <1>2
<1>3. CASE i \in DOMAIN Indexed /\ Shows(Indexed, i) /\ Indexed'[i] = Indexed[i]
  <2>1. Safe(Indexed[i].content) /\ Indexed[i].content \in Contents
    BY <1>1, <1>3, IndexedRows DEF DamageInv, ShownSafe, ShowsActive
  <2> QED
    BY <1>3, <2>1
<1>4. CASE /\ i \in DOMAIN Solid(index) /\ Shows(Solid(index), i)
           /\ Indexed'[i] = Solid(index)[i]
  <2>1. Solid(index)[i].content \in suspect \/ Shows(Indexed, i)
    BY <1>4 DEF DamageInv, HiddenSuspect, ShowsActive
  <2>2. i \in DOMAIN Indexed /\ Solid(index)[i] = Indexed[i]
    BY <1>1, <1>4, SolidRows DEF KnowledgeTypes, Indexed
  <2>3. Safe(Solid(index)[i].content) /\ Solid(index)[i].content \in Contents
    BY <1>1, <1>4, <2>1, <2>2, IndexedRows DEF DamageInv, ShownSafe, ShowsActive, Safe
  <2> QED
    BY <1>4, <2>3
<1> QED
  BY <1>1, <1>2, <1>3, <1>4, ShownAfter

\* A purge is not about to unlink what it shows, when the row was being written.
LEMMA PurgesStaySparing ==
  ASSUME DamageInv, NEW p \in Writing, index' \in PartialAppends(index, call[p].row),
         suspect \subseteq suspect',
         \A q \in Purging' : q \in Purging /\ call'[q] = call[q],
         \A q \in Writing' : q \in Writing /\ call'[q] = call[q]
  PROVE  PurgesSpare'
<1> DEFINE r == call[p].row
<1>1. KnowledgeTypes /\ r \in IndexRow
  BY CallsAt, WriteCallsAre DEF DamageInv, KnowledgeTypes, Writing
<1> SUFFICES ASSUME NEW q \in Purging', NEW c \in Doomed(q)' \ suspect'
             PROVE  /\ \A i \in DOMAIN Indexed' : ShowsActive(Indexed', i) => Indexed'[i].content # c
                    /\ \A w \in Writing' : call'[w].row.content = c => call'[w].row.status = "DELETED"
  BY DEF PurgesSpare
<1>2. q \in Purging /\ c \in Doomed(q) \ suspect
  BY DEF Doomed
<1>3. /\ \A i \in DOMAIN Indexed : ShowsActive(Indexed, i) => Indexed[i].content # c
      /\ \A w \in Writing : call[w].row.content = c => call[w].row.status = "DELETED"
  BY <1>2 DEF DamageInv, PurgesSpare
<1>4. ASSUME NEW i \in DOMAIN Indexed', Shows(Indexed', i), Indexed'[i].status = "ACTIVE"
      PROVE  Indexed'[i].content # c
  <2>1. CASE Indexed'[i] = r
    BY <1>3, <1>4, <2>1
  <2>2. CASE i \in DOMAIN Indexed /\ Shows(Indexed, i) /\ Indexed'[i] = Indexed[i]
    BY <1>3, <1>4, <2>2 DEF ShowsActive
  <2>3. CASE /\ i \in DOMAIN Solid(index) /\ Shows(Solid(index), i)
             /\ Indexed'[i] = Solid(index)[i]
    <3>1. Solid(index)[i].content \in suspect \/ Shows(Indexed, i)
      BY <1>4, <2>3 DEF DamageInv, HiddenSuspect, ShowsActive
    <3>2. i \in DOMAIN Indexed /\ Solid(index)[i] = Indexed[i]
      BY <1>1, <2>3, SolidRows DEF KnowledgeTypes, Indexed
    <3> QED
      BY <1>2, <1>3, <1>4, <2>3, <3>1, <3>2 DEF ShowsActive
  <2> HIDE DEF r
  <2> QED
    BY <1>1, <1>4, <2>1, <2>2, <2>3, ShownAfter DEF r
<1> QED
  BY <1>3, <1>4 DEF ShowsActive

\* An index row that is appended keeps the invariant of damage.
LEMMA AppendDamage ==
  ASSUME DamageInv, StampsPast, NEW p \in Processes, AppendIndexRow(p)
  PROVE  DamageInv'
<1> DEFINE r == call[p].row
<1>1. /\ KnowledgeTypes
      /\ call[p] \in WriteCalls /\ call[p].at = "append" /\ r \in IndexRow /\ p \in Writing
      /\ r.content \in Contents /\ r.source \in Sources /\ r.id \in Nat /\ r.at <= clock
      /\ call[p].todo \in Seq(SourceFile)
  BY CallsAt, WriteCallsAre DEF DamageInv, KnowledgeTypes, AppendIndexRow, Writing, StampsPast
<1>2. /\ index' = AppendRow(index, r) /\ index' \in PartialAppends(index, r)
      /\ objects' = objects /\ clock' = clock /\ ids' = ids /\ deaths' = deaths /\ suspect' = suspect
      /\ past' = [past EXCEPT ![r.source] = @ \cup {r.id}]
  BY WholeAppend DEF AppendIndexRow
<1> HIDE DEF r
<1>3. /\ call' \in [Processes -> Calls] /\ call'[p].at \in {"idle", "next"}
      /\ \A q \in Processes : q # p => call'[q] = call[q]
  <2> DEFINE c == IF call[p].todo = <<>> THEN Idle ELSE [at |-> "next", todo |-> call[p].todo]
  <2>1. c \in Calls /\ c.at \in {"idle", "next"}
    BY <1>1 DEF Calls, Idle
  <2>2. Enter(p, c)
    BY DEF AppendIndexRow
  <2> HIDE DEF c
  <2> QED
    BY <1>1, <2>1, <2>2, Entered DEF KnowledgeTypes
<1>4. KnowledgeTypes'
  <2>1. past' \in [Sources -> SUBSET Nat]
    BY <1>1, <1>2 DEF KnowledgeTypes
  <2> QED
    BY <1>1, <1>2, <1>3, <2>1, IndexTypes DEF KnowledgeTypes
<1>5. r.status = "ACTIVE" => Safe(r.content)
  BY <1>1 DEF DamageInv, WrittenSafe, r
<1>6. ShownSafe'
  BY <1>1, <1>2, <1>5, ShownStaySafe DEF Safe
<1>7. HiddenSuspect'
  <2>1. Solid(index') = Indexed'
    BY <1>1, <1>2, SolidAppended, GarbledIsNoIndexRow DEF KnowledgeTypes, Indexed
  <2> QED
    BY <2>1 DEF HiddenSuspect, ShowsActive
<1>8. TornSuspect'
  BY <1>2 DEF DamageInv, TornSuspect
<1>9. WrittenSafe'
  BY <1>2, <1>3 DEF DamageInv, WrittenSafe, Safe
<1>10. PurgesSpare'
  <2>1. \A q \in Purging' : q \in Purging /\ call'[q] = call[q]
    BY <1>3 DEF Purging
  <2>2. \A q \in Writing' : q \in Writing /\ call'[q] = call[q]
    BY <1>3 DEF Writing
  <2> QED
    BY <1>1, <1>2, <2>1, <2>2, PurgesStaySparing DEF r
<1> QED
  BY <1>4, <1>6, <1>7, <1>8, <1>9, <1>10 DEF DamageInv

\* A row that is cut short hides only what is suspect now.
LEMMA DieHides ==
  ASSUME DamageInv, NEW r \in IndexRow, index' \in PartialAppends(index, r),
         suspect \cup {row.content : row \in ActiveOf(r.source)} \subseteq suspect'
  PROVE  HiddenSuspect'
<1>1. KnowledgeTypes /\ IsTable(index, IndexRow) /\ Garbled \notin IndexRow
  BY GarbledIsNoIndexRow DEF DamageInv, KnowledgeTypes
<1>2. CASE index' = index
  BY <1>2 DEF DamageInv, HiddenSuspect, Indexed
<1>3. CASE index' = AppendRow(index, r)
  <2>1. Solid(index') = Indexed'
    BY <1>1, <1>3, SolidAppended DEF Indexed
  <2> QED
    BY <2>1 DEF HiddenSuspect, ShowsActive
<1>4. CASE index' # index /\ index' # AppendRow(index, r)
  <2>1. /\ Solid(index') = Solid(index)
        /\ index.ended => Indexed' = Indexed \/ Added(index, index', r)
        /\ ~ index.ended => Indexed' = Solid(index)
    BY <1>1, <1>4, SolidCut DEF Same, Indexed
  <2>2. CASE ~ index.ended
    BY <2>1, <2>2 DEF HiddenSuspect, ShowsActive
  <2>3. CASE Indexed' = Indexed
    BY <2>1, <2>3 DEF DamageInv, HiddenSuspect
  <2>4. CASE index.ended /\ Added(index, index', r)
    <3>1. Solid(index) = Indexed
      BY <1>1, <2>4, SolidRows DEF Indexed
    <3>2. /\ DOMAIN Indexed' = DOMAIN Indexed \cup {Len(index.lines) + 1}
          /\ Indexed'[Len(index.lines) + 1] = r
          /\ \A j \in DOMAIN Indexed : Indexed'[j] = Indexed[j]
      BY <2>4 DEF Added, Indexed
    <3>3. ASSUME NEW i \in DOMAIN Indexed, ShowsActive(Indexed, i)
          PROVE  Indexed[i].content \in suspect' \/ Shows(Indexed', i)
      <4>1. CASE Indexed[i].source = r.source
        <5>1. Indexed[i] \in ActiveOf(r.source)
          BY <1>1, <3>3, <4>1, ShownRows DEF ActiveOf
        <5> QED
          BY <5>1
      <4>2. CASE Indexed[i].source # r.source
        BY <3>2, <3>3, <4>2 DEF Shows, ShowsActive
      <4> QED
        BY <4>1, <4>2
    <3> QED
      BY <2>1, <3>1, <3>3 DEF HiddenSuspect
  <2> QED
    BY <2>1, <2>2, <2>3, <2>4
<1> QED
  BY <1>2, <1>3, <1>4

\* A death anywhere keeps it.
LEMMA DieDamage ==
  ASSUME DamageInv, StampsPast, NEW p \in Processes, Die(p)
  PROVE  DamageInv'
<1> DEFINE r == call[p].row
<1>1. KnowledgeTypes
  BY DEF DamageInv
<1>2. /\ call' \in [Processes -> Calls] /\ call'[p].at = "idle"
      /\ \A q \in Processes : q # p => call'[q] = call[q]
  <2>1. Idle \in Calls /\ Idle.at = "idle" /\ Enter(p, Idle)
    BY DEF Calls, Idle, Die
  <2> QED
    BY <1>1, <2>1, Entered DEF KnowledgeTypes
<1>3. clock' = clock /\ ids' = ids /\ deaths' = deaths + 1 /\ past' = past
  BY DEF Die
<1>4. /\ \A q \in Purging' : q \in Purging /\ call'[q] = call[q]
      /\ \A q \in Writing' : q \in Writing /\ call'[q] = call[q]
  BY <1>2 DEF Purging, Writing
<1>5. CASE p \notin Writing
  <2>1. index' = index /\ objects' = objects /\ suspect' = suspect
    BY <1>5 DEF Die, Writing
  <2>2. KnowledgeTypes'
    BY <1>1, <1>2, <1>3, <2>1 DEF KnowledgeTypes, Indexed
  <2>3. ShownSafe' /\ HiddenSuspect' /\ TornSuspect'
    BY <2>1, QuietSteps
  <2>4. WrittenSafe'
    BY <1>2, <2>1 DEF DamageInv, WrittenSafe, Safe
  <2>5. PurgesSpare'
    <3>1. \A q \in Purging' : Doomed(q)' \subseteq Doomed(q)
      BY <1>4 DEF Doomed
    <3> QED
      BY <1>4, <2>1, <3>1, PurgesGoOn
  <2> QED
    BY <2>2, <2>3, <2>4, <2>5 DEF DamageInv
<1>6. CASE p \in Writing
  <2>1. /\ call[p] \in WriteCalls /\ r \in IndexRow
        /\ r.content \in Contents /\ r.at <= clock
    BY <1>1, <1>6, CallsAt, WriteCallsAre DEF KnowledgeTypes, Writing, StampsPast
  <2>2. suspect' = suspect \cup {r.content} \cup {row.content : row \in ActiveOf(r.source)}
    BY <1>6 DEF Die
  <2>3. /\ index' \in PartialAppends(index, r)
        /\ objects' \in [Contents -> {"none", "torn", "whole"}]
        /\ \A c \in Contents : c # r.content => objects'[c] = objects[c]
    <3>1. objects' = objects \/ \E left \in {objects[r.content], "torn"} : objects' = [objects EXCEPT ![r.content] = left]
      BY DEF Die
    <3>2. index' \in PartialAppends(index, r)
      BY DEF Die, PartialAppends
    <3> QED
      BY <1>1, <2>1, <3>1, <3>2 DEF KnowledgeTypes
  <2> HIDE DEF r
  <2>4. suspect \subseteq suspect' /\ r.content \in suspect' /\ suspect' \subseteq Contents
    <3>1. \A row \in ActiveOf(r.source) : row.content \in Contents
      BY <1>1, ShownRows DEF IndexRow
    <3> QED
      BY <1>1, <2>1, <2>2, <3>1 DEF KnowledgeTypes
  <2>5. KnowledgeTypes'
    BY <1>1, <1>2, <1>3, <2>1, <2>3, <2>4, IndexTypes DEF KnowledgeTypes
  <2>6. \A c \in Contents : Safe(c) => objects'[c] = "whole" \/ c \in suspect'
    BY <2>3, <2>4 DEF Safe
  <2>7. ShownSafe'
    BY <2>1, <2>3, <2>4, <2>6, ShownStaySafe
  <2>8. HiddenSuspect'
    BY <2>1, <2>2, <2>3, DieHides
  <2>9. TornSuspect'
    BY <2>3, <2>4 DEF DamageInv, TornSuspect
  <2>10. WrittenSafe'
    <3> SUFFICES ASSUME NEW q \in Processes, call'[q].at \in {"stamp", "append"}, call'[q].row.status = "ACTIVE"
                 PROVE  objects'[call'[q].row.content] = "whole" \/ call'[q].row.content \in suspect'
      BY DEF WrittenSafe, Safe
    <3>1. /\ call'[q] = call[q] /\ call[q].row.content \in Contents
      BY <1>1, <1>2, CallsAt, WriteCallsAre DEF KnowledgeTypes
    <3>2. Safe(call[q].row.content)
      BY <3>1 DEF DamageInv, WrittenSafe
    <3> QED
      BY <2>6, <3>1, <3>2
  <2>11. PurgesSpare'
    BY <1>4, <1>6, <2>3, <2>4, PurgesStaySparing DEF r
  <2> QED
    BY <2>5, <2>7, <2>8, <2>9, <2>10, <2>11 DEF DamageInv
<1> QED
  BY <1>5, <1>6

-----------------------------------------------------------------------------
(* What a step does to ids, rows and stamps *)

OthersStay(p) == \A q \in Processes : q # p => call'[q] = call[q]

Begins(p) ==
  /\ p \notin Writing /\ p \in Writing'
  /\ call'[p].at # "append"
  /\ call'[p].row.id = ids /\ call'[p].row.at = 0
  /\ call'[p].row.source \in Sources
  /\ call'[p].over = past[call'[p].row.source]
  /\ ids' = ids + 1
  /\ OthersStay(p)
  /\ UNCHANGED <<index, clock, deaths, past, overridden>>

GoesOn(p) ==
  /\ p \in Writing /\ p \in Writing'
  /\ call'[p].row.id = call[p].row.id
  /\ call'[p].row.source = call[p].row.source
  /\ call'[p].over = call[p].over
  /\ call'[p].at = "append" => call'[p].row.at = clock'
  /\ call'[p].row.at \in {call[p].row.at, clock'}
  /\ clock <= clock' /\ clock' \in Nat
  /\ OthersStay(p)
  /\ UNCHANGED <<index, ids, deaths, past, overridden>>

Purges(p) ==
  /\ p \notin Writing /\ p \notin Writing'
  /\ OthersStay(p)
  /\ UNCHANGED <<index, clock, ids, deaths, past, overridden>>

\* An ingest that checks for its object begins a call.
LEMMA CheckBegins ==
  ASSUME KnowledgeTypes, NEW p \in Processes, NEW todo \in Seq(SourceFile), todo # <<>>,
         call[p].at \in {"idle", "next"}, CheckObject(p, todo)
  PROVE  Begins(p)
<1> DEFINE file == Head(todo)
           row  == [source |-> file.source, content |-> file.content,
                    status |-> "ACTIVE", id |-> ids, at |-> 0]
           c    == [at   |-> IF objects[file.content] = "none" THEN "write" ELSE "stamp",
                    todo |-> Tail(todo), row |-> row, over |-> past[file.source]]
<1>1. file.source \in Sources
  <2>1. file \in SourceFile
    BY HeadTailProperties
  <2> QED
    BY <2>1 DEF SourceFile
<1>2. Enter(p, c) /\ ids' = ids + 1 /\ UNCHANGED <<index, clock, deaths, past, overridden>>
  BY DEF CheckObject
<1>3. call'[p] = c /\ OthersStay(p)
  <2> HIDE DEF c
  <2> QED
    BY <1>2 DEF Enter, KnowledgeTypes, OthersStay
<1>4. c.at \in {"write", "stamp"} /\ c.row = row /\ c.over = past[file.source]
  OBVIOUS
<1>5. row.id = ids /\ row.at = 0 /\ row.source = file.source
  OBVIOUS
<1> HIDE DEF c, row, file
<1> QED
  BY <1>1, <1>2, <1>3, <1>4, <1>5 DEF Begins, Writing

\* A removal begins a call.
LEMMA RemoveBegins ==
  ASSUME KnowledgeTypes, NEW p \in Processes, NEW s \in Sources, RemoveIndexRow(p, s)
  PROVE  Begins(p)
<1>1. PICK active \in ActiveOf(s) :
        Enter(p, [at |-> "stamp", todo |-> <<>>, over |-> past[s],
                  row |-> [active EXCEPT !.status = "DELETED", !.id = ids, !.at = 0]])
  BY DEF RemoveIndexRow
<1> DEFINE row == [active EXCEPT !.status = "DELETED", !.id = ids, !.at = 0]
           c   == [at |-> "stamp", todo |-> <<>>, over |-> past[s], row |-> row]
<1>2. active \in IndexRow /\ active.source = s
  BY ShownRows
<1>3. row.id = ids /\ row.at = 0 /\ row.source = s
  BY <1>2 DEF IndexRow
<1>4. c.at = "stamp" /\ c.row = row /\ c.over = past[s]
  OBVIOUS
<1>5. call'[p] = c /\ OthersStay(p)
  <2>1. Enter(p, c)
    BY <1>1
  <2> HIDE DEF c
  <2> QED
    BY <2>1 DEF Enter, KnowledgeTypes, OthersStay
<1>6. call[p] = Idle /\ ids' = ids + 1 /\ UNCHANGED <<index, clock, deaths, past, overridden>>
  BY DEF RemoveIndexRow
<1> HIDE DEF c, row
<1> QED
  BY <1>3, <1>4, <1>5, <1>6 DEF Begins, Writing, Idle

\* A call that writes its object or takes its time goes on.
LEMMA WriteGoesOn ==
  ASSUME KnowledgeTypes, NEW p \in Processes, WriteObject(p) \/ Stamp(p)
  PROVE  GoesOn(p)
<1>1. CASE WriteObject(p)
  <2> DEFINE c == [call[p] EXCEPT !.at = "stamp"]
  <2>1. call[p] \in WriteCalls /\ call[p].at = "write"
    BY <1>1, CallsAt DEF WriteObject, KnowledgeTypes
  <2>2. c.at = "stamp" /\ c.row = call[p].row /\ c.over = call[p].over
    BY <2>1 DEF WriteCalls
  <2>3. call'[p] = c /\ OthersStay(p)
    <3>1. Enter(p, c)
      BY <1>1 DEF WriteObject
    <3> HIDE DEF c
    <3> QED
      BY <3>1 DEF Enter, KnowledgeTypes, OthersStay
  <2>4. UNCHANGED <<index, clock, ids, deaths, past, overridden>>
    BY <1>1 DEF WriteObject
  <2> HIDE DEF c
  <2> QED
    BY <2>1, <2>2, <2>3, <2>4 DEF GoesOn, Writing, KnowledgeTypes
<1>2. CASE Stamp(p)
  <2> DEFINE c == [call[p] EXCEPT !.at = "append", !.row.at = clock']
  <2>1. call[p] \in WriteCalls /\ call[p].at = "stamp" /\ call[p].row \in IndexRow
    BY <1>2, CallsAt, WriteCallsAre DEF Stamp, KnowledgeTypes
  <2>2. /\ c.at = "append" /\ c.over = call[p].over
        /\ c.row.id = call[p].row.id /\ c.row.source = call[p].row.source /\ c.row.at = clock'
    BY <2>1 DEF WriteCalls, IndexRow
  <2>3. call'[p] = c /\ OthersStay(p)
    <3>1. Enter(p, c)
      BY <1>2 DEF Stamp
    <3> HIDE DEF c
    <3> QED
      BY <3>1 DEF Enter, KnowledgeTypes, OthersStay
  <2>4. UNCHANGED <<index, ids, deaths, past, overridden>> /\ clock' \in {clock, clock + 1}
    BY <1>2 DEF Stamp
  <2> HIDE DEF c
  <2> QED
    BY <2>1, <2>2, <2>3, <2>4 DEF GoesOn, Writing, KnowledgeTypes
<1> QED
  BY <1>1, <1>2

\* The steps of a purge purge.
LEMMA PurgePurges ==
  ASSUME KnowledgeTypes, NEW p \in Processes, PurgeReads(p) \/ PurgeLists(p) \/ PurgeUnlinks(p)
  PROVE  Purges(p)
<1>1. PICK c : Enter(p, c) /\ c.at \in {"idle", "list", "sweep"}
  <2>1. ASSUME NEW left, Sweep(p, left) PROVE \E c : Enter(p, c) /\ c.at \in {"idle", "list", "sweep"}
    <3> DEFINE c == IF left = {} THEN Idle ELSE [at |-> "sweep", left |-> left]
    <3>1. Enter(p, c) /\ c.at \in {"idle", "sweep"}
      BY <2>1 DEF Sweep, Idle
    <3> HIDE DEF c
    <3> QED
      BY <3>1
  <2>2. ASSUME PurgeReads(p) PROVE \E c : Enter(p, c) /\ c.at \in {"idle", "list", "sweep"}
    <3> DEFINE c == [at |-> "list", referenced |-> Referenced]
    <3>1. Enter(p, c) /\ c.at = "list"
      BY <2>2 DEF PurgeReads
    <3> HIDE DEF c
    <3> QED
      BY <3>1
  <2> QED
    BY <2>1, <2>2 DEF PurgeLists, PurgeUnlinks
<1>2. call'[p] = c /\ OthersStay(p)
  BY <1>1 DEF Enter, KnowledgeTypes, OthersStay
<1>3. call[p].at \in {"idle", "list", "sweep"} /\ UNCHANGED <<index, clock, ids, deaths, past, overridden>>
  BY DEF PurgeReads, PurgeLists, PurgeUnlinks, Idle
<1> QED
  BY <1>1, <1>2, <1>3 DEF Purges, Writing

\* What a directory is ingested as is a sequence of its files.
LEMMA DirectoryInOrder ==
  ASSUME NEW given \in [Sources -> Contents], NEW wanted \in {Sources, Markdown}, wanted # {},
         NEW order \in [1 .. Cardinality(wanted) -> wanted]
  PROVE  LET todo == [i \in DOMAIN order |-> [source |-> order[i], content |-> given[order[i]]]]
         IN  todo \in Seq(SourceFile) /\ todo # <<>>
<1> DEFINE todo == [i \in DOMAIN order |-> [source |-> order[i], content |-> given[order[i]]]]
           n    == Cardinality(wanted)
<1>1. wanted \subseteq Sources /\ IsFiniteSet(wanted)
  BY KnowledgeAssumption, FS_Subset
<1>2. n \in Nat /\ n # 0
  BY <1>1, FS_CardinalityType, FS_EmptySet
<1>3. DOMAIN order = 1 .. n /\ \A i \in 1 .. n : order[i] \in Sources
  BY <1>1
<1>4. todo \in [1 .. n -> SourceFile]
  BY <1>3 DEF SourceFile
<1> HIDE DEF n
<1> HIDE DEF todo
<1>5. todo \in Seq(SourceFile) /\ Len(todo) = n
  BY <1>2, <1>4, SeqDef
<1> QED
  BY <1>2, <1>5 DEF todo

\* Every step of the store is of one of these kinds.
LEMMA StepKinds ==
  ASSUME KnowledgeTypes, KNext
  PROVE  \E p \in Processes :
           \/ \E todo \in Seq(SourceFile) :
                todo # <<>> /\ call[p].at \in {"idle", "next"} /\ CheckObject(p, todo)
           \/ \E s \in Sources : RemoveIndexRow(p, s)
           \/ WriteObject(p) \/ Stamp(p)
           \/ AppendIndexRow(p)
           \/ PurgeReads(p) \/ PurgeLists(p) \/ PurgeUnlinks(p)
           \/ Die(p)
<1> DEFINE Checks(p) == \E todo \in Seq(SourceFile) :
                          todo # <<>> /\ call[p].at \in {"idle", "next"} /\ CheckObject(p, todo)
<1>1. ASSUME NEW p \in Processes, NEW s \in Sources, NEW c \in Contents, KIngest(p, s, c)
      PROVE  Checks(p)
  <2> DEFINE todo == <<[source |-> s, content |-> c]>>
  <2>1. todo \in Seq(SourceFile) /\ todo # <<>>
    BY DEF SourceFile
  <2>2. CheckObject(p, todo) /\ call[p].at = "idle"
    BY <1>1 DEF KIngest, Idle
  <2> HIDE DEF todo
  <2> QED
    BY <2>1, <2>2
<1>2. ASSUME NEW p \in Processes, NEW given \in [Sources -> Contents], NEW wanted \in {Sources, Markdown},
             IngestDirectory(p, given, wanted)
      PROVE  Checks(p)
  <2>1. PICK order \in [1 .. Cardinality(wanted) -> wanted] :
          CheckObject(p, [i \in DOMAIN order |-> [source |-> order[i], content |-> given[order[i]]]])
    BY <1>2 DEF IngestDirectory
  <2> DEFINE todo == [i \in DOMAIN order |-> [source |-> order[i], content |-> given[order[i]]]]
  <2>2. wanted # {} /\ call[p].at = "idle"
    BY <1>2 DEF IngestDirectory, Idle
  <2>3. todo \in Seq(SourceFile) /\ todo # <<>> /\ CheckObject(p, todo)
    BY <2>1, <2>2, DirectoryInOrder
  <2> HIDE DEF todo
  <2> QED
    BY <2>2, <2>3
<1>3. ASSUME NEW p \in Processes, NextFile(p) PROVE Checks(p)
  BY <1>3, CallsAt DEF NextFile, KnowledgeTypes
<1> HIDE DEF Checks
<1>4. \E p \in Processes :
           \/ Checks(p)
           \/ \E s \in Sources : RemoveIndexRow(p, s)
           \/ WriteObject(p) \/ Stamp(p)
           \/ AppendIndexRow(p)
           \/ PurgeReads(p) \/ PurgeLists(p) \/ PurgeUnlinks(p)
           \/ Die(p)
  BY <1>1, <1>2, <1>3 DEF KNext
<1> QED
  BY <1>4 DEF Checks

\* DamageInv lasts, and with it that stamps are past.
LEMMA NextDamageInv == DamageInv /\ StampsPast /\ [KNext]_kvars => DamageInv' /\ StampsPast'
<1> SUFFICES ASSUME DamageInv, StampsPast, [KNext]_kvars PROVE DamageInv' /\ StampsPast'
  OBVIOUS
<1>1. KnowledgeTypes
  BY DEF DamageInv
<1>2. CASE KNext
  <2>1. PICK p \in Processes :
           \/ \E todo \in Seq(SourceFile) :
                todo # <<>> /\ call[p].at \in {"idle", "next"} /\ CheckObject(p, todo)
           \/ \E s \in Sources : RemoveIndexRow(p, s)
           \/ WriteObject(p) \/ Stamp(p)
           \/ AppendIndexRow(p)
           \/ PurgeReads(p) \/ PurgeLists(p) \/ PurgeUnlinks(p)
           \/ Die(p)
    BY <1>1, <1>2, StepKinds
  <2>2. ASSUME Begins(p) PROVE StampsPast'
    BY <1>1, <2>2 DEF Begins, StampsPast, Writing, OthersStay, KnowledgeTypes
  <2>3. ASSUME GoesOn(p) PROVE StampsPast'
    <3> SUFFICES ASSUME NEW q \in Writing' PROVE call'[q].row.at <= clock'
      BY DEF StampsPast
    <3>1. q = p \/ (q \in Writing /\ call'[q] = call[q])
      BY <2>3 DEF GoesOn, Writing, OthersStay
    <3>2. call[q] \in WriteCalls /\ call[q].row.at \in Nat /\ call[q].row.at <= clock
      <4>1. q \in Writing
        BY <2>3, <3>1 DEF GoesOn
      <4> QED
        BY <1>1, <4>1, CallsAt, WriteCallsAre DEF Writing, KnowledgeTypes, StampsPast
    <3> QED
      BY <1>1, <2>3, <3>1, <3>2 DEF GoesOn, KnowledgeTypes
  <2>4. ASSUME Purges(p) PROVE StampsPast'
    BY <2>4 DEF Purges, StampsPast, Writing, OthersStay
  <2>5. ASSUME clock' = clock, \A q \in Writing' : q \in Writing /\ call'[q] = call[q]
        PROVE  StampsPast'
    BY <2>5 DEF StampsPast
  <2>6. ASSUME NEW todo \in Seq(SourceFile), todo # <<>>, call[p].at \in {"idle", "next"}, CheckObject(p, todo)
        PROVE  DamageInv' /\ StampsPast'
    BY <1>1, <2>2, <2>6, CheckDamage, CheckBegins
  <2>7. ASSUME NEW s \in Sources, RemoveIndexRow(p, s) PROVE DamageInv' /\ StampsPast'
    BY <1>1, <2>2, <2>7, GoOnDamage, RemoveBegins
  <2>8. ASSUME WriteObject(p) \/ Stamp(p) PROVE DamageInv' /\ StampsPast'
    BY <1>1, <2>3, <2>8, GoOnDamage, WriteGoesOn
  <2>9. ASSUME PurgeReads(p) \/ PurgeLists(p) \/ PurgeUnlinks(p) PROVE DamageInv' /\ StampsPast'
    BY <1>1, <2>4, <2>9, PurgeDamage, PurgePurges
  <2>10. ASSUME AppendIndexRow(p) PROVE DamageInv' /\ StampsPast'
    <3>1. clock' = clock /\ \E c : Enter(p, c) /\ c.at \in {"idle", "next"}
      BY <2>10 DEF AppendIndexRow, Idle
    <3>2. \A q \in Writing' : q \in Writing /\ call'[q] = call[q]
      BY <1>1, <3>1 DEF Enter, Writing, KnowledgeTypes
    <3> QED
      BY <2>5, <2>10, <3>1, <3>2, AppendDamage
  <2>11. ASSUME Die(p) PROVE DamageInv' /\ StampsPast'
    <3>1. clock' = clock /\ Enter(p, Idle) /\ Idle.at = "idle"
      BY <2>11 DEF Die, Idle
    <3>2. \A q \in Writing' : q \in Writing /\ call'[q] = call[q]
      BY <1>1, <3>1 DEF Enter, Writing, KnowledgeTypes
    <3> QED
      BY <2>5, <2>11, <3>1, <3>2, DieDamage
  <2> QED
    BY <2>1, <2>6, <2>7, <2>8, <2>9, <2>10, <2>11
<1>3. CASE UNCHANGED kvars
  BY <1>3 DEF kvars, DamageInv, KnowledgeTypes, ShownSafe, HiddenSuspect, TornSuspect, WrittenSafe,
              PurgesSpare, StampsPast, Indexed, Safe, Purging, Writing, Doomed
<1> QED
  BY <1>2, <1>3

\* The invariant holds in every state.
LEMMA DamageInvHolds == KSpec => [](DamageInv /\ StampsPast)
<1>1. KInit => DamageInv /\ StampsPast
  <2>1. KInit => StampsPast
    BY DEF KInit, StampsPast, Writing, Idle
  <2> QED
    BY <2>1, InitDamageInv
<1> QED
  BY <1>1, NextDamageInv, PTL DEF KSpec

\* For any number of processes, sources and contents, whatever calls of several
\* processes interleave, purge and die: an active row has its object, unless a
\* death or an ingest beside a purge made its content suspect
\* (src/core/knowledge-store.mjs, ingest, removeIndexRow and purgeUnreferenced).
THEOREM DamageIsConfined == KSpec => []DamageConfined
<1>1. DamageInv => DamageConfined
  BY ShownRows DEF DamageInv, ShownSafe, Safe, DamageConfined
<1> QED
  BY <1>1, DamageInvHolds, PTL


\* Rows after a write are those before it, and the one written.
LEMMA IndexWritten ==
  ASSUME KnowledgeTypes, NEW r \in IndexRow, index' \in PartialAppends(index, r)
  PROVE  \A i \in DOMAIN Indexed' :
           \/ i = Len(index.lines) + 1 /\ Indexed'[i] = r
           \/ i \in DOMAIN Indexed /\ Indexed'[i] = Indexed[i]
<1>1. IsTable(index, IndexRow) /\ Garbled \notin IndexRow
  BY GarbledIsNoIndexRow DEF KnowledgeTypes
<1>2. Same(index, index') \/ Added(index, index', r) \/ Lost(index, index')
  BY <1>1, CutShort
<1> QED
  BY <1>2 DEF Same, Added, Lost, Indexed

\* A call that is done writing leaves its id to its row, if that is there.
LEMMA IdsAfterWrite ==
  ASSUME KnowledgeTypes, IdsUnique, NEW p \in Writing, index' \in PartialAppends(index, call[p].row),
         ids' = ids, \A q \in Writing' : q \in Writing /\ q # p /\ call'[q] = call[q]
  PROVE  IdsUnique'
<1> DEFINE r == call[p].row
           n == Len(index.lines) + 1
<1>1. r \in IndexRow
  BY CallsAt, WriteCallsAre DEF KnowledgeTypes, Writing
<1>2. \A i \in DOMAIN Indexed' : \/ i = n /\ Indexed'[i] = r
                                 \/ i \in DOMAIN Indexed /\ Indexed'[i] = Indexed[i]
  BY <1>1, IndexWritten
<1>3. \A i \in DOMAIN Indexed' : Indexed'[i].id < ids'
  BY <1>2 DEF IdsUnique
<1>4. \A q \in Writing' : call'[q].row.id < ids'
  BY DEF IdsUnique
<1>5. \A i, j \in DOMAIN Indexed' : Indexed'[i].id = Indexed'[j].id => i = j
  BY <1>2 DEF IdsUnique
<1>6. \A i \in DOMAIN Indexed', q \in Writing' : Indexed'[i].id # call'[q].row.id
  BY <1>2 DEF IdsUnique
<1>7. \A q, w \in Writing' : call'[q].row.id = call'[w].row.id => q = w
  BY DEF IdsUnique
<1> QED
  BY <1>3, <1>4, <1>5, <1>6, <1>7 DEF IdsUnique

\* Steps that write no row: one call begins, goes on or ends.
LEMMA UnwrittenCalls ==
  ASSUME CallsInv, NEW p \in Processes,
         Begins(p) \/ GoesOn(p) \/ Purges(p)
  PROVE  IdsUnique' /\ PastTrue' /\ StampsInOrder' /\ DeathsPay'
<1>1. /\ KnowledgeTypes /\ IdsUnique /\ PastTrue /\ StampsInOrder /\ DeathsPay
      /\ Indexed' = Indexed /\ index' = index /\ past' = past /\ overridden' = overridden /\ deaths' = deaths
  BY DEF CallsInv, Begins, GoesOn, Purges, Indexed
<1>2. DeathsPay'
  BY <1>1 DEF DeathsPay, Overtaken
<1>3. CASE Begins(p)
  <2>1. /\ \A q \in Writing' : q = p \/ (q \in Writing /\ q # p /\ call'[q] = call[q])
        /\ call'[p].row.id = ids /\ ids' = ids + 1 /\ ids \in Nat
        /\ call'[p].row.source \in Sources
        /\ call'[p].over = past[call'[p].row.source]
        /\ call'[p].at # "append"
    BY <1>1, <1>3 DEF Begins, Writing, OthersStay, KnowledgeTypes
  <2>2. /\ \A i \in DOMAIN Indexed : Indexed[i].id < ids /\ Indexed[i].id \in Nat
        /\ \A q \in Writing : call[q].row.id < ids /\ call[q].row.id \in Nat
        /\ \A s \in Sources : \A x \in past[s] : x < ids /\ x \in Nat
    BY <1>1, IndexedRows, CallsAt, WriteCallsAre DEF IdsUnique, PastTrue, KnowledgeTypes, Writing
  <2>3. IdsUnique'
    BY <1>1, <2>1, <2>2 DEF IdsUnique
  <2>4. PastTrue'
    BY <1>1, <2>1, <2>2 DEF PastTrue
  <2>5. StampsInOrder'
    <3> SUFFICES ASSUME NEW q \in Processes, call'[q].at = "append"
                 PROVE  \A i \in DOMAIN Indexed' : Indexed'[i].id \in call'[q].over => Indexed'[i].at <= call'[q].row.at
      BY DEF StampsInOrder
    <3>1. call'[q] = call[q]
      BY <1>3, <2>1 DEF Begins, OthersStay
    <3> QED
      BY <1>1, <3>1 DEF StampsInOrder
  <2> QED
    BY <1>2, <2>3, <2>4, <2>5
<1>4. CASE GoesOn(p)
  <2>1. /\ \A q \in Writing' : /\ q \in Writing /\ call'[q].row.id = call[q].row.id
                               /\ call'[q].row.source = call[q].row.source
                               /\ call'[q].over = call[q].over
        /\ ids' = ids
    BY <1>4 DEF GoesOn, Writing, OthersStay
  <2>2. IdsUnique'
    BY <1>1, <2>1 DEF IdsUnique
  <2>3. PastTrue'
    BY <1>1, <2>1 DEF PastTrue
  <2>4. StampsInOrder'
    <3> SUFFICES ASSUME NEW q \in Processes, call'[q].at = "append",
                        NEW i \in DOMAIN Indexed, Indexed[i].id \in call'[q].over
                 PROVE  Indexed[i].at <= call'[q].row.at
      BY <1>1 DEF StampsInOrder
    <3>1. CASE q = p
      <4>1. call'[q].row.at = clock' /\ clock <= clock' /\ clock' \in Nat
        BY <1>4, <3>1 DEF GoesOn
      <4>2. Indexed[i].at <= clock /\ clock \in Nat /\ Indexed[i].at \in Nat
        BY <1>1, IndexedRows DEF KnowledgeTypes
      <4> QED
        BY <4>1, <4>2
    <3>2. CASE q # p
      BY <1>1, <1>4, <3>2 DEF GoesOn, OthersStay, StampsInOrder
    <3> QED
      BY <3>1, <3>2
  <2> QED
    BY <1>2, <2>2, <2>3, <2>4
<1>5. CASE Purges(p)
  <2>1. /\ \A q \in Writing' : q \in Writing /\ call'[q] = call[q]
        /\ ids' = ids
    BY <1>5 DEF Purges, Writing, OthersStay
  <2>2. \A q \in Processes : call'[q].at = "append" => call'[q] = call[q]
    BY <2>1 DEF Writing
  <2> QED
    BY <1>1, <1>2, <2>1, <2>2 DEF IdsUnique, PastTrue, StampsInOrder
<1> QED
  BY <1>3, <1>4, <1>5

\* The call that returns overtakes those it came after, for its row is shown
\* instead of theirs, unless an unfinished line swallowed it.
LEMMA AppendOvertakes ==
  ASSUME CallsInv, NEW p \in Processes, AppendIndexRow(p)
  PROVE  DeathsPay'
<1> DEFINE r == call[p].row
           s == r.source
           over == call[p].over
<1>1. /\ KnowledgeTypes /\ IdsUnique /\ PastTrue /\ StampsInOrder /\ DeathsPay
      /\ call[p].at = "append" /\ p \in Writing /\ r \in IndexRow
      /\ r.at \in Nat /\ s \in Sources
      /\ over \subseteq past[s]
      /\ IsTable(index, IndexRow) /\ Garbled \notin IndexRow
  BY CallsAt, WriteCallsAre, GarbledIsNoIndexRow DEF CallsInv, AppendIndexRow, KnowledgeTypes, Writing, PastTrue
<1>2. index' = AppendRow(index, r) /\ overridden' = overridden \cup over /\ deaths' = deaths
  BY DEF AppendIndexRow
<1>3. \A i \in DOMAIN Indexed : Indexed[i].id \in over =>
        Indexed[i].source = s /\ Indexed[i].at <= r.at
  BY <1>1 DEF PastTrue, StampsInOrder
<1>4. r.id \notin overridden /\ r.id \notin over
  BY <1>1 DEF PastTrue
<1>5. /\ IsFiniteSet(Overtaken(Solid(index))) /\ Cardinality(Overtaken(Solid(index))) \in Nat
      /\ Cardinality(Overtaken(Solid(index))) + (IF index.ended THEN 0 ELSE 1) <= deaths
      /\ deaths \in Nat
  BY <1>1, FS_CardinalityType DEF DeathsPay, KnowledgeTypes
<1>6. index'.ended /\ Solid(index') = Indexed'
  BY <1>1, <1>2, SolidAppended DEF Indexed
<1> HIDE DEF r, s, over
<1>7. CASE index.ended
  <2>1. Solid(index) = Indexed /\ Added(index, index', r)
    BY <1>1, <1>2, <1>7, SolidAppended DEF Indexed
  <2>2. /\ DOMAIN Indexed' = DOMAIN Indexed \cup {Len(index.lines) + 1}
        /\ Indexed'[Len(index.lines) + 1] = r
        /\ \A j \in DOMAIN Indexed : Indexed'[j] = Indexed[j]
    BY <2>1 DEF Added, Indexed
  <2>3. ASSUME NEW i \in DOMAIN Indexed', Shows(Indexed', i), Indexed'[i].id \in overridden'
        PROVE  i \in DOMAIN Indexed /\ Shows(Indexed, i) /\ Indexed'[i] = Indexed[i] /\ Indexed[i].id \in overridden
    <3>1. i \in DOMAIN Indexed /\ Indexed'[i] = Indexed[i]
      BY <1>2, <1>4, <2>2, <2>3
    <3>2. Shows(Indexed, i)
      BY <2>2, <2>3, <3>1 DEF Shows
    <3>3. Indexed[i].id \notin over
      <4> SUFFICES ASSUME Indexed[i].id \in over PROVE FALSE
        OBVIOUS
      <4>1. Indexed[i].source = s /\ Indexed[i].at <= r.at
        BY <1>3, <3>1
      <4>2. r.at < Indexed[i].at \/ (r.at = Indexed[i].at /\ Len(index.lines) + 1 <= i)
        <5>1. Indexed'[Len(index.lines) + 1].source = Indexed'[i].source
          BY <2>2, <3>1, <4>1 DEF s
        <5> QED
          BY <2>2, <2>3, <3>1, <5>1 DEF Shows
      <4>3. i <= Len(index.lines) /\ i \in Nat /\ Len(index.lines) \in Nat /\ Indexed[i].at \in Nat
        BY <1>1, <3>1, IndexedRows
      <4> QED
        BY <1>1, <4>1, <4>2, <4>3
    <3> QED
      BY <1>2, <2>3, <3>1, <3>2, <3>3
  <2>4. Overtaken(Solid(index))' \subseteq Overtaken(Solid(index))
    BY <1>6, <2>1, <2>3 DEF Overtaken
  <2>5. IsFiniteSet(Overtaken(Solid(index))') /\ Cardinality(Overtaken(Solid(index))') <= Cardinality(Overtaken(Solid(index)))
    BY <1>5, <2>4, FS_Subset
  <2>6. Cardinality(Overtaken(Solid(index))') \in Nat
    BY <2>5, FS_CardinalityType
  <2> QED
    BY <1>2, <1>5, <1>6, <1>7, <2>5, <2>6 DEF DeathsPay
<1>8. CASE ~ index.ended
  <2>1. Indexed' = Solid(index)
    BY <1>1, <1>2, <1>8, SolidAppended DEF Indexed
  <2> DEFINE rs == Solid(index)
  <2>2. /\ DOMAIN rs \subseteq DOMAIN ReadRows(index)
        /\ \A i \in DOMAIN rs : rs[i] = Indexed[i] /\ i \in DOMAIN Indexed /\ rs[i] \in IndexRow
    BY <1>1, SolidRows DEF Indexed
  <2>3. \A i \in DOMAIN rs : rs[i].id \in over => rs[i].source = s
    BY <1>3, <2>2
  <2>4. \A i, j \in DOMAIN rs : Shows(rs, i) /\ Shows(rs, j) /\ rs[i].source = s /\ rs[j].source = s => i = j
    <3> HIDE DEF rs
    <3> QED
      BY <1>1, <2>2, OneShown
  <2>5. PICK last : \A i \in DOMAIN rs : Shows(rs, i) /\ rs[i].source = s => rs[i] = last
    <3> HIDE DEF rs
    <3> QED
      BY <2>4
  <2>6. Overtaken(rs)' \subseteq Overtaken(rs) \cup {last}
    <3>1. rs' = rs
      BY <1>6, <2>1
    <3>2. \A i \in DOMAIN rs : Shows(rs, i) /\ rs[i].id \in overridden' =>
            rs[i].id \in overridden \/ rs[i] = last
      BY <1>2, <2>3, <2>5
    <3>3. Overtaken(rs)' = {rs[i] : i \in {i \in DOMAIN rs : Shows(rs, i) /\ rs[i].id \in overridden'}}
      BY <3>1 DEF Overtaken
    <3> HIDE DEF rs
    <3> QED
      BY <3>2, <3>3 DEF Overtaken
  <2>7. /\ IsFiniteSet(Overtaken(rs)') /\ Cardinality(Overtaken(rs)') \in Nat
        /\ Cardinality(Overtaken(rs)') <= Cardinality(Overtaken(rs)) + 1
    <3> DEFINE T == Overtaken(rs)
               S == Overtaken(rs)'
    <3>1. IsFiniteSet(T) /\ S \subseteq T \cup {last}
      BY <1>5, <2>6
    <3> HIDE DEF T, S
    <3>2. IsFiniteSet(S) /\ Cardinality(S) \in Nat /\ Cardinality(S) <= Cardinality(T) + 1
      BY <3>1, OneMore
    <3> QED
      BY <3>2 DEF T, S
  <2> QED
    BY <1>2, <1>5, <1>6, <1>8, <2>7 DEF DeathsPay
<1> QED
  BY <1>7, <1>8

\* An index row that is appended keeps the invariant of calls.
LEMMA AppendCalls ==
  ASSUME CallsInv, NEW p \in Processes, AppendIndexRow(p)
  PROVE  IdsUnique' /\ PastTrue' /\ StampsInOrder' /\ DeathsPay'
<1> DEFINE r == call[p].row
<1>1. /\ KnowledgeTypes /\ IdsUnique /\ PastTrue /\ StampsInOrder
      /\ p \in Writing /\ r \in IndexRow /\ r.source \in Sources /\ r.id \in Nat
      /\ call[p].over \subseteq past[r.source]
  BY CallsAt, WriteCallsAre DEF CallsInv, AppendIndexRow, KnowledgeTypes, Writing, PastTrue
<1>2. /\ index' \in PartialAppends(index, r) /\ ids' = ids
      /\ past' = [past EXCEPT ![r.source] = @ \cup {r.id}]
      /\ overridden' = overridden \cup call[p].over
      /\ \E c : Enter(p, c) /\ c.at \in {"idle", "next"}
  BY WholeAppend DEF AppendIndexRow, Idle
<1>3. \A q \in Writing' : q \in Writing /\ q # p /\ call'[q] = call[q]
  BY <1>1, <1>2 DEF Enter, Writing, KnowledgeTypes
<1>4. \A i \in DOMAIN Indexed' : \/ i = Len(index.lines) + 1 /\ Indexed'[i] = r
                                 \/ i \in DOMAIN Indexed /\ Indexed'[i] = Indexed[i]
  BY <1>1, <1>2, IndexWritten
<1>5. IdsUnique'
  BY <1>1, <1>2, <1>3, IdsAfterWrite
<1>6. \A x \in Sources : past'[x] = past[x] \cup (IF x = r.source THEN {r.id} ELSE {})
  BY <1>1, <1>2 DEF KnowledgeTypes
<1>7. PastTrue'
  <2>1. \A x \in Sources : \A y \in past'[x] : y < ids'
    BY <1>1, <1>2, <1>6 DEF PastTrue, IdsUnique
  <2>2. \A q \in Writing', x \in Sources : call'[q].row.id \notin past'[x]
    BY <1>1, <1>3, <1>6 DEF PastTrue, IdsUnique
  <2>3. \A i \in DOMAIN Indexed', x \in Sources : Indexed'[i].id \in past'[x] => Indexed'[i].source = x
    BY <1>1, <1>4, <1>6 DEF PastTrue, IdsUnique
  <2>4. \A y \in overridden' : \E x \in Sources : y \in past'[x]
    BY <1>1, <1>2, <1>6 DEF PastTrue
  <2>5. \A q \in Writing' : call'[q].over \subseteq past'[call'[q].row.source]
    <3>1. \A q \in Writing : call[q].row.source \in Sources
      BY <1>1, CallsAt, WriteCallsAre DEF KnowledgeTypes, Writing
    <3> QED
      BY <1>1, <1>3, <1>6, <3>1 DEF PastTrue
  <2> QED
    BY <2>1, <2>2, <2>3, <2>4, <2>5 DEF PastTrue
<1>8. StampsInOrder'
  <2> SUFFICES ASSUME NEW q \in Processes, call'[q].at = "append",
                      NEW i \in DOMAIN Indexed', Indexed'[i].id \in call'[q].over
               PROVE  Indexed'[i].at <= call'[q].row.at
    BY DEF StampsInOrder
  <2>1. q \in Writing /\ call'[q] = call[q]
    BY <1>3 DEF Writing
  <2>2. r.id \notin call[q].over
    BY <1>1, <2>1, CallsAt, WriteCallsAre DEF PastTrue, KnowledgeTypes, Writing
  <2> QED
    BY <1>1, <1>4, <2>1, <2>2 DEF StampsInOrder
<1> QED
  BY <1>5, <1>7, <1>8, AppendOvertakes

\* A death overtakes nothing: its row is of no call that returned.
LEMMA DieCalls ==
  ASSUME CallsInv, NEW p \in Processes, Die(p)
  PROVE  IdsUnique' /\ PastTrue' /\ StampsInOrder' /\ DeathsPay'
<1> DEFINE r == call[p].row
<1>1. KnowledgeTypes /\ IdsUnique /\ PastTrue /\ StampsInOrder /\ DeathsPay
  BY DEF CallsInv
<1>2. /\ ids' = ids /\ past' = past /\ overridden' = overridden /\ deaths' = deaths + 1
      /\ Enter(p, Idle) /\ Idle.at = "idle"
  BY DEF Die, Idle
<1>3. \A q \in Writing' : q \in Writing /\ q # p /\ call'[q] = call[q]
  BY <1>1, <1>2 DEF Enter, Writing, KnowledgeTypes
<1>4. \A q \in Processes : call'[q].at = "append" => q \in Writing /\ call'[q] = call[q]
  BY <1>3 DEF Writing
<1>5. /\ IsFiniteSet(Overtaken(Solid(index))) /\ Cardinality(Overtaken(Solid(index))) \in Nat
      /\ Cardinality(Overtaken(Solid(index))) + (IF index.ended THEN 0 ELSE 1) <= deaths
      /\ deaths \in Nat
  BY <1>1, FS_CardinalityType DEF DeathsPay, KnowledgeTypes
<1>6. CASE index' = index
  <2>1. Indexed' = Indexed
    BY <1>6 DEF Indexed
  <2>2. DeathsPay'
    BY <1>2, <1>5, <1>6 DEF DeathsPay, Overtaken
  <2> QED
    BY <1>1, <1>2, <1>3, <1>4, <2>1, <2>2 DEF IdsUnique, PastTrue, StampsInOrder
<1>7. CASE index' # index
  <2>1. p \in Writing /\ index' \in PartialAppends(index, r)
    BY <1>7 DEF Die, Writing
  <2>2. r \in IndexRow /\ IsTable(index, IndexRow) /\ Garbled \notin IndexRow
    BY <1>1, <2>1, CallsAt, WriteCallsAre, GarbledIsNoIndexRow DEF KnowledgeTypes, Writing
  <2>3. \A i \in DOMAIN Indexed' : \/ i = Len(index.lines) + 1 /\ Indexed'[i] = r
                                   \/ i \in DOMAIN Indexed /\ Indexed'[i] = Indexed[i]
    BY <1>1, <2>1, <2>2, IndexWritten
  <2>4. IdsUnique'
    BY <1>1, <1>2, <1>3, <2>1, IdsAfterWrite
  <2>5. PastTrue'
    BY <1>1, <1>2, <1>3, <2>1, <2>3 DEF PastTrue
  <2>6. StampsInOrder'
    <3> SUFFICES ASSUME NEW q \in Processes, call'[q].at = "append",
                        NEW i \in DOMAIN Indexed', Indexed'[i].id \in call'[q].over
                 PROVE  Indexed'[i].at <= call'[q].row.at
      BY DEF StampsInOrder
    <3>1. r.id \notin call[q].over
      BY <1>1, <1>4, <2>1, CallsAt, WriteCallsAre DEF PastTrue, KnowledgeTypes, Writing
    <3> QED
      BY <1>1, <1>4, <2>3, <3>1 DEF StampsInOrder
  <2>7. r.id \notin overridden
    BY <1>1, <2>1 DEF PastTrue
  <2> HIDE DEF r
  <2>8. CASE index' # AppendRow(index, r)
    <3>1. Solid(index') = Solid(index) /\ ~ index'.ended
      BY <1>7, <2>1, <2>2, <2>8, SolidCut
    <3>2. Overtaken(Solid(index))' = Overtaken(Solid(index))
      BY <1>2, <3>1 DEF Overtaken
    <3>3. DeathsPay'
      BY <1>2, <1>5, <3>1, <3>2 DEF DeathsPay
    <3> QED
      BY <2>4, <2>5, <2>6, <3>3
  <2>9. CASE index' = AppendRow(index, r)
    <3>1. index'.ended /\ Solid(index') = Indexed'
      BY <2>2, <2>9, SolidAppended DEF Indexed
    <3>2. Overtaken(Solid(index))' \subseteq Overtaken(Solid(index))
      <4>1. CASE index.ended
        <5>1. Solid(index) = Indexed /\ Added(index, index', r)
          BY <2>2, <2>9, <4>1, SolidAppended DEF Indexed
        <5>2. \A j \in DOMAIN Indexed : j \in DOMAIN Indexed' /\ Indexed'[j] = Indexed[j]
          BY <5>1 DEF Added, Indexed
        <5>3. \A i \in DOMAIN Indexed' : Shows(Indexed', i) /\ Indexed'[i].id \in overridden =>
                i \in DOMAIN Indexed /\ Shows(Indexed, i) /\ Indexed'[i] = Indexed[i]
          BY <2>3, <2>7, <5>2 DEF Shows
        <5> QED
          BY <1>2, <3>1, <5>1, <5>3 DEF Overtaken
      <4>2. CASE ~ index.ended
        <5>1. Indexed' = Solid(index)
          BY <2>2, <2>9, <4>2, SolidAppended DEF Indexed
        <5> QED
          BY <1>2, <3>1, <5>1 DEF Overtaken
      <4> QED
        BY <4>1, <4>2
    <3>3. IsFiniteSet(Overtaken(Solid(index))') /\ Cardinality(Overtaken(Solid(index))') <= Cardinality(Overtaken(Solid(index)))
      BY <1>5, <3>2, FS_Subset
    <3>4. Cardinality(Overtaken(Solid(index))') \in Nat
      BY <3>3, FS_CardinalityType
    <3>5. DeathsPay'
      BY <1>2, <1>5, <3>1, <3>3, <3>4 DEF DeathsPay
    <3> QED
      BY <2>4, <2>5, <2>6, <3>5
  <2> QED
    BY <2>8, <2>9
<1> QED
  BY <1>6, <1>7

\* Every step keeps the invariant.
LEMMA NextCallsInv ==
  ASSUME DamageInv, CallsInv, [KNext]_kvars, DamageInv'
  PROVE  CallsInv'
<1>1. KnowledgeTypes /\ KnowledgeTypes'
  BY DEF DamageInv
<1>2. CASE KNext
  <2>1. PICK p \in Processes :
           \/ \E todo \in Seq(SourceFile) :
                todo # <<>> /\ call[p].at \in {"idle", "next"} /\ CheckObject(p, todo)
           \/ \E s \in Sources : RemoveIndexRow(p, s)
           \/ WriteObject(p) \/ Stamp(p)
           \/ AppendIndexRow(p)
           \/ PurgeReads(p) \/ PurgeLists(p) \/ PurgeUnlinks(p)
           \/ Die(p)
    BY <1>1, <1>2, StepKinds
  <2>2. \/ Begins(p) \/ GoesOn(p) \/ Purges(p)
        \/ AppendIndexRow(p)
        \/ Die(p)
    BY <1>1, <2>1, CheckBegins, RemoveBegins, WriteGoesOn, PurgePurges
  <2>3. IdsUnique' /\ PastTrue' /\ StampsInOrder' /\ DeathsPay'
    BY <2>2, UnwrittenCalls, AppendCalls, DieCalls
  <2> QED
    BY <1>1, <2>3 DEF CallsInv
<1>3. CASE UNCHANGED kvars
  BY <1>1, <1>3 DEF kvars, CallsInv, IdsUnique, PastTrue, StampsInOrder, DeathsPay, Overtaken,
                    Indexed, Writing
<1> QED
  BY <1>2, <1>3

\* The invariant holds in every state.
LEMMA CallsInvHolds == KSpec => []CallsInv
<1>1. KInit => CallsInv
  <2> SUFFICES ASSUME KInit PROVE CallsInv
    OBVIOUS
  <2>1. KnowledgeTypes
    BY InitDamageInv DEF DamageInv
  <2>2. DOMAIN Indexed = {} /\ Overtaken(Solid(index)) = {} /\ index.ended
    BY DEF KInit, Indexed, Solid, ReadRows, EmptyTable, Overtaken
  <2>3. Writing = {} /\ \A p \in Processes : call[p].at # "append"
    BY DEF KInit, Writing, Idle
  <2>4. DeathsPay
    BY <2>2, FS_EmptySet DEF KInit, DeathsPay
  <2> QED
    BY <2>1, <2>2, <2>3, <2>4 DEF KInit, CallsInv, IdsUnique, PastTrue, StampsInOrder
<1>2. DamageInv /\ CallsInv /\ [KNext]_kvars /\ DamageInv' => CallsInv'
  BY NextCallsInv
<1> QED
  BY <1>1, <1>2, DamageInvHolds, PTL DEF KSpec

\* For any number of processes whose calls interleave, equal and different times:
\* what the index shows of a source is not a row that a later call came after,
\* but for one source per death, whose unfinished line took the later row with it
\* (src/core/knowledge-store.mjs, _activeRows).
THEOREM LastCallIsShown == KSpec => []LastCallCounts
<1>1. CallsInv => LastCallCounts
  <2> SUFFICES ASSUME CallsInv PROVE LastCallCounts
    OBVIOUS
  <2> DEFINE n == Len(index.lines)
             T == Overtaken(Solid(index))
             S == {row \in Latest : row.id \in overridden}
  <2>1. /\ KnowledgeTypes /\ IsTable(index, IndexRow)
        /\ IsFiniteSet(T) /\ Cardinality(T) \in Nat
        /\ Cardinality(T) + (IF index.ended THEN 0 ELSE 1) <= deaths
    BY FS_CardinalityType DEF CallsInv, KnowledgeTypes, DeathsPay
  <2>2. S = Overtaken(Indexed)
    BY <2>1, LatestShown DEF Overtaken
  <2>3. S \subseteq T \cup {Indexed[n]} /\ (index.ended => S \subseteq T)
    <3>1. /\ DOMAIN Solid(index) \subseteq DOMAIN Indexed
          /\ \A i \in DOMAIN Solid(index) : Solid(index)[i] = Indexed[i]
          /\ index.ended => Solid(index) = Indexed
          /\ DOMAIN Indexed \subseteq DOMAIN Solid(index) \cup {n}
      BY <2>1, SolidRows DEF Indexed
    <3>2. \A i \in DOMAIN Indexed : Shows(Indexed, i) =>
            i = n \/ (i \in DOMAIN Solid(index) /\ Shows(Solid(index), i) /\ Solid(index)[i] = Indexed[i])
      BY <3>1 DEF Shows
    <3> HIDE DEF n, S
    <3> QED
      BY <2>2, <3>1, <3>2 DEF Overtaken
  <2>4. Cardinality(S) <= deaths
    <3> HIDE DEF T, S
    <3>1. /\ Cardinality(S) \in Nat /\ Cardinality(S) <= Cardinality(T) + 1
          /\ S \subseteq T => Cardinality(S) <= Cardinality(T)
      BY <2>1, <2>3, OneMore
    <3>2. deaths \in Nat
      BY <2>1 DEF KnowledgeTypes
    <3> QED
      BY <2>1, <2>3, <3>1, <3>2
  <2> QED
    BY <2>4 DEF LastCallCounts
<1> QED
  BY <1>1, CallsInvHolds, PTL

-----------------------------------------------------------------------------
(* Source ingestion *)

SourceRow  == [id : SourceIds, url : Urls, doi : Dois \cup {NoDoi}, licensed : BOOLEAN]
FetchRow   == [source : SourceIds, key : Urls \cup Dois, text : Texts, version : VersionNumbers]
ExtractRow == [source : SourceIds, text : Texts, version : VersionNumbers]

IngestionTypes ==
  /\ IsTable(sources, SourceRow)
  /\ IsTable(ingestions, FetchRow)
  /\ IsTable(extractions, ExtractRow)
  /\ fetches \in Nat /\ cuts \in Nat
  /\ published \in [SourceIds \X VersionNumbers -> SUBSET Texts]
  /\ \A i \in DOMAIN ReadRows(ingestions) : ReadRows(ingestions)[i].version <= fetches

\* An unfinished line costs the next row.
Lag(t) == IF t.ended THEN 0 ELSE 1

\* What rows of extractions give for a version of a source, and of ingestions for a key.
TextAt(rows, sv) ==
  {row.text : row \in FirstOf(rows, {i \in DOMAIN rows : rows[i].source = sv[1] /\ rows[i].version = sv[2]})}

LatestOf(rows, key) == LastOf(rows, {i \in DOMAIN rows : rows[i].key = key})

\* The versions that rows of extractions do not give as they were published.
Misgiven(rows) == {sv \in SourceIds \X VersionNumbers : TextAt(rows, sv) # published[sv]}

HasText(rows, row) == \E i \in DOMAIN rows : rows[i].version = row.version /\ rows[i].text = row.text

\* The keys whose latest content no row of extractions has.
Unextracted(ing, ext) ==
  {key \in Urls \cup Dois : \E latest \in LatestOf(ing, key) : ~ HasText(ext, latest)}

\* Every death has spoilt one version, or will when the unfinished line it left
\* meets the next row ...
GivenAsPublished ==
  LET S == Misgiven(Solid(extractions))
  IN  IsFiniteSet(S) /\ Cardinality(S) + Lag(extractions) <= cuts

\* ... and has left two contents without an extraction at most.
LatestExtracted ==
  LET S == Unextracted(Solid(ingestions), Solid(extractions))
  IN  IsFiniteSet(S) /\ Cardinality(S) + Lag(ingestions) + Lag(extractions) <= 2 * cuts

IngestionInv == IngestionTypes /\ GivenAsPublished /\ LatestExtracted

\* A garbled line is no row of the three tables of ingestion.
LEMMA GarbledIsNoSource == Garbled \notin SourceRow /\ Garbled \notin FetchRow /\ Garbled \notin ExtractRow
<1>1. "garbled" \in DOMAIN Garbled
  BY DEF Garbled
<1>2. /\ \A r \in SourceRow : "garbled" \notin DOMAIN r
      /\ \A r \in FetchRow : "garbled" \notin DOMAIN r
      /\ \A r \in ExtractRow : "garbled" \notin DOMAIN r
  BY DEF SourceRow, FetchRow, ExtractRow
<1> QED
  BY <1>1, <1>2

\* Rows with one more behind them.
Extends(rs, ru, m) ==
  /\ m \in Nat /\ m \notin DOMAIN rs
  /\ \A i \in DOMAIN rs : i \in Nat /\ i < m /\ ru[i] = rs[i]
  /\ DOMAIN ru = DOMAIN rs \cup {m}

\* What a write, in full or in part, does to the rows that stay.
LEMMA SolidStep ==
  ASSUME NEW R, Garbled \notin R, NEW t, IsTable(t, R), NEW r \in R, NEW u \in PartialAppends(t, r)
  PROVE  /\ IsTable(u, R)
         /\ Lag(t) \in 0 .. 1 /\ Lag(u) \in 0 .. 1
         /\ \/ Solid(u) = Solid(t) /\ u # AppendRow(t, r)
            \/ Solid(u) = Solid(t) /\ Lag(t) = 1 /\ Lag(u) = 0
            \/ /\ Extends(Solid(t), Solid(u), Len(t.lines) + 1) /\ Solid(u)[Len(t.lines) + 1] = r
               /\ Lag(t) = 0 /\ Lag(u) = 0
         /\ u = AppendRow(t, r) => Lag(u) = 0
<1>1. IsTable(u, R)
  BY CutShort
<1>2. CASE u # AppendRow(t, r)
  <2>1. u = t \/ Solid(u) = Solid(t)
    BY <1>2, SolidCut
  <2> QED
    BY <1>1, <1>2, <2>1 DEF Lag
<1>3. CASE u = AppendRow(t, r) /\ ~ t.ended
  <2>1. u.ended /\ Solid(u) = Solid(t)
    BY <1>3, SolidAppended
  <2> QED
    BY <1>1, <1>3, <2>1 DEF Lag
<1>4. CASE u = AppendRow(t, r) /\ t.ended
  <2> DEFINE n == Len(t.lines)
  <2>1. u.ended /\ Solid(u) = ReadRows(u) /\ Solid(t) = ReadRows(t) /\ Added(t, u, r)
    BY <1>4, SolidAppended
  <2>2. DOMAIN ReadRows(t) \subseteq 1 .. n /\ n \in Nat
    BY RowsRead
  <2>3. \A i \in DOMAIN ReadRows(t) : i \in Nat /\ i < n + 1 /\ i # n + 1
    BY <2>2
  <2>4. Extends(Solid(t), Solid(u), n + 1) /\ Solid(u)[n + 1] = r
    BY <2>1, <2>2, <2>3 DEF Extends, Added
  <2> QED
    BY <1>1, <1>4, <2>1, <2>4 DEF Lag
<1> QED
  BY <1>2, <1>3, <1>4

\* The first row of a version stays the first ...
LEMMA TextOneMore ==
  ASSUME NEW rs, NEW ru, NEW m, Extends(rs, ru, m), NEW sv
  PROVE  LET of(r) == r.source = sv[1] /\ r.version = sv[2]
         IN  /\ ~ of(ru[m]) => TextAt(ru, sv) = TextAt(rs, sv)
             /\ of(ru[m]) => \/ TextAt(rs, sv) = {} /\ TextAt(ru, sv) = {ru[m].text}
                             \/ TextAt(rs, sv) # {} /\ TextAt(ru, sv) = TextAt(rs, sv)
<1> DEFINE of(r) == r.source = sv[1] /\ r.version = sv[2]
           rows(rr) == {i \in DOMAIN rr : of(rr[i])}
<1>1. \A rr : TextAt(rr, sv) = {row.text : row \in {rr[i] : i \in {i \in rows(rr) : \A j \in rows(rr) : i <= j}}}
  BY DEF TextAt, FirstOf
<1>2. /\ m \in Nat /\ \A i \in rows(rs) : i \in 0 .. m /\ i < m /\ ru[i] = rs[i]
      /\ rows(ru) = IF of(ru[m]) THEN rows(rs) \cup {m} ELSE rows(rs)
  BY DEF Extends
<1> HIDE DEF rows
<1>3. CASE ~ of(ru[m])
  <2>1. rows(ru) = rows(rs)
    BY <1>2, <1>3
  <2>2. {ru[i] : i \in {i \in rows(rs) : \A j \in rows(rs) : i <= j}}
          = {rs[i] : i \in {i \in rows(rs) : \A j \in rows(rs) : i <= j}}
    BY <1>2
  <2> QED
    BY <1>1, <1>3, <2>1, <2>2
<1>4. CASE of(ru[m]) /\ rows(rs) = {}
  <2>1. rows(ru) = {m}
    BY <1>2, <1>4
  <2>2. {i \in rows(ru) : \A j \in rows(ru) : i <= j} = {m}
    BY <1>2, <2>1
  <2>3. {ru[i] : i \in {i \in rows(ru) : \A j \in rows(ru) : i <= j}} = {ru[m]}
    BY <2>2
  <2>4. TextAt(ru, sv) = {ru[m].text}
    BY <1>1, <2>3
  <2>5. TextAt(rs, sv) = {}
    BY <1>1, <1>4
  <2> QED
    BY <1>4, <2>4, <2>5
<1>5. CASE of(ru[m]) /\ rows(rs) # {}
  <2>1. rows(ru) = rows(rs) \cup {m}
    BY <1>2, <1>5
  <2>2. {i \in rows(ru) : \A j \in rows(ru) : i <= j} = {i \in rows(rs) : \A j \in rows(rs) : i <= j}
    BY <1>2, <1>5, <2>1
  <2>3. {ru[i] : i \in {i \in rows(ru) : \A j \in rows(ru) : i <= j}}
          = {rs[i] : i \in {i \in rows(rs) : \A j \in rows(rs) : i <= j}}
    BY <1>2, <2>2
  <2>4. TextAt(ru, sv) = TextAt(rs, sv)
    BY <1>1, <2>3
  <2>5. \E i \in rows(rs) : \A j \in rows(rs) : i <= j
    <3>1. rows(rs) \in SUBSET (0 .. m)
      BY <1>2
    <3> QED
      BY <1>2, <1>5, <3>1, LeastNumber
  <2>6. TextAt(rs, sv) # {}
    <3>1. PICK i \in rows(rs) : \A j \in rows(rs) : i <= j
      BY <2>5
    <3>2. rs[i] \in {rs[k] : k \in {k \in rows(rs) : \A j \in rows(rs) : k <= j}}
      BY <3>1
    <3>3. rs[i].text \in TextAt(rs, sv)
      BY <1>1, <3>2
    <3> QED
      BY <3>3
  <2> QED
    BY <1>5, <2>4, <2>6
<1> QED
  BY <1>3, <1>4, <1>5

\* ... and the new row of a key is its latest.
LEMMA LatestOneMore ==
  ASSUME NEW rs, NEW ru, NEW m, Extends(rs, ru, m), NEW key
  PROVE  LatestOf(ru, key) = IF ru[m].key = key THEN {ru[m]} ELSE LatestOf(rs, key)
<1> DEFINE rows(rr) == {i \in DOMAIN rr : rr[i].key = key}
<1>1. \A rr : LatestOf(rr, key) = {rr[i] : i \in {i \in rows(rr) : \A j \in rows(rr) : j <= i}}
  BY DEF LatestOf, LastOf
<1>2. /\ m \in Nat /\ \A i \in rows(rs) : i \in Nat /\ i < m /\ ru[i] = rs[i]
      /\ rows(ru) = IF ru[m].key = key THEN rows(rs) \cup {m} ELSE rows(rs)
  BY DEF Extends
<1> HIDE DEF rows
<1>3. CASE ru[m].key # key
  <2>1. {ru[i] : i \in {i \in rows(rs) : \A j \in rows(rs) : j <= i}}
          = {rs[i] : i \in {i \in rows(rs) : \A j \in rows(rs) : j <= i}}
    BY <1>2
  <2> QED
    BY <1>1, <1>2, <1>3, <2>1
<1>4. CASE ru[m].key = key
  <2>1. {i \in rows(ru) : \A j \in rows(ru) : j <= i} = {m}
    BY <1>2, <1>4
  <2> QED
    BY <1>1, <1>4, <2>1
<1> QED
  BY <1>3, <1>4

\* A key has one latest row at most.
LEMMA OneLatest ==
  ASSUME NEW R, NEW t, IsTable(t, R), NEW key, NEW a \in LatestOf(ReadRows(t), key),
         NEW b \in LatestOf(ReadRows(t), key)
  PROVE  a = b /\ \E i \in DOMAIN ReadRows(t) : a = ReadRows(t)[i] /\ a.key = key
<1> DEFINE rr   == ReadRows(t)
           rows == {i \in DOMAIN rr : rr[i].key = key}
<1>1. DOMAIN rr \subseteq 1 .. Len(t.lines) /\ Len(t.lines) \in Nat
  BY RowsRead
<1>2. PICK i \in rows : a = rr[i] /\ \A k \in rows : k <= i
  BY DEF LatestOf, LastOf
<1>3. PICK j \in rows : b = rr[j] /\ \A k \in rows : k <= j
  BY DEF LatestOf, LastOf
<1>4. i = j
  BY <1>1, <1>2, <1>3
<1> QED
  BY <1>2, <1>3, <1>4

\* The invariant holds at first.
LEMMA InitIngestionInv == SInit => IngestionInv
<1> SUFFICES ASSUME SInit PROVE IngestionInv
  OBVIOUS
<1>1. /\ ingestions.ended /\ extractions.ended /\ cuts = 0
      /\ DOMAIN ReadRows(ingestions) = {} /\ DOMAIN Solid(ingestions) = {} /\ DOMAIN Solid(extractions) = {}
  BY DEF SInit, EmptyTable, ReadRows, Solid
<1>2. IngestionTypes
  BY <1>1 DEF SInit, IngestionTypes, IsTable, EmptyTable
<1>3. Misgiven(Solid(extractions)) = {}
  <2>1. \A sv : TextAt(Solid(extractions), sv) = {}
    BY <1>1 DEF TextAt, FirstOf
  <2> QED
    BY <2>1 DEF Misgiven, SInit
<1>4. Unextracted(Solid(ingestions), Solid(extractions)) = {}
  <2>1. \A key : LatestOf(Solid(ingestions), key) = {}
    BY <1>1 DEF LatestOf, LastOf
  <2> QED
    BY <2>1 DEF Unextracted
<1>5. Cardinality({}) = 0 /\ IsFiniteSet({})
  BY FS_EmptySet
<1>6. Lag(ingestions) = 0 /\ Lag(extractions) = 0
  BY <1>1 DEF Lag
<1> QED
  BY <1>1, <1>2, <1>3, <1>4, <1>5, <1>6 DEF IngestionInv, GivenAsPublished, LatestExtracted

\* An ingestion that returns gives what it publishes, unless it met an unfinished line.
LEMMA LivePublished ==
  ASSUME IngestionInv, NEW extracted \in ExtractRow, cuts' = cuts,
         extractions' = AppendRow(extractions, extracted),
         published' = IF published[<<extracted.source, extracted.version>>] = {}
                      THEN [published EXCEPT ![<<extracted.source, extracted.version>>] = {extracted.text}]
                      ELSE published
  PROVE  GivenAsPublished'
<1> DEFINE sv == <<extracted.source, extracted.version>>
           rs == Solid(extractions)
           ru == Solid(extractions')
           m  == Len(extractions.lines) + 1
           F  == Misgiven(rs)
           G  == Misgiven(Solid(extractions))'
<1>1. /\ IsTable(extractions, ExtractRow) /\ cuts \in Nat
      /\ published \in [SourceIds \X VersionNumbers -> SUBSET Texts]
      /\ IsFiniteSet(F) /\ Cardinality(F) + Lag(extractions) <= cuts
  BY DEF IngestionInv, IngestionTypes, GivenAsPublished
<1>2. sv \in SourceIds \X VersionNumbers
  BY DEF ExtractRow
<1>3. /\ published'[sv] = IF published[sv] = {} THEN {extracted.text} ELSE published[sv]
      /\ \A x \in SourceIds \X VersionNumbers : x # sv => published'[x] = published[x]
  BY <1>1, <1>2
<1>4. extractions' \in PartialAppends(extractions, extracted)
  BY WholeAppend
<1>5. /\ Lag(extractions) \in 0 .. 1 /\ Lag(extractions') = 0
      /\ \/ ru = rs /\ Lag(extractions) = 1
         \/ Extends(rs, ru, m) /\ ru[m] = extracted /\ Lag(extractions) = 0
  BY <1>1, <1>4, SolidStep, GarbledIsNoSource
<1>6. G = {x \in SourceIds \X VersionNumbers : TextAt(ru, x) # published'[x]}
  BY DEF Misgiven
<1> HIDE DEF rs, ru, m, G
<1>7. CASE ru = rs /\ Lag(extractions) = 1
  <2>1. G \subseteq F \cup {sv}
    <3> HIDE DEF sv
    <3> QED
      BY <1>3, <1>6, <1>7 DEF Misgiven
  <2>2. IsFiniteSet(G) /\ Cardinality(G) \in Nat /\ Cardinality(F) \in Nat /\ Cardinality(G) <= Cardinality(F) + 1
    <3> HIDE DEF F, sv
    <3> QED
      BY <1>1, <2>1, OneMore
  <2> QED
    BY <1>1, <1>5, <1>7, <2>2 DEF GivenAsPublished, G
<1>8. CASE Extends(rs, ru, m) /\ ru[m] = extracted /\ Lag(extractions) = 0
  <2>1. \A x \in SourceIds \X VersionNumbers :
          extracted.source = x[1] /\ extracted.version = x[2] <=> x = sv
    OBVIOUS
  <2>2. ASSUME NEW x \in SourceIds \X VersionNumbers
        PROVE  /\ x # sv => TextAt(ru, x) = TextAt(rs, x)
               /\ x = sv => \/ TextAt(rs, x) = {} /\ TextAt(ru, x) = {extracted.text}
                            \/ TextAt(rs, x) # {} /\ TextAt(ru, x) = TextAt(rs, x)
    <3> HIDE DEF sv
    <3> QED
      BY <1>8, <2>1, TextOneMore
  <2>3. G \subseteq F
    <3> HIDE DEF sv
    <3> QED
      BY <1>3, <1>6, <2>2 DEF Misgiven
  <2>4. IsFiniteSet(G) /\ Cardinality(G) \in Nat /\ Cardinality(F) \in Nat /\ Cardinality(G) <= Cardinality(F)
    <3> HIDE DEF F
    <3> QED
      BY <1>1, <2>3, FS_Subset, FS_CardinalityType
  <2> QED
    BY <1>1, <1>5, <1>8, <2>4 DEF GivenAsPublished, G
<1> QED
  BY <1>5, <1>7, <1>8

\* One that dies spoils one version at most, now or with the next row.
LEMMA DeathPublished ==
  ASSUME IngestionInv, NEW extracted \in ExtractRow, cuts' = cuts + 1,
         extractions' \in PartialAppends(extractions, extracted), published' = published
  PROVE  GivenAsPublished'
<1> DEFINE sv == <<extracted.source, extracted.version>>
           rs == Solid(extractions)
           ru == Solid(extractions')
           m  == Len(extractions.lines) + 1
           F  == Misgiven(rs)
           G  == Misgiven(Solid(extractions))'
<1>1. /\ IsTable(extractions, ExtractRow) /\ cuts \in Nat
      /\ IsFiniteSet(F) /\ Cardinality(F) \in Nat /\ Cardinality(F) + Lag(extractions) <= cuts
  BY FS_CardinalityType DEF IngestionInv, IngestionTypes, GivenAsPublished
<1>2. /\ Lag(extractions) \in 0 .. 1 /\ Lag(extractions') \in 0 .. 1
      /\ \/ ru = rs
         \/ Extends(rs, ru, m) /\ ru[m] = extracted /\ Lag(extractions') = 0
  BY <1>1, SolidStep, GarbledIsNoSource
<1>3. G = Misgiven(ru)
  BY DEF Misgiven
<1> HIDE DEF rs, ru, m, G
<1>4. CASE ru = rs
  BY <1>1, <1>2, <1>3, <1>4 DEF GivenAsPublished, G
<1>5. CASE Extends(rs, ru, m) /\ ru[m] = extracted /\ Lag(extractions') = 0
  <2>1. \A x \in SourceIds \X VersionNumbers :
          extracted.source = x[1] /\ extracted.version = x[2] <=> x = sv
    OBVIOUS
  <2>2. \A x \in SourceIds \X VersionNumbers : x # sv => TextAt(ru, x) = TextAt(rs, x)
    <3> HIDE DEF sv
    <3> QED
      BY <1>5, <2>1, TextOneMore
  <2>3. G \subseteq F \cup {sv}
    <3> HIDE DEF sv
    <3> QED
      BY <1>3, <2>2 DEF Misgiven
  <2>4. IsFiniteSet(G) /\ Cardinality(G) \in Nat /\ Cardinality(G) <= Cardinality(F) + 1
    <3> HIDE DEF F, sv
    <3> QED
      BY <1>1, <2>3, OneMore
  <2> QED
    BY <1>1, <1>2, <1>5, <2>4 DEF GivenAsPublished, G
<1> QED
  BY <1>2, <1>4, <1>5

\* A version that has its text keeps it.
LEMMA MoreTexts ==
  ASSUME NEW es, NEW eu, NEW m, eu = es \/ Extends(es, eu, m), NEW r, HasText(es, r)
  PROVE  HasText(eu, r)
BY DEF HasText, Extends

\* What happens to the contents without an extraction when rows are added.
LEMMA UnextractedStep ==
  ASSUME NEW is, NEW iu, NEW m, NEW es, NEW eu, NEW n, NEW row,
         eu = es \/ Extends(es, eu, n),
         iu = is \/ (Extends(is, iu, m) /\ iu[m] = row)
  PROVE  /\ Unextracted(iu, eu) \subseteq Unextracted(is, es) \cup {row.key}
         /\ iu = is => Unextracted(iu, eu) \subseteq Unextracted(is, es)
         /\ HasText(eu, row) => Unextracted(iu, eu) \subseteq Unextracted(is, es)
         /\ (\E prior \in LatestOf(is, row.key) : HasText(es, prior) <=> HasText(es, row))
              => Unextracted(iu, eu) \subseteq Unextracted(is, es)
<1>1. \A r : HasText(es, r) => HasText(eu, r)
  BY MoreTexts
<1>2. CASE iu = is
  BY <1>1, <1>2 DEF Unextracted
<1>3. CASE Extends(is, iu, m) /\ iu[m] = row
  <2>1. \A key : LatestOf(iu, key) = IF row.key = key THEN {row} ELSE LatestOf(is, key)
    BY <1>3, LatestOneMore
  <2> QED
    BY <1>1, <1>3, <2>1 DEF Unextracted
<1> QED
  BY <1>2, <1>3

\* Content that is extracted stays so: an ingestion that returns has its extraction,
\* of its own or of the prior row, unless it met an unfinished line.
LEMMA LiveExtracted ==
  ASSUME IngestionInv, NEW row \in FetchRow, NEW extracted \in ExtractRow, cuts' = cuts,
         extracted.version = row.version, extracted.text = row.text,
         ingestions' = AppendRow(ingestions, row),
         \/ extractions' = AppendRow(extractions, extracted)
         \/ /\ extractions' = extractions
            /\ \E prior \in Prior(row.key) : prior.text = row.text /\ prior.version = row.version
  PROVE  LatestExtracted'
<1> DEFINE is == Solid(ingestions)
           iu == Solid(ingestions')
           es == Solid(extractions)
           eu == Solid(extractions')
           m  == Len(ingestions.lines) + 1
           n  == Len(extractions.lines) + 1
           F  == Unextracted(is, es)
           G  == Unextracted(iu, eu)
<1>1. /\ IsTable(ingestions, FetchRow) /\ IsTable(extractions, ExtractRow) /\ cuts \in Nat
      /\ IsFiniteSet(F) /\ Cardinality(F) \in Nat
      /\ Cardinality(F) + Lag(ingestions) + Lag(extractions) <= 2 * cuts
  BY FS_CardinalityType DEF IngestionInv, IngestionTypes, LatestExtracted
<1>2. /\ Lag(ingestions) \in 0 .. 1 /\ Lag(ingestions') = 0
      /\ \/ iu = is /\ Lag(ingestions) = 1
         \/ Extends(is, iu, m) /\ iu[m] = row /\ Lag(ingestions) = 0
  <2>1. ingestions' \in PartialAppends(ingestions, row)
    BY WholeAppend
  <2> QED
    BY <1>1, <2>1, SolidStep, GarbledIsNoSource
<1>3. /\ Lag(extractions) \in 0 .. 1 /\ Lag(extractions') \in 0 .. 1
      /\ \/ eu = es /\ extractions' = extractions
         \/ eu = es /\ Lag(extractions) = 1 /\ Lag(extractions') = 0
         \/ Extends(es, eu, n) /\ eu[n] = extracted /\ Lag(extractions) = 0 /\ Lag(extractions') = 0
  <2>1. CASE extractions' = AppendRow(extractions, extracted)
    <3>1. extractions' \in PartialAppends(extractions, extracted)
      BY <2>1, WholeAppend
    <3> QED
      BY <1>1, <2>1, <3>1, SolidStep, GarbledIsNoSource
  <2>2. CASE extractions' = extractions
    BY <2>2 DEF Lag
  <2> QED
    BY <2>1, <2>2
<1>4. /\ G \subseteq F \cup {row.key}
      /\ iu = is => G \subseteq F
      /\ HasText(eu, row) => G \subseteq F
      /\ (\E prior \in LatestOf(is, row.key) : HasText(es, prior) <=> HasText(es, row)) => G \subseteq F
  <2>1. eu = es \/ Extends(es, eu, n)
    BY <1>3
  <2>2. iu = is \/ (Extends(is, iu, m) /\ iu[m] = row)
    BY <1>2
  <2> HIDE DEF is, iu, es, eu, m, n
  <2> QED
    BY <2>1, <2>2, UnextractedStep
<1>5. G \subseteq F \/ (Lag(extractions) = 1 /\ Lag(extractions') = 0)
  <2> SUFFICES ASSUME ~ (G \subseteq F) PROVE Lag(extractions) = 1 /\ Lag(extractions') = 0
    OBVIOUS
  <2>1. iu # is /\ ~ HasText(eu, row)
    BY <1>4
  <2>2. ~ (Extends(es, eu, n) /\ eu[n] = extracted)
    <3> HIDE DEF es, eu, n
    <3> QED
      BY <2>1 DEF HasText, Extends
  <2>3. extractions' # extractions
    <3> SUFFICES ASSUME extractions' = extractions PROVE FALSE
      OBVIOUS
    <3>1. ingestions.ended
      BY <1>2, <2>1 DEF Lag
    <3>2. is = ReadRows(ingestions)
      BY <1>1, <3>1, SolidRows
    <3>3. CASE extractions' = AppendRow(extractions, extracted)
      <4>1. Lag(extractions') = 0
        <5>1. extractions' \in PartialAppends(extractions, extracted)
          BY <3>3, WholeAppend
        <5> QED
          BY <1>1, <3>3, <5>1, SolidStep, GarbledIsNoSource
      <4>2. eu = es /\ Lag(extractions) = 0
        BY <4>1
      <4>3. extractions.ended
        BY <4>2 DEF Lag
      <4>4. Added(extractions, AppendRow(extractions, extracted), extracted)
        BY <1>1, <4>3, SolidAppended, GarbledIsNoSource
      <4>5. AppendRow(extractions, extracted) = extractions
        BY <3>3
      <4>6. DOMAIN ReadRows(extractions) \subseteq 1 .. Len(extractions.lines) /\ Len(extractions.lines) \in Nat
        BY <1>1, RowsRead
      <4> QED
        BY <4>4, <4>5, <4>6 DEF Added
    <3>4. CASE \E prior \in Prior(row.key) : prior.text = row.text /\ prior.version = row.version
      <4>1. PICK prior \in LatestOf(is, row.key) : prior.text = row.text /\ prior.version = row.version
        BY <3>2, <3>4 DEF Prior, LatestOf
      <4>2. HasText(es, prior) <=> HasText(es, row)
        BY <4>1 DEF HasText
      <4> HIDE DEF is, es, F, G
      <4> QED
        BY <1>4, <4>1, <4>2
    <3> QED
      BY <3>3, <3>4
  <2> QED
    BY <1>3, <2>2, <2>3
<1>6. /\ IsFiniteSet(G) /\ Cardinality(G) \in Nat /\ Cardinality(G) <= Cardinality(F) + 1
      /\ G \subseteq F => Cardinality(G) <= Cardinality(F)
  <2> HIDE DEF F, G
  <2> QED
    BY <1>1, <1>4, OneMore
<1>7. Unextracted(Solid(ingestions), Solid(extractions))' = G
  BY DEF Unextracted
<1>8. extractions' = extractions => Lag(extractions') = Lag(extractions)
  BY DEF Lag
<1>9. Cardinality(G) + Lag(ingestions') + Lag(extractions') <= 2 * cuts
  <2> HIDE DEF F, G, is, iu, es, eu, m, n
  <2> QED
    BY <1>1, <1>2, <1>3, <1>5, <1>6, <1>8
<1> QED
  BY <1>6, <1>7, <1>9 DEF LatestExtracted

\* A death leaves one key at most without its extraction.
LEMMA DeathExtracted ==
  ASSUME IngestionInv, NEW row \in FetchRow, NEW extracted \in ExtractRow, cuts' = cuts + 1,
         ingestions' \in PartialAppends(ingestions, row),
         extractions' \in PartialAppends(extractions, extracted)
  PROVE  LatestExtracted'
<1> DEFINE is == Solid(ingestions)
           iu == Solid(ingestions')
           es == Solid(extractions)
           eu == Solid(extractions')
           m  == Len(ingestions.lines) + 1
           n  == Len(extractions.lines) + 1
           F  == Unextracted(is, es)
           G  == Unextracted(iu, eu)
<1>1. /\ IsTable(ingestions, FetchRow) /\ IsTable(extractions, ExtractRow) /\ cuts \in Nat
      /\ IsFiniteSet(F) /\ Cardinality(F) \in Nat
      /\ Cardinality(F) + Lag(ingestions) + Lag(extractions) <= 2 * cuts
  BY FS_CardinalityType DEF IngestionInv, IngestionTypes, LatestExtracted
<1>2. /\ Lag(ingestions) \in 0 .. 1 /\ Lag(ingestions') \in 0 .. 1
      /\ \/ iu = is
         \/ Extends(is, iu, m) /\ iu[m] = row /\ Lag(ingestions') = 0
  BY <1>1, SolidStep, GarbledIsNoSource
<1>3. /\ Lag(extractions) \in 0 .. 1 /\ Lag(extractions') \in 0 .. 1
      /\ eu = es \/ Extends(es, eu, n)
  BY <1>1, SolidStep, GarbledIsNoSource
<1>4. G \subseteq F \cup {row.key} /\ (iu = is => G \subseteq F)
  <2>1. iu = is \/ (Extends(is, iu, m) /\ iu[m] = row)
    BY <1>2
  <2> HIDE DEF is, iu, es, eu, m, n
  <2> QED
    BY <1>3, <2>1, UnextractedStep
<1>5. /\ IsFiniteSet(G) /\ Cardinality(G) \in Nat /\ Cardinality(G) <= Cardinality(F) + 1
      /\ G \subseteq F => Cardinality(G) <= Cardinality(F)
  <2> HIDE DEF F, G
  <2> QED
    BY <1>1, <1>4, OneMore
<1>6. Unextracted(Solid(ingestions), Solid(extractions))' = G
  BY DEF Unextracted
<1>7. Cardinality(G) + Lag(ingestions') + Lag(extractions') <= 2 * (cuts + 1)
  <2> HIDE DEF F, G, is, iu, es, eu, m, n
  <2> QED
    BY <1>1, <1>2, <1>3, <1>4, <1>5
<1> QED
  BY <1>5, <1>6, <1>7 DEF LatestExtracted

\* The version of an ingestion, and when it needs no extraction.
LEMMA VersionOf ==
  ASSUME IngestionTypes, fetches < MaxFetches, NEW key, NEW text
  PROVE  /\ NextVersion(key, text) \in VersionNumbers
         /\ NextVersion(key, text) <= fetches + 1
         /\ Unchanged(key, text) =>
              \E prior \in Prior(key) : prior.text = text /\ prior.version = NextVersion(key, text)
<1> DEFINE rr == ReadRows(ingestions)
<1>1. /\ IsTable(ingestions, FetchRow) /\ fetches \in Nat /\ MaxFetches \in Nat
      /\ \A i \in DOMAIN rr : rr[i] \in FetchRow /\ rr[i].version <= fetches
  BY RowsRead, IngestionAssumption DEF IngestionTypes
<1>2. Prior(key) = LatestOf(rr, key)
  BY DEF Prior, LatestOf
<1>3. \A a, b \in Prior(key) : a = b /\ \E i \in DOMAIN rr : a = rr[i]
  BY <1>1, <1>2, OneLatest
<1>4. \A a \in Prior(key) : a.version \in 1 .. MaxFetches /\ a.version <= fetches
  <2> HIDE DEF rr
  <2> QED
    BY <1>1, <1>3 DEF FetchRow, VersionNumbers
<1>5. CASE Prior(key) = {}
  BY <1>1, <1>5 DEF NextVersion, VersionNumbers, Unchanged
<1>6. CASE Prior(key) # {}
  <2> DEFINE prior == CHOOSE a \in Prior(key) : TRUE
  <2>1. prior \in Prior(key)
    BY <1>6
  <2>2. \A a \in Prior(key) : a = prior
    BY <1>3, <2>1
  <2>3. NextVersion(key, text) = IF Unchanged(key, text) THEN prior.version ELSE prior.version + 1
    BY <1>6 DEF NextVersion
  <2> HIDE DEF prior
  <2>4. prior.version \in 1 .. MaxFetches /\ prior.version <= fetches
    BY <1>4, <2>1
  <2>5. Unchanged(key, text) => prior.text = text
    BY <2>2 DEF Unchanged
  <2>6. NextVersion(key, text) \in 1 .. MaxFetches /\ NextVersion(key, text) <= fetches + 1
    BY <1>1, <2>3, <2>4
  <2> QED
    BY <2>1, <2>3, <2>5, <2>6 DEF VersionNumbers
<1> QED
  BY <1>5, <1>6

\* An inequality the count of lost extractions needs.
LEMMA Doubled ==
  ASSUME NEW x \in Int, NEW c \in Int, NEW d \in Int, x <= 2 * c, c <= d
  PROVE  x <= 2 * d
OBVIOUS

\* The registration of a source keeps the invariant.
LEMMA RegisterKeeps ==
  ASSUME IngestionInv, NEW s \in SourceIds, NEW url \in Urls, NEW doi \in Dois \cup {NoDoi},
         NEW licensed \in BOOLEAN, RegisterSource(s, url, doi, licensed)
  PROVE  IngestionInv'
<1> DEFINE row == [id |-> s, url |-> url, doi |-> doi, licensed |-> licensed]
<1>1. /\ sources' = AppendRow(sources, row) \/ sources' \in PartialAppends(sources, row)
      /\ cuts' \in {cuts, cuts + 1}
      /\ UNCHANGED <<ingestions, extractions, fetches, published>>
  BY DEF RegisterSource
<1>2. row \in SourceRow /\ IsTable(sources, SourceRow) /\ cuts \in Nat
  BY DEF SourceRow, IngestionInv, IngestionTypes
<1>3. IsTable(sources', SourceRow)
  <2> HIDE DEF row
  <2> QED
    BY <1>1, <1>2, Appended, CutShort, GarbledIsNoSource
<1>4. IngestionTypes'
  BY <1>1, <1>2, <1>3 DEF IngestionInv, IngestionTypes
<1>5. /\ Misgiven(Solid(extractions))' = Misgiven(Solid(extractions))
      /\ Unextracted(Solid(ingestions), Solid(extractions))' = Unextracted(Solid(ingestions), Solid(extractions))
      /\ Lag(ingestions)' = Lag(ingestions) /\ Lag(extractions)' = Lag(extractions)
  BY <1>1 DEF Misgiven, Unextracted, Lag
<1>6. cuts <= cuts' /\ cuts' \in Nat
  BY <1>1, <1>2
<1>7. GivenAsPublished'
  <2> DEFINE a == Cardinality(Misgiven(Solid(extractions)))
             b == Lag(extractions)
  <2>1. a \in Nat /\ b \in Nat /\ a + b <= cuts /\ IsFiniteSet(Misgiven(Solid(extractions)))
    BY FS_CardinalityType DEF IngestionInv, GivenAsPublished, Lag
  <2> HIDE DEF a, b
  <2>2. a + b <= cuts'
    BY <1>2, <1>6, <2>1
  <2> QED
    BY <1>5, <2>1, <2>2 DEF GivenAsPublished, a, b
<1>8. LatestExtracted'
  <2> DEFINE a == Cardinality(Unextracted(Solid(ingestions), Solid(extractions)))
             b == Lag(ingestions)
             c == Lag(extractions)
  <2>1. /\ a \in Nat /\ b \in Nat /\ c \in Nat /\ a + b + c <= 2 * cuts
        /\ IsFiniteSet(Unextracted(Solid(ingestions), Solid(extractions)))
    BY FS_CardinalityType DEF IngestionInv, LatestExtracted, Lag
  <2> HIDE DEF a, b, c
  <2>2. a + b + c <= 2 * cuts'
    <3> DEFINE x == a + b + c
               d == cuts'
    <3>1. x \in Int /\ d \in Int /\ x <= 2 * cuts /\ cuts <= d
      BY <1>2, <1>6, <2>1
    <3> HIDE DEF x, d
    <3>2. x <= 2 * d
      BY <1>2, <3>1, Doubled
    <3> QED
      BY <3>2 DEF x, d
  <2> QED
    BY <1>5, <2>1, <2>2 DEF LatestExtracted, a, b, c
<1> QED
  BY <1>4, <1>7, <1>8 DEF IngestionInv

\* An ingestion keeps it, whole or cut off.
LEMMA IngestKeeps ==
  ASSUME IngestionInv, NEW s \in SourceIds, NEW text \in Texts, IngestSource(s, text)
  PROVE  IngestionInv'
<1>1. PICK source \in SourceById(s) :
        LET key       == DedupeKey(source)
            number    == NextVersion(key, text)
            row       == [source |-> s, key |-> key, text |-> text, version |-> number]
            extract   == ~ Unchanged(key, text)
            extracted == [source |-> s, text |-> text, version |-> number]
        IN  \/ /\ ingestions' = AppendRow(ingestions, row)
               /\ extractions' = IF extract THEN AppendRow(extractions, extracted) ELSE extractions
               /\ published' = IF extract /\ published[<<s, number>>] = {}
                               THEN [published EXCEPT ![<<s, number>>] = {text}] ELSE published
               /\ cuts' = cuts
            \/ /\ cuts' = cuts + 1 /\ published' = published
               /\ \/ ingestions' = ingestions /\ extractions' = extractions
                  \/ ingestions' \in PartialAppends(ingestions, row) /\ extractions' = extractions
                  \/ /\ ingestions' = AppendRow(ingestions, row)
                     /\ extractions' \in PartialAppends(extractions, extracted)
  BY DEF IngestSource
<1> DEFINE key       == DedupeKey(source)
           number    == NextVersion(key, text)
           row       == [source |-> s, key |-> key, text |-> text, version |-> number]
           extracted == [source |-> s, text |-> text, version |-> number]
<1>2. /\ IngestionTypes /\ GivenAsPublished /\ fetches < MaxFetches
      /\ fetches' = fetches + 1 /\ sources' = sources
  BY DEF IngestionInv, IngestSource
<1>3. source \in SourceRow
  <2>1. \A i \in DOMAIN ReadRows(sources) : ReadRows(sources)[i] \in SourceRow
    BY <1>2, RowsRead DEF IngestionTypes
  <2> QED
    BY <2>1 DEF SourceById, LastOf
<1>4. key \in Urls \cup Dois
  BY <1>3 DEF DedupeKey, SourceRow
<1>5. /\ number \in VersionNumbers /\ number <= fetches + 1
      /\ Unchanged(key, text) => \E prior \in Prior(key) : prior.text = text /\ prior.version = number
  <2> HIDE DEF key
  <2> QED
    BY <1>2, VersionOf
<1> HIDE DEF key, number
<1>6. row \in FetchRow /\ extracted \in ExtractRow
  BY <1>4, <1>5 DEF FetchRow, ExtractRow
<1>7. /\ ingestions \in PartialAppends(ingestions, row)
      /\ extractions \in PartialAppends(extractions, extracted)
      /\ AppendRow(ingestions, row) \in PartialAppends(ingestions, row)
      /\ AppendRow(extractions, extracted) \in PartialAppends(extractions, extracted)
  BY DEF PartialAppends
<1>8. \/ /\ ingestions' = AppendRow(ingestions, row) /\ cuts' = cuts
         /\ ~ Unchanged(key, text) /\ extractions' = AppendRow(extractions, extracted)
         /\ published' = IF published[<<s, number>>] = {}
                         THEN [published EXCEPT ![<<s, number>>] = {text}] ELSE published
      \/ /\ ingestions' = AppendRow(ingestions, row) /\ cuts' = cuts
         /\ Unchanged(key, text) /\ extractions' = extractions /\ published' = published
      \/ /\ cuts' = cuts + 1 /\ published' = published
         /\ ingestions' \in PartialAppends(ingestions, row)
         /\ extractions' \in PartialAppends(extractions, extracted)
  <2> HIDE DEF row, extracted
  <2> QED
    BY <1>1, <1>7 DEF key, number, row, extracted
<1>9. ingestions' \in PartialAppends(ingestions, row) /\ extractions' \in PartialAppends(extractions, extracted)
  <2> HIDE DEF row, extracted
  <2> QED
    BY <1>7, <1>8
<1>10. IngestionTypes'
  <2>1. IsTable(ingestions, FetchRow) /\ IsTable(extractions, ExtractRow) /\ fetches \in Nat /\ cuts \in Nat
    BY <1>2 DEF IngestionTypes
  <2>2. /\ IsTable(ingestions', FetchRow) /\ IsTable(extractions', ExtractRow)
        /\ Same(ingestions, ingestions') \/ Added(ingestions, ingestions', row) \/ Lost(ingestions, ingestions')
    <3> HIDE DEF row, extracted
    <3> QED
      BY <1>6, <1>9, <2>1, CutShort, GarbledIsNoSource
  <2>3. ASSUME NEW i \in DOMAIN ReadRows(ingestions')
        PROVE  ReadRows(ingestions')[i].version <= fetches'
    <3>1. \/ ReadRows(ingestions')[i] = row
          \/ i \in DOMAIN ReadRows(ingestions) /\ ReadRows(ingestions')[i] = ReadRows(ingestions)[i]
      <4> HIDE DEF row
      <4> QED
        BY <2>2 DEF Same, Added, Lost
    <3>2. CASE ReadRows(ingestions')[i] = row
      BY <1>2, <1>5, <3>2
    <3>3. CASE i \in DOMAIN ReadRows(ingestions) /\ ReadRows(ingestions')[i] = ReadRows(ingestions)[i]
      <4> DEFINE v == ReadRows(ingestions)[i].version
      <4>1. v <= fetches /\ v \in VersionNumbers
        <5>1. ReadRows(ingestions)[i] \in FetchRow
          BY <2>1, <3>3, RowsRead
        <5> QED
          BY <1>2, <3>3, <5>1 DEF IngestionTypes, FetchRow
      <4>2. v \in Int
        BY <4>1, IngestionAssumption DEF VersionNumbers
      <4> HIDE DEF v
      <4>3. v <= fetches + 1
        BY <2>1, <4>1, <4>2
      <4> QED
        BY <1>2, <3>3, <4>3 DEF v
    <3> QED
      BY <3>1, <3>2, <3>3
  <2>4. published' \in [SourceIds \X VersionNumbers -> SUBSET Texts]
    <3>1. <<s, number>> \in SourceIds \X VersionNumbers /\ {text} \in SUBSET Texts
      BY <1>5
    <3> HIDE DEF row, extracted
    <3> QED
      BY <1>2, <1>8, <3>1 DEF IngestionTypes
  <2>5. cuts' \in Nat
    BY <1>8, <2>1
  <2> QED
    BY <1>2, <2>1, <2>2, <2>3, <2>4, <2>5 DEF IngestionTypes
<1>11. GivenAsPublished'
  <2>1. CASE /\ cuts' = cuts /\ extractions' = AppendRow(extractions, extracted)
             /\ published' = IF published[<<s, number>>] = {}
                             THEN [published EXCEPT ![<<s, number>>] = {text}] ELSE published
    <3>1. extracted.source = s /\ extracted.version = number /\ extracted.text = text
      OBVIOUS
    <3> HIDE DEF extracted
    <3> QED
      BY <1>6, <2>1, <3>1, LivePublished
  <2>2. CASE cuts' = cuts /\ extractions' = extractions /\ published' = published
    BY <1>2, <2>2 DEF GivenAsPublished, Misgiven, Lag
  <2>3. CASE cuts' = cuts + 1 /\ published' = published
    <3> HIDE DEF row, extracted
    <3> QED
      BY <1>6, <1>9, <2>3, DeathPublished
  <2> HIDE DEF row, extracted
  <2> QED
    BY <1>8, <2>1, <2>2, <2>3
<1>12. LatestExtracted'
  <2>1. row.key = key /\ row.text = text /\ row.version = number
        /\ extracted.text = text /\ extracted.version = number
    OBVIOUS
  <2> HIDE DEF row, extracted
  <2>2. CASE /\ ingestions' = AppendRow(ingestions, row) /\ cuts' = cuts
             /\ extractions' = AppendRow(extractions, extracted)
    BY <1>6, <2>1, <2>2, LiveExtracted
  <2>3. CASE /\ ingestions' = AppendRow(ingestions, row) /\ cuts' = cuts
             /\ Unchanged(key, text) /\ extractions' = extractions
    BY <1>5, <1>6, <2>1, <2>3, LiveExtracted
  <2>4. CASE cuts' = cuts + 1
    BY <1>6, <1>9, <2>4, DeathExtracted
  <2> QED
    BY <1>8, <2>2, <2>3, <2>4
<1> QED
  BY <1>10, <1>11, <1>12 DEF IngestionInv

\* Every step keeps the invariant.
LEMMA NextIngestionInv == IngestionInv /\ [SNext]_svars => IngestionInv'
<1>1. ASSUME IngestionInv, UNCHANGED svars PROVE IngestionInv'
  BY <1>1 DEF svars, IngestionInv, IngestionTypes, GivenAsPublished, LatestExtracted, Misgiven, Unextracted, Lag
<1> QED
  BY <1>1, RegisterKeeps, IngestKeeps DEF SNext

\* The invariant holds in every state.
LEMMA IngestionInvHolds == SSpec => []IngestionInv
BY InitIngestionInv, NextIngestionInv, PTL DEF SSpec

\* Rows read that do not all stay: one version and one key are affected at most.
LEMMA OneRowMayGo ==
  ASSUME IngestionInv
  PROVE  \E sv, key :
           /\ Misgiven(ReadRows(extractions)) \subseteq Misgiven(Solid(extractions)) \cup {sv}
           /\ extractions.ended => Misgiven(ReadRows(extractions)) = Misgiven(Solid(extractions))
           /\ Unextracted(ReadRows(ingestions), ReadRows(extractions))
                \subseteq Unextracted(Solid(ingestions), Solid(extractions)) \cup {key}
           /\ ingestions.ended =>
                Unextracted(ReadRows(ingestions), ReadRows(extractions))
                  \subseteq Unextracted(Solid(ingestions), Solid(extractions))
<1>1. ASSUME NEW R, NEW t, IsTable(t, R)
      PROVE  \/ ReadRows(t) = Solid(t)
             \/ Extends(Solid(t), ReadRows(t), Len(t.lines)) /\ ~ t.ended
  <2> DEFINE rs == Solid(t)
             ru == ReadRows(t)
             m  == Len(t.lines)
  <2>1. DOMAIN ru \subseteq 1 .. m /\ m \in Nat
    BY <1>1, RowsRead
  <2>2. /\ DOMAIN rs \subseteq DOMAIN ru
        /\ \A i \in DOMAIN rs : rs[i] = ru[i]
        /\ t.ended => rs = ru
        /\ DOMAIN ru \subseteq DOMAIN rs \cup {m}
    BY <1>1, SolidRows
  <2>3. ~ t.ended => m \notin DOMAIN rs
    BY DEF Solid
  <2>4. ru = [i \in DOMAIN ru |-> ru[i]] /\ rs = [i \in DOMAIN rs |-> rs[i]]
    BY DEF ReadRows, Solid
  <2>5. \A i \in DOMAIN rs : i \in Nat /\ i <= m
    BY <2>1, <2>2
  <2> HIDE DEF rs, ru, m
  <2>6. CASE t.ended
    BY <2>2, <2>6 DEF rs, ru
  <2>7. CASE ~ t.ended /\ m \in DOMAIN ru
    <3>1. \A i \in DOMAIN rs : i \in Nat /\ i < m /\ ru[i] = rs[i]
      BY <2>1, <2>2, <2>3, <2>5, <2>7
    <3>2. DOMAIN ru = DOMAIN rs \cup {m}
      BY <2>2, <2>7
    <3> QED
      BY <2>1, <2>3, <2>7, <3>1, <3>2 DEF Extends, rs, ru, m
  <2>8. CASE ~ t.ended /\ m \notin DOMAIN ru
    <3>1. DOMAIN rs = DOMAIN ru
      BY <2>2, <2>8
    <3>2. rs = ru
      BY <2>2, <2>4, <3>1
    <3> QED
      BY <3>2 DEF rs, ru
  <2> QED
    BY <2>6, <2>7, <2>8
<1> DEFINE es == Solid(extractions)
           er == ReadRows(extractions)
           n  == Len(extractions.lines)
           is == Solid(ingestions)
           ir == ReadRows(ingestions)
           m  == Len(ingestions.lines)
           sv == <<er[n].source, er[n].version>>
<1>2. /\ er = es \/ (Extends(es, er, n) /\ ~ extractions.ended)
      /\ ir = is \/ (Extends(is, ir, m) /\ ~ ingestions.ended)
  BY <1>1 DEF IngestionInv, IngestionTypes
<1> HIDE DEF es, er, n, is, ir, m
<1>3. Misgiven(er) \subseteq Misgiven(es) \cup {sv} /\ (extractions.ended => Misgiven(er) = Misgiven(es))
  <2>1. CASE er = es
    BY <2>1
  <2>2. CASE Extends(es, er, n) /\ ~ extractions.ended
    <3>1. \A x \in SourceIds \X VersionNumbers :
            er[n].source = x[1] /\ er[n].version = x[2] <=> x = sv
      OBVIOUS
    <3>2. \A x \in SourceIds \X VersionNumbers : x # sv => TextAt(er, x) = TextAt(es, x)
      <4> HIDE DEF sv
      <4> QED
        BY <2>2, <3>1, TextOneMore
    <3> HIDE DEF sv
    <3> QED
      BY <2>2, <3>2 DEF Misgiven
  <2> QED
    BY <1>2, <2>1, <2>2
<1>4. /\ Unextracted(ir, er) \subseteq Unextracted(is, es) \cup {ir[m].key}
      /\ ingestions.ended => Unextracted(ir, er) \subseteq Unextracted(is, es)
  <2>1. er = es \/ Extends(es, er, n)
    BY <1>2
  <2>2. ir = is \/ (Extends(is, ir, m) /\ ir[m] = ir[m])
    BY <1>2
  <2>3. /\ Unextracted(ir, er) \subseteq Unextracted(is, es) \cup {ir[m].key}
        /\ ir = is => Unextracted(ir, er) \subseteq Unextracted(is, es)
    BY <2>1, <2>2, UnextractedStep
  <2> QED
    BY <1>2, <2>3
<1> QED
  BY <1>3, <1>4 DEF es, er, is, ir

\* Old extractions remain readable (src/core/intelligence/ingest.mjs:3-5): for any
\* number of sources, contents, ingestions and deaths, at most one version per
\* death is not given as it was first reported, and at most two latest contents
\* per death have no extraction.
THEOREM ExtractionsAreKept == SSpec => []ExtractionsKept
<1>1. IngestionInv => ExtractionsKept
  <2> SUFFICES ASSUME IngestionInv PROVE ExtractionsKept
    OBVIOUS
  <2> DEFINE F == Misgiven(Solid(extractions))
             G == Misgiven(ReadRows(extractions))
             U == Unextracted(Solid(ingestions), Solid(extractions))
             V == Unextracted(ReadRows(ingestions), ReadRows(extractions))
             A == {sv \in SourceIds \X VersionNumbers :
                     published[sv] # {} /\ ExtractionAt(sv[1], sv[2]) # published[sv]}
             Extracted(latest) == \E i \in DOMAIN ReadRows(extractions) :
                                    /\ ReadRows(extractions)[i].version = latest.version
                                    /\ ReadRows(extractions)[i].text = latest.text
             B == {key \in Urls \cup Dois : \E latest \in Prior(key) : ~ Extracted(latest)}
  <2>1. /\ IsFiniteSet(F) /\ Cardinality(F) \in Nat /\ Cardinality(F) + Lag(extractions) <= cuts
        /\ IsFiniteSet(U) /\ Cardinality(U) \in Nat
        /\ Cardinality(U) + Lag(ingestions) + Lag(extractions) <= 2 * cuts
        /\ cuts \in Nat
    BY FS_CardinalityType DEF IngestionInv, GivenAsPublished, LatestExtracted, IngestionTypes
  <2>2. A \subseteq G
    BY DEF Misgiven, TextAt, ExtractionAt
  <2>3. B = V
    BY DEF Unextracted, HasText, LatestOf, Prior
  <2>4. PICK sv, key : /\ G \subseteq F \cup {sv} /\ (extractions.ended => G = F)
                       /\ V \subseteq U \cup {key} /\ (ingestions.ended => V \subseteq U)
    BY OneRowMayGo
  <2>5. /\ Lag(extractions) \in 0 .. 1 /\ Lag(ingestions) \in 0 .. 1
        /\ Lag(extractions) = 0 => extractions.ended
        /\ Lag(ingestions) = 0 => ingestions.ended
    BY DEF Lag
  <2>6. Cardinality(A) <= cuts
    <3> HIDE DEF A, F, G
    <3>1. A \subseteq F \cup {sv} /\ (Lag(extractions) = 0 => A \subseteq F)
      BY <2>2, <2>4, <2>5
    <3>2. /\ Cardinality(A) \in Nat /\ Cardinality(A) <= Cardinality(F) + 1
          /\ A \subseteq F => Cardinality(A) <= Cardinality(F)
      BY <2>1, <3>1, OneMore
    <3> QED
      BY <2>1, <2>5, <3>1, <3>2
  <2>7. Cardinality(B) <= 2 * cuts
    <3> HIDE DEF B, U, V
    <3>1. B \subseteq U \cup {key} /\ (Lag(ingestions) = 0 => B \subseteq U)
      BY <2>3, <2>4, <2>5
    <3>2. /\ Cardinality(B) \in Nat /\ Cardinality(B) <= Cardinality(U) + 1
          /\ B \subseteq U => Cardinality(B) <= Cardinality(U)
      BY <2>1, <3>1, OneMore
    <3> QED
      BY <2>1, <2>5, <3>1, <3>2
  <2> QED
    BY <2>6, <2>7 DEF ExtractionsKept
<1> QED
  BY <1>1, IngestionInvHolds, PTL

-----------------------------------------------------------------------------
(* Evaluations *)

EvidenceRow == [version : EvaluatorVersions]
ScoredRow   == [call : Evaluations, version : EvaluatorVersions]

EvaluationTypes ==
  /\ stage \in [Evaluations -> {"new", "awaiting", "done", "refused"}]
  /\ version \in [Evaluations -> EvaluatorVersions]
  /\ strict \in [Evaluations -> BOOLEAN]
  /\ met \in [Evaluations -> SUBSET Evaluations]
  /\ IsTable(raw, EvidenceRow) /\ IsTable(scores, ScoredRow)
  /\ faults \in Nat

(* Scores and their evidence *)

CountIn(rows, v) == Cardinality({i \in DOMAIN rows : rows[i].version = v})

\* What a table of evidence is sure to keep for a version: an unfinished line
\* costs the next row.
Worth(t, v) == CountIn(Solid(t), v) - (IF t.ended THEN 0 ELSE 1)

Backed == \A v \in EvaluatorVersions : EvidenceCount * CountOf(scores, v) <= Worth(raw, v) + faults

EvidenceInv == EvaluationTypes /\ Backed

\* A garbled line is no evidence and no score.
LEMMA GarbledIsNoEvaluation == Garbled \notin EvidenceRow /\ Garbled \notin ScoredRow
<1>1. "garbled" \in DOMAIN Garbled
  BY DEF Garbled
<1>2. /\ \A r \in EvidenceRow : "garbled" \notin DOMAIN r
      /\ \A r \in ScoredRow : "garbled" \notin DOMAIN r
  BY DEF EvidenceRow, ScoredRow
<1> QED
  BY <1>1, <1>2

\* Rows are counted by naturals, and what is sure to stay is what can be read at most.
LEMMA Counts ==
  ASSUME NEW R, NEW t, IsTable(t, R), NEW v
  PROVE  /\ CountIn(ReadRows(t), v) \in Nat /\ CountIn(Solid(t), v) \in Nat
         /\ CountIn(Solid(t), v) <= CountIn(ReadRows(t), v)
         /\ Worth(t, v) \in Int /\ Worth(t, v) <= CountIn(ReadRows(t), v)
<1> DEFINE all   == {i \in DOMAIN ReadRows(t) : ReadRows(t)[i].version = v}
           solid == {i \in DOMAIN Solid(t) : Solid(t)[i].version = v}
<1>1. IsFiniteSet(DOMAIN ReadRows(t))
  BY RowsRead
<1>2. IsFiniteSet(all)
  BY <1>1, FS_Subset
<1>3. solid \subseteq all
  BY SolidRows
<1>4. IsFiniteSet(solid) /\ Cardinality(all) \in Nat /\ Cardinality(solid) \in Nat /\ Cardinality(solid) <= Cardinality(all)
  <2> HIDE DEF solid, all
  <2> QED
    BY <1>2, <1>3, FS_Subset, FS_CardinalityType
<1> QED
  BY <1>4 DEF CountIn, Worth

\* The two tables of a state.
LEMMA TablesCount ==
  ASSUME EvaluationTypes, NEW v
  PROVE  /\ CountOf(scores, v) \in Nat /\ CountOf(raw, v) \in Nat
         /\ Worth(raw, v) \in Int /\ Worth(raw, v) <= CountOf(raw, v)
<1>1. IsTable(raw, EvidenceRow) /\ IsTable(scores, ScoredRow)
  BY DEF EvaluationTypes
<1>2. CountOf(scores, v) = CountIn(ReadRows(scores), v) /\ CountOf(raw, v) = CountIn(ReadRows(raw), v)
  BY DEF CountOf, CountIn
<1> QED
  BY <1>1, <1>2, Counts

\* A row that is added counts for its version.
LEMMA CountAdded ==
  ASSUME NEW R, NEW t, IsTable(t, R), NEW u, NEW r, Added(t, u, r), NEW v
  PROVE  CountIn(ReadRows(u), v) = CountIn(ReadRows(t), v) + (IF r.version = v THEN 1 ELSE 0)
<1> DEFINE n      == Len(t.lines) + 1
           before == {i \in DOMAIN ReadRows(t) : ReadRows(t)[i].version = v}
           after  == {i \in DOMAIN ReadRows(u) : ReadRows(u)[i].version = v}
<1>1. /\ DOMAIN ReadRows(t) \subseteq 1 .. Len(t.lines) /\ Len(t.lines) \in Nat
      /\ IsFiniteSet(DOMAIN ReadRows(t))
  BY RowsRead
<1>2. IsFiniteSet(before) /\ n \notin before
  BY <1>1, FS_Subset
<1>3. after = IF r.version = v THEN before \cup {n} ELSE before
  BY <1>1 DEF Added
<1>4. Cardinality(after) = Cardinality(before) + (IF r.version = v THEN 1 ELSE 0)
  <2> HIDE DEF before, after, n
  <2> QED
    BY <1>2, <1>3, FS_AddElement, FS_CardinalityType
<1> QED
  BY <1>4 DEF CountIn

\* An append is worth its row, also where an unfinished line costs it.
LEMMA AppendIsWorth ==
  ASSUME NEW t, IsTable(t, EvidenceRow), NEW r \in EvidenceRow, NEW v
  PROVE  /\ IsTable(AppendRow(t, r), EvidenceRow)
         /\ Worth(AppendRow(t, r), v) \in Int
         /\ Worth(AppendRow(t, r), v) >= Worth(t, v) + (IF r.version = v THEN 1 ELSE 0)
<1> DEFINE u == AppendRow(t, r)
<1>1. /\ u.ended /\ Solid(u) = ReadRows(u)
      /\ t.ended => Solid(t) = ReadRows(t) /\ Added(t, u, r)
      /\ ~ t.ended => ReadRows(u) = Solid(t)
  BY SolidAppended, GarbledIsNoEvaluation
<1>2. IsTable(u, EvidenceRow)
  BY Appended, GarbledIsNoEvaluation
<1>3. /\ CountIn(Solid(t), v) \in Nat /\ CountIn(Solid(u), v) \in Nat
      /\ Worth(t, v) \in Int /\ Worth(u, v) \in Int
  <2> HIDE DEF u
  <2> QED
    BY <1>2, Counts
<1>4. CASE t.ended
  <2>1. CountIn(ReadRows(u), v) = CountIn(ReadRows(t), v) + (IF r.version = v THEN 1 ELSE 0)
    BY <1>1, <1>4, CountAdded
  <2> HIDE DEF u
  <2> QED
    BY <1>1, <1>2, <1>3, <1>4, <2>1 DEF Worth, u
<1>5. CASE ~ t.ended
  <2> HIDE DEF u
  <2> QED
    BY <1>1, <1>2, <1>3, <1>5 DEF Worth, u
<1> QED
  BY <1>4, <1>5

\* One that is cut short costs one row at most, now or with the next.
LEMMA CutCostsOne ==
  ASSUME NEW t, IsTable(t, EvidenceRow), NEW r \in EvidenceRow, NEW u \in PartialAppends(t, r), NEW v
  PROVE  IsTable(u, EvidenceRow) /\ Worth(u, v) \in Int /\ Worth(u, v) >= Worth(t, v) - 1
<1>1. IsTable(u, EvidenceRow)
  BY CutShort, GarbledIsNoEvaluation
<1>2. CountIn(Solid(t), v) \in Nat /\ Worth(t, v) \in Int /\ Worth(u, v) \in Int
  BY <1>1, Counts
<1>3. CASE u = t
  BY <1>1, <1>2, <1>3
<1>4. CASE u = AppendRow(t, r)
  BY <1>1, <1>2, <1>4, AppendIsWorth
<1>5. CASE u # t /\ u # AppendRow(t, r)
  <2>1. Solid(u) = Solid(t)
    BY <1>5, SolidCut, GarbledIsNoEvaluation
  <2> QED
    BY <1>1, <1>2, <2>1 DEF Worth
<1> QED
  BY <1>3, <1>4, <1>5

\* The rows of one call, the first of which may meet an unfinished line.
LEMMA RowsAfterOneAnother ==
  ASSUME EvaluationTypes, NEW e \in Evaluations, NEW n \in 0 .. EvidenceCount
  PROVE  RawAfter(e, n) = IF n = 0 THEN raw ELSE AppendRow(RawAfter(e, n - 1), RawRow(e))
<1> DEFINE N == 0 .. EvidenceCount
           row == RawRow(e)
           base == IF raw.ended THEN raw.lines ELSE ReplaceLast(raw.lines, Garbled)
           more(k) == IF raw.ended THEN k ELSE k - 1
           lines(k) == [i \in 1 .. Len(base) + more(k) |-> IF i <= Len(base) THEN base[i] ELSE row]
           closed == [k \in N |-> IF k = 0 THEN raw ELSE [lines |-> lines(k), ended |-> TRUE]]
           step(f) == [k \in N |-> IF k = 0 THEN raw ELSE AppendRow(f[k - 1], row)]
           after == CHOOSE f : f = step(f)
<1>1. EvidenceCount \in Nat
  BY EvaluationAssumption
<1>2. base \in Seq(EvidenceRow \cup {Garbled}) /\ row \in EvidenceRow /\ Len(base) \in Nat
  BY DEF EvaluationTypes, IsTable, ReplaceLast, RawRow, EvidenceRow
<1>3. \A k \in N : k # 0 => closed[k] = AppendRow(closed[k - 1], row)
  <2> SUFFICES ASSUME NEW k \in N, k # 0 PROVE closed[k] = AppendRow(closed[k - 1], row)
    OBVIOUS
  <2>1. k - 1 \in N /\ k \in Nat /\ k >= 1
    BY <1>1
  <2>2. CASE k = 1
    <3>1. closed[k - 1] = raw /\ closed[k] = [lines |-> lines(1), ended |-> TRUE]
      BY <2>1, <2>2
    <3>2. AppendRow(raw, row) = [lines |-> IF raw.ended THEN Append(base, row) ELSE base, ended |-> TRUE]
      BY DEF AppendRow
    <3>3. raw.ended => lines(1) = Append(base, row)
      <4> SUFFICES ASSUME raw.ended PROVE lines(1) = Append(base, row)
        OBVIOUS
      <4> DEFINE b == Len(base) + more(1)
      <4>1. b = Len(base) + 1
        OBVIOUS
      <4>2. lines(1) = [i \in 1 .. b |-> IF i <= Len(base) THEN base[i] ELSE row]
        OBVIOUS
      <4> HIDE DEF base, row, b, lines
      <4>3. lines(1) \in Seq(EvidenceRow \cup {Garbled}) /\ Len(lines(1)) = Len(base) + 1
        BY <1>2, <4>1, <4>2
      <4>4. /\ Append(base, row) \in Seq(EvidenceRow \cup {Garbled})
            /\ Len(Append(base, row)) = Len(base) + 1
            /\ \A i \in 1 .. Len(base) + 1 : Append(base, row)[i] = lines(1)[i]
        BY <1>2, <4>1, <4>2
      <4> QED
        BY <4>3, <4>4, SeqEqual
    <3>4. ~ raw.ended => lines(1) = base
      <4> HIDE DEF base, row
      <4> QED
        BY <1>2
    <3> QED
      BY <3>1, <3>2, <3>3, <3>4
  <2>3. CASE k # 1
    <3>1. /\ closed[k - 1] = [lines |-> lines(k - 1), ended |-> TRUE]
          /\ closed[k] = [lines |-> lines(k), ended |-> TRUE]
      <4> HIDE DEF lines
      <4> QED
        BY <2>1, <2>3
    <3>2. AppendRow(closed[k - 1], row) = [lines |-> Append(lines(k - 1), row), ended |-> TRUE]
      <4> HIDE DEF lines, closed
      <4> QED
        BY <3>1 DEF AppendRow
    <3>3. lines(k) = Append(lines(k - 1), row)
      <4> DEFINE m == Len(base) + more(k - 1)
      <4>1. m \in Nat /\ Len(base) + more(k) = m + 1 /\ m >= Len(base)
        BY <1>2, <2>1, <2>3
      <4>2. lines(k - 1) \in Seq(EvidenceRow \cup {Garbled}) /\ Len(lines(k - 1)) = m
        <5> HIDE DEF base, row, more
        <5> QED
          BY <1>2, <4>1
      <4> HIDE DEF base, row, more
      <4> QED
        BY <1>2, <4>1, <4>2
    <3> QED
      BY <3>1, <3>2, <3>3
  <2> QED
    BY <2>2, <2>3
<1>4. closed = step(closed)
  <2>1. closed[0] = raw
    BY <1>1
  <2> HIDE DEF lines
  <2> QED
    BY <1>3, <2>1
<1>5. after = step(after)
  <2> HIDE DEF closed
  <2> QED
    BY <1>4
<1>6. \A k : RawAfter(e, k) = after[k]
  BY DEF RawAfter
<1> HIDE DEF after
<1>7. after[n] = IF n = 0 THEN raw ELSE AppendRow(after[n - 1], row)
  BY <1>5
<1> QED
  BY <1>6, <1>7

\* n rows of a call are worth n rows for its version.
LEMMA RowsAreWorth ==
  ASSUME EvaluationTypes, NEW e \in Evaluations, NEW v, NEW n \in 0 .. EvidenceCount
  PROVE  /\ IsTable(RawAfter(e, n), EvidenceRow)
         /\ Worth(RawAfter(e, n), v) \in Int
         /\ Worth(RawAfter(e, n), v) >= Worth(raw, v) + (IF version[e] = v THEN n ELSE 0)
<1> DEFINE Right(k) ==
      /\ IsTable(RawAfter(e, k), EvidenceRow)
      /\ Worth(RawAfter(e, k), v) \in Int
      /\ Worth(RawAfter(e, k), v) >= Worth(raw, v) + (IF version[e] = v THEN k ELSE 0)
           Wrong == {k \in 0 .. EvidenceCount : ~ Right(k)}
<1>1. EvidenceCount \in Nat /\ IsTable(raw, EvidenceRow) /\ Worth(raw, v) \in Int
  BY EvaluationAssumption, Counts DEF EvaluationTypes
<1>2. Right(0)
  <2>1. RawAfter(e, 0) = raw
    BY <1>1, RowsAfterOneAnother
  <2> QED
    BY <1>1, <2>1
<1>3. ASSUME NEW k \in 0 .. EvidenceCount, k # 0, Right(k - 1) PROVE Right(k)
  <2> DEFINE t == RawAfter(e, k - 1)
  <2>1. RawAfter(e, k) = AppendRow(t, RawRow(e))
    BY <1>3, RowsAfterOneAnother
  <2>2. RawRow(e) \in EvidenceRow /\ RawRow(e).version = version[e]
    BY DEF RawRow, EvidenceRow, EvaluationTypes
  <2>3. IsTable(t, EvidenceRow)
    BY <1>3
  <2> HIDE DEF t
  <2>4. /\ IsTable(AppendRow(t, RawRow(e)), EvidenceRow)
        /\ Worth(AppendRow(t, RawRow(e)), v) \in Int
        /\ Worth(AppendRow(t, RawRow(e)), v) >= Worth(t, v) + (IF version[e] = v THEN 1 ELSE 0)
    BY <2>2, <2>3, AppendIsWorth
  <2>5. Worth(t, v) \in Int /\ Worth(t, v) >= Worth(raw, v) + (IF version[e] = v THEN k - 1 ELSE 0)
    BY <1>3 DEF t
  <2> QED
    BY <1>1, <2>1, <2>4, <2>5
<1>4. Wrong = {}
  <2> SUFFICES ASSUME Wrong # {} PROVE FALSE
    OBVIOUS
  <2>1. PICK m \in Wrong : \A k \in Wrong : m <= k
    <3>1. Wrong \in SUBSET (0 .. EvidenceCount)
      OBVIOUS
    <3> HIDE DEF Wrong
    <3> QED
      BY <1>1, <3>1, LeastNumber
  <2> HIDE DEF Right
  <2>2. m \in 0 .. EvidenceCount /\ ~ Right(m)
    OBVIOUS
  <2>3. m # 0
    BY <1>2, <2>2
  <2>4. m - 1 \in 0 .. EvidenceCount /\ ~ (m <= m - 1)
    BY <1>1, <2>2, <2>3
  <2>5. Right(m - 1)
    BY <2>1, <2>4
  <2> QED
    BY <1>3, <2>2, <2>3, <2>5
<1> QED
  <2> HIDE DEF Right
  <2>1. Right(n)
    BY <1>4
  <2> QED
    BY <2>1 DEF Right

\* A score, or what a crash leaves of it, counts once, for its version.
LEMMA ScoreCounts ==
  ASSUME EvaluationTypes, NEW e \in Evaluations, NEW u \in PartialAppends(scores, ScoreRow(e)), NEW v
  PROVE  /\ IsTable(u, ScoredRow)
         /\ CountOf(u, v) \in Nat /\ CountOf(scores, v) \in Nat
         /\ CountOf(u, v) <= CountOf(scores, v) + (IF version[e] = v THEN 1 ELSE 0)
<1>1. /\ IsTable(scores, ScoredRow) /\ ScoreRow(e) \in ScoredRow
      /\ ScoreRow(e).version = version[e]
  BY DEF EvaluationTypes, ScoreRow, ScoredRow
<1>2. /\ IsTable(u, ScoredRow)
      /\ Same(scores, u) \/ Added(scores, u, ScoreRow(e)) \/ Lost(scores, u)
  BY <1>1, CutShort, GarbledIsNoEvaluation
<1>3. CountIn(ReadRows(u), v) \in Nat /\ CountIn(ReadRows(scores), v) \in Nat
  BY <1>1, <1>2, Counts
<1>4. CountIn(ReadRows(u), v) <= CountIn(ReadRows(scores), v) + (IF version[e] = v THEN 1 ELSE 0)
  <2>1. CASE Same(scores, u)
    BY <1>3, <2>1 DEF Same
  <2>2. CASE Added(scores, u, ScoreRow(e))
    <3>1. CountIn(ReadRows(u), v) = CountIn(ReadRows(scores), v) + (IF version[e] = v THEN 1 ELSE 0)
      BY <1>1, <2>2, CountAdded
    <3> QED
      BY <1>3, <3>1
  <2>3. CASE Lost(scores, u)
    <3> DEFINE before == {i \in DOMAIN ReadRows(scores) : ReadRows(scores)[i].version = v}
               after  == {i \in DOMAIN ReadRows(u) : ReadRows(u)[i].version = v}
    <3>1. IsFiniteSet(DOMAIN ReadRows(scores))
      BY <1>1, RowsRead
    <3>2. after \subseteq before /\ IsFiniteSet(before)
      BY <2>3, <3>1, FS_Subset DEF Lost
    <3>3. Cardinality(after) <= Cardinality(before)
      <4> HIDE DEF before, after
      <4> QED
        BY <3>2, FS_Subset
    <3> QED
      BY <1>3, <3>3 DEF CountIn
  <2> QED
    BY <1>2, <2>1, <2>2, <2>3
<1> QED
  BY <1>2, <1>3, <1>4 DEF CountOf, CountIn

\* The invariant holds at first.
LEMMA InitEvidenceInv == EInit => EvidenceInv
<1> SUFFICES ASSUME EInit PROVE EvidenceInv
  OBVIOUS
<1>1. EvaluationTypes
  BY DEF EInit, EvaluationTypes, IsTable, EmptyTable
<1>2. ASSUME NEW v PROVE CountOf(scores, v) = 0 /\ Worth(raw, v) = 0
  <2>1. DOMAIN ReadRows(scores) = {} /\ DOMAIN Solid(raw) = {} /\ raw.ended
    BY DEF EInit, ReadRows, Solid, EmptyTable
  <2>2. /\ {i \in DOMAIN ReadRows(scores) : ReadRows(scores)[i].version = v} = {}
        /\ {i \in DOMAIN Solid(raw) : Solid(raw)[i].version = v} = {}
    BY <2>1
  <2> QED
    BY <2>1, <2>2, FS_EmptySet DEF CountOf, Worth, CountIn
<1>3. EvidenceCount \in Nat /\ faults = 0
  BY EvaluationAssumption DEF EInit
<1> QED
  BY <1>1, <1>2, <1>3 DEF EvidenceInv, Backed

\* An inequality the count of evidence needs.
LEMMA SumsUp ==
  ASSUME NEW a \in Int, NEW b \in Int, NEW c \in Int, NEW w \in Int, NEW x \in Int,
         NEW f \in Int, NEW g \in {f, f + 1}, a <= w + f, b <= a + c, x >= w + c
  PROVE  b <= x + g
OBVIOUS

\* The evidence comes first: when a death leaves part of it, no score follows.
LEMMA ReturnBacked ==
  ASSUME EvidenceInv, NEW e \in Evaluations, EvaluatorReturns(e)
  PROVE  EvidenceInv'
<1> DEFINE bonus(v) == IF version[e] = v THEN 1 ELSE 0
<1>1. EvaluationTypes /\ EvidenceCount \in Nat /\ faults \in Nat
  BY EvaluationAssumption DEF EvidenceInv, EvaluationTypes
<1>2. /\ version' = version /\ strict' = strict /\ met' = met
      /\ stage' \in [Evaluations -> {"new", "awaiting", "done", "refused"}]
      /\ faults' \in Nat
  BY <1>1 DEF EvaluatorReturns, EvaluationTypes
<1>3. ASSUME NEW v \in EvaluatorVersions
      PROVE  /\ CountOf(scores, v) \in Nat /\ Worth(raw, v) \in Int
             /\ EvidenceCount * CountOf(scores, v) <= Worth(raw, v) + faults
  BY <1>1, TablesCount DEF EvidenceInv, Backed
<1>4. CASE /\ raw' = RawAfter(e, EvidenceCount)
           /\ scores' \in PartialAppends(scores, ScoreRow(e))
           /\ faults' \in {faults, faults + 1}
  <2>1. IsTable(raw', EvidenceRow) /\ IsTable(scores', ScoredRow)
    BY <1>1, <1>4, RowsAreWorth, ScoreCounts
  <2>2. ASSUME NEW v \in EvaluatorVersions
        PROVE  EvidenceCount * CountOf(scores', v) <= Worth(raw', v) + faults'
    <3>1. /\ CountOf(scores', v) \in Nat
          /\ CountOf(scores', v) <= CountOf(scores, v) + bonus(v)
      BY <1>1, <1>4, ScoreCounts
    <3>2. /\ Worth(raw', v) \in Int
          /\ Worth(raw', v) >= Worth(raw, v) + (IF version[e] = v THEN EvidenceCount ELSE 0)
      BY <1>1, <1>4, RowsAreWorth
    <3>3. EvidenceCount * CountOf(scores', v)
            <= EvidenceCount * CountOf(scores, v) + (IF version[e] = v THEN EvidenceCount ELSE 0)
      BY <1>1, <1>3, <3>1
    <3> DEFINE a == EvidenceCount * CountOf(scores, v)
               b == EvidenceCount * CountOf(scores', v)
               c == IF version[e] = v THEN EvidenceCount ELSE 0
               w == Worth(raw, v)
               x == Worth(raw', v)
               f == faults
               g == faults'
    <3>4. /\ a \in Int /\ b \in Int /\ c \in Int /\ w \in Int /\ x \in Int
          /\ f \in Int /\ g \in {f, f + 1}
          /\ a <= w + f /\ b <= a + c /\ x >= w + c
      BY <1>1, <1>3, <1>4, <3>1, <3>2, <3>3
    <3> HIDE DEF a, b, c, w, x, f, g
    <3>5. b <= x + g
      BY <3>4, SumsUp
    <3> QED
      BY <3>5 DEF b, x, g
  <2> QED
    BY <1>1, <1>2, <2>1, <2>2 DEF EvidenceInv, EvaluationTypes, Backed
<1>5. CASE /\ \E n \in 1 .. EvidenceCount : raw' \in PartialAppends(RawAfter(e, n - 1), RawRow(e))
           /\ scores' = scores /\ faults' = faults + 1
  <2>1. PICK n \in 1 .. EvidenceCount : raw' \in PartialAppends(RawAfter(e, n - 1), RawRow(e))
    BY <1>5
  <2>2. RawRow(e) \in EvidenceRow /\ n - 1 \in 0 .. EvidenceCount
    BY <1>1 DEF RawRow, EvidenceRow, EvaluationTypes
  <2>3. ASSUME NEW v PROVE /\ IsTable(raw', EvidenceRow) /\ Worth(raw', v) \in Int
                           /\ Worth(raw', v) >= Worth(raw, v) - 1
    <3> DEFINE t == RawAfter(e, n - 1)
    <3>1. /\ IsTable(t, EvidenceRow) /\ Worth(t, v) \in Int
          /\ Worth(t, v) >= Worth(raw, v) + (IF version[e] = v THEN n - 1 ELSE 0)
      BY <1>1, <2>2, RowsAreWorth
    <3> HIDE DEF t
    <3>2. /\ IsTable(raw', EvidenceRow) /\ Worth(raw', v) \in Int
          /\ Worth(raw', v) >= Worth(t, v) - 1
      <4>1. raw' \in PartialAppends(t, RawRow(e))
        BY <2>1 DEF t
      <4> QED
        BY <2>2, <3>1, <4>1, CutCostsOne
    <3>3. Worth(raw, v) \in Int
      BY <1>1, Counts DEF EvaluationTypes
    <3> QED
      BY <3>1, <3>2, <3>3
  <2>4. ASSUME NEW v \in EvaluatorVersions
        PROVE  EvidenceCount * CountOf(scores', v) <= Worth(raw', v) + faults'
    BY <1>1, <1>3, <1>5, <2>3
  <2> QED
    BY <1>1, <1>2, <1>5, <2>3, <2>4 DEF EvidenceInv, EvaluationTypes, Backed
<1> QED
  <2>1. ScoreRow(e) = ScoreRow(e) /\ AppendRow(scores, ScoreRow(e)) \in PartialAppends(scores, ScoreRow(e))
    BY WholeAppend
  <2> QED
    BY <1>4, <1>5, <2>1 DEF EvaluatorReturns

\* Every step keeps the invariant.
LEMMA NextEvidenceInv == EvidenceInv /\ [ENext]_evars => EvidenceInv'
<1> SUFFICES ASSUME EvidenceInv, [ENext]_evars PROVE EvidenceInv'
  OBVIOUS
<1>1. ASSUME NEW e \in Evaluations, Evaluate(e) PROVE EvidenceInv'
  <2>1. EvaluationTypes'
    BY <1>1 DEF Evaluate, EvidenceInv, EvaluationTypes, Awaiting
  <2> QED
    BY <1>1, <2>1 DEF Evaluate, EvidenceInv, Backed
<1>2. ASSUME NEW e \in Evaluations, EvaluatorFails(e) PROVE EvidenceInv'
  <2>1. EvaluationTypes'
    BY <1>2 DEF EvaluatorFails, EvidenceInv, EvaluationTypes
  <2> QED
    BY <1>2, <2>1 DEF EvaluatorFails, EvidenceInv, Backed
<1>3. CASE UNCHANGED evars
  BY <1>3 DEF evars, EvidenceInv, EvaluationTypes, Backed
<1> QED
  BY <1>1, <1>2, <1>3, ReturnBacked DEF ENext

\* The invariant holds in every state.
LEMMA EvidenceInvHolds == ESpec => []EvidenceInv
BY InitEvidenceInv, NextEvidenceInv, PTL DEF ESpec

\* Scores never detach from the evidence that produced them (src/core/evaluation.mjs:4-5):
\* for any number of calls that overlap, of evidence rows and of deaths, the scores
\* of a version have all their evidence, up to one row per death.
THEOREM ScoresStayAttached == ESpec => []ScoresAttached
<1>1. EvidenceInv => ScoresAttached
  <2> SUFFICES ASSUME EvidenceInv, NEW v \in EvaluatorVersions
               PROVE  EvidenceCount * CountOf(scores, v) <= CountOf(raw, v) + faults
    BY DEF ScoresAttached
  <2>1. /\ CountOf(scores, v) \in Nat /\ CountOf(raw, v) \in Nat
        /\ Worth(raw, v) \in Int /\ Worth(raw, v) <= CountOf(raw, v)
    BY TablesCount DEF EvidenceInv
  <2>2. EvidenceCount \in Nat /\ faults \in Nat
    BY EvaluationAssumption DEF EvidenceInv, EvaluationTypes
  <2> QED
    BY <2>1, <2>2 DEF EvidenceInv, Backed
<1> QED
  BY <1>1, EvidenceInvHolds, PTL

(* Strict versions *)

\* What the rows told a call with strictVersion, those of calls it overlaps aside.
Follows(e, rows) ==
  strict[e] => \A last \in LastOf(rows, {i \in DOMAIN rows : rows[i].call \notin met[e]}) :
                 last.version = version[e]

\* The calls at work whose score a death has hidden, and no odd score tells yet.
Misled ==
  {e \in Awaiting : /\ ~ Follows(e, Solid(scores))
                    /\ \A j \in Odd(Solid(scores)) : Solid(scores)[j].call \notin met[e]}

\* Calls that wrote are over, and calls at work overlap.
Scored(rows) ==
  \A i \in DOMAIN rows : /\ stage[rows[i].call] \in {"done", "refused"}
                         /\ rows[i].version = version[rows[i].call]

AllMet == \A e, f \in Awaiting : e # f => f \in met[e]

\* Every death has hidden a score from one group of calls, or will when the
\* unfinished line it left meets the next score.
HiddenOnce ==
  Cardinality(FirstOdd(Solid(scores))) + (IF scores.ended /\ Misled = {} THEN 0 ELSE 1) <= faults

StrictInv == EvaluationTypes /\ Scored(ReadRows(scores)) /\ AllMet /\ HiddenOnce

\* The last of some rows is the same whatever other rows there are.
LEMMA SameLast ==
  ASSUME NEW rs, NEW ru, NEW S, S \subseteq DOMAIN rs, \A i \in S : ru[i] = rs[i]
  PROVE  LastOf(ru, S) = LastOf(rs, S)
BY DEF LastOf

\* One row more leaves the odd ones odd.
LEMMA OneOddMore ==
  ASSUME NEW m \in Nat, NEW rs, NEW ru, DOMAIN rs \subseteq Nat, \A i \in DOMAIN rs : i < m,
         DOMAIN ru = DOMAIN rs \cup {m}, \A i \in DOMAIN rs : ru[i] = rs[i]
  PROVE  /\ Odd(rs) = Odd(ru) \ {m}
         /\ FirstOdd(ru) \subseteq FirstOdd(rs) \cup {m}
         /\ m \in Odd(ru) <=>
              /\ strict[ru[m].call]
              /\ \E last \in LastOf(rs, {i \in DOMAIN rs : rs[i].call \notin met[ru[m].call]}) :
                   last.version # ru[m].version
         /\ m \in FirstOdd(ru) => \A j \in Odd(rs) : rs[j].call \notin met[ru[m].call]
<1> DEFINE before(rows, j) == {i \in DOMAIN rows : i < j /\ rows[i].call \notin met[rows[j].call]}
<1>1. \A j \in DOMAIN rs : before(ru, j) = before(rs, j)
  <2> TAKE j \in DOMAIN rs
  <2>1. ru[j] = rs[j] /\ j \in Nat /\ ~ (m < j) /\ j # m
    OBVIOUS
  <2> QED
    BY <2>1
<1>2. \A j \in DOMAIN rs : LastOf(ru, before(ru, j)) = LastOf(rs, before(rs, j))
  <2> TAKE j \in DOMAIN rs
  <2>1. before(rs, j) \subseteq DOMAIN rs
    OBVIOUS
  <2>2. LastOf(ru, before(rs, j)) = LastOf(rs, before(rs, j))
    <3> HIDE DEF before
    <3> QED
      BY <2>1, SameLast
  <2> QED
    BY <1>1, <2>2
<1>3. /\ before(ru, m) = {i \in DOMAIN rs : rs[i].call \notin met[ru[m].call]}
      /\ before(ru, m) \subseteq DOMAIN rs
  <2>1. \A i \in DOMAIN ru : i < m <=> i \in DOMAIN rs
    OBVIOUS
  <2> QED
    BY <2>1
<1>4. LastOf(ru, before(ru, m)) = LastOf(rs, {i \in DOMAIN rs : rs[i].call \notin met[ru[m].call]})
  <2> DEFINE S == {i \in DOMAIN rs : rs[i].call \notin met[ru[m].call]}
  <2>1. S \subseteq DOMAIN rs /\ before(ru, m) = S
    BY <1>3
  <2> HIDE DEF S, before
  <2>2. LastOf(ru, S) = LastOf(rs, S)
    BY <2>1, SameLast
  <2> QED
    BY <2>1, <2>2 DEF S
<1>5. \A rows : Odd(rows) = {j \in DOMAIN rows :
        strict[rows[j].call] /\ \E last \in LastOf(rows, before(rows, j)) : last.version # rows[j].version}
  BY DEF Odd
<1> HIDE DEF before
<1>6. m \notin DOMAIN rs
  OBVIOUS
<1>7. \A j \in DOMAIN rs : j \in Odd(rs) <=> j \in Odd(ru)
  BY <1>2, <1>5
<1>8. Odd(rs) = Odd(ru) \ {m}
  <2>1. Odd(rs) \subseteq DOMAIN rs /\ Odd(ru) \subseteq DOMAIN rs \cup {m}
    BY <1>5
  <2> QED
    BY <1>6, <1>7, <2>1
<1>9. m \in Odd(ru) <=>
        /\ strict[ru[m].call]
        /\ \E last \in LastOf(rs, {i \in DOMAIN rs : rs[i].call \notin met[ru[m].call]}) :
             last.version # ru[m].version
  BY <1>4, <1>5
<1>10. \A i \in Odd(rs) : i \in DOMAIN rs /\ i < m
  BY <1>5
<1>11. FirstOdd(ru) \subseteq FirstOdd(rs) \cup {m}
  <2> SUFFICES ASSUME NEW j \in FirstOdd(ru), j # m PROVE j \in FirstOdd(rs)
    OBVIOUS
  <2>1. j \in Odd(rs) /\ \A i \in Odd(ru) : i < j => ru[i].call \notin met[ru[j].call]
    BY <1>8 DEF FirstOdd
  <2>2. \A i \in Odd(rs) : i \in Odd(ru) /\ ru[i] = rs[i]
    BY <1>8, <1>10
  <2> QED
    BY <2>1, <2>2 DEF FirstOdd
<1>12. m \in FirstOdd(ru) => \A j \in Odd(rs) : rs[j].call \notin met[ru[m].call]
  BY <1>8, <1>10 DEF FirstOdd
<1> QED
  BY <1>8, <1>9, <1>11, <1>12

\* The odd scores are finitely many.
LEMMA OddCounts ==
  ASSUME EvaluationTypes
  PROVE  /\ IsFiniteSet(FirstOdd(Solid(scores)))
         /\ Cardinality(FirstOdd(Solid(scores))) \in Nat
         /\ DOMAIN Solid(scores) \subseteq 1 .. Len(scores.lines) /\ Len(scores.lines) \in Nat
         /\ \A i \in DOMAIN Solid(scores) : Solid(scores)[i].call \in Evaluations
<1>1. IsTable(scores, ScoredRow)
  BY DEF EvaluationTypes
<1>2. /\ DOMAIN ReadRows(scores) \subseteq 1 .. Len(scores.lines) /\ Len(scores.lines) \in Nat
      /\ IsFiniteSet(DOMAIN ReadRows(scores))
  BY <1>1, RowsRead
<1>3. /\ DOMAIN Solid(scores) \subseteq DOMAIN ReadRows(scores)
      /\ \A i \in DOMAIN Solid(scores) : Solid(scores)[i] \in ScoredRow
  BY <1>1, SolidRows
<1>4. FirstOdd(Solid(scores)) \subseteq DOMAIN ReadRows(scores)
  BY <1>3 DEF FirstOdd, Odd
<1>5. IsFiniteSet(FirstOdd(Solid(scores))) /\ Cardinality(FirstOdd(Solid(scores))) \in Nat
  BY <1>2, <1>4, FS_Subset, FS_CardinalityType
<1> QED
  BY <1>2, <1>3, <1>5 DEF ScoredRow

\* The invariant holds at first.
LEMMA InitStrictInv == EInit => StrictInv
<1> SUFFICES ASSUME EInit PROVE StrictInv
  OBVIOUS
<1>1. EvaluationTypes
  BY InitEvidenceInv DEF EvidenceInv
<1>2. DOMAIN ReadRows(scores) = {} /\ DOMAIN Solid(scores) = {} /\ scores.ended
  BY DEF EInit, ReadRows, Solid, EmptyTable
<1>3. FirstOdd(Solid(scores)) = {} /\ Awaiting = {} /\ Misled = {}
  BY <1>2 DEF EInit, FirstOdd, Odd, Awaiting, Misled
<1>4. Cardinality(FirstOdd(Solid(scores))) = 0 /\ faults = 0
  BY <1>3, FS_EmptySet DEF EInit
<1> QED
  BY <1>1, <1>2, <1>3, <1>4 DEF StrictInv, Scored, AllMet, HiddenOnce

\* A call begins: it meets the calls at work, and follows the rows it has read.
LEMMA EvaluateStrict ==
  ASSUME StrictInv, NEW e \in Evaluations, Evaluate(e), EvaluationTypes'
  PROVE  StrictInv'
<1> DEFINE rs == Solid(scores)
           rr == ReadRows(scores)
<1>1. /\ stage[e] = "new" /\ e \notin Awaiting
      /\ version' = version /\ strict' = strict /\ scores' = scores /\ faults' = faults
      /\ stage \in [Evaluations -> {"new", "awaiting", "done", "refused"}]
      /\ stage' = [stage EXCEPT ![e] = IF Mismatch(e) THEN "refused" ELSE "awaiting"]
      /\ met'[e] = Awaiting
      /\ \A f \in Evaluations : f # e => met'[f] = IF f \in Awaiting THEN met[f] \cup {e} ELSE met[f]
  BY DEF Evaluate, StrictInv, EvaluationTypes, Awaiting
<1>2. /\ \A i \in DOMAIN rr : rr[i].call \in Evaluations /\ rr[i].call # e /\ rr[i].call \notin Awaiting
      /\ Scored(rr)
      /\ DOMAIN rs \subseteq DOMAIN rr /\ \A i \in DOMAIN rs : rs[i] = rr[i]
      /\ scores.ended => rs = rr
  <2>1. IsTable(scores, ScoredRow)
    BY DEF StrictInv, EvaluationTypes
  <2>2. \A i \in DOMAIN rr : rr[i] \in ScoredRow
    BY <2>1, RowsRead
  <2>3. /\ DOMAIN rs \subseteq DOMAIN rr /\ \A i \in DOMAIN rs : rs[i] = rr[i]
        /\ scores.ended => rs = rr
    BY <2>1, SolidRows
  <2> QED
    BY <1>1, <2>2, <2>3 DEF StrictInv, Scored, ScoredRow, Awaiting
<1>3. Scored(ReadRows(scores))'
  BY <1>1, <1>2 DEF Scored
<1>4. Awaiting' \subseteq Awaiting \cup {e}
  BY <1>1 DEF Awaiting
<1>5. AllMet'
  <2> SUFFICES ASSUME NEW f \in Awaiting', NEW g \in Awaiting', f # g PROVE g \in met'[f]
    BY DEF AllMet
  <2>1. f \in Evaluations /\ g \in Evaluations
    BY DEF Awaiting
  <2> QED
    BY <1>1, <1>4, <2>1 DEF StrictInv, AllMet
<1>6. \A i \in DOMAIN rs : met'[rs[i].call] = met[rs[i].call]
  BY <1>1, <1>2
<1>7. Odd(Solid(scores))' = Odd(rs)
  <2> HIDE DEF rs
  <2>1. Solid(scores)' = rs
    BY <1>1 DEF rs
  <2> QED
    BY <1>1, <1>6, <2>1 DEF Odd
<1>8. FirstOdd(Solid(scores))' = FirstOdd(rs)
  <2>1. Solid(scores)' = rs
    BY <1>1
  <2>2. Odd(rs) \subseteq DOMAIN rs
    BY DEF Odd
  <2> HIDE DEF rs
  <2> QED
    BY <1>6, <1>7, <2>1, <2>2 DEF FirstOdd
<1>9. scores.ended => Misled' \subseteq Misled
  <2> SUFFICES ASSUME scores.ended, NEW f \in Misled' PROVE f \in Misled
    OBVIOUS
  <2>1. Solid(scores)' = rs /\ rs = rr
    BY <1>1, <1>2
  <2>2. /\ f \in Awaiting' /\ f \in Evaluations
        /\ strict[f]
        /\ \E last \in LastOf(rs, {i \in DOMAIN rs : rs[i].call \notin met'[f]}) : last.version # version[f]
        /\ \A j \in Odd(rs) : rs[j].call \notin met'[f]
    <3> HIDE DEF rs
    <3> QED
      BY <1>1, <1>7, <2>1 DEF Misled, Follows, Awaiting
  <2>3. f # e
    <3> SUFFICES ASSUME f = e PROVE FALSE
      OBVIOUS
    <3>1. ~ Mismatch(e)
      BY <1>1, <2>2 DEF Awaiting
    <3>2. {i \in DOMAIN rs : rs[i].call \notin met'[e]} = DOMAIN rr
      BY <1>1, <1>2, <2>1
    <3> QED
      BY <2>1, <2>2, <3>1, <3>2 DEF Mismatch
  <2>4. f \in Awaiting /\ met'[f] = met[f] \cup {e}
    BY <1>1, <1>4, <2>2, <2>3
  <2>5. {i \in DOMAIN rs : rs[i].call \notin met'[f]} = {i \in DOMAIN rs : rs[i].call \notin met[f]}
    BY <1>2, <2>4
  <2>6. Odd(rs) \subseteq DOMAIN rs
    BY DEF Odd
  <2> HIDE DEF rs
  <2> QED
    BY <2>2, <2>4, <2>5, <2>6 DEF Misled, Follows, rs
<1>10. HiddenOnce'
  <2>1. Cardinality(FirstOdd(rs)) \in Nat /\ faults \in Nat
    BY OddCounts DEF StrictInv, EvaluationTypes
  <2>2. Cardinality(FirstOdd(rs)) + (IF scores.ended /\ Misled = {} THEN 0 ELSE 1) <= faults
    BY DEF StrictInv, HiddenOnce
  <2>3. scores'.ended = scores.ended
    BY <1>1
  <2>4. scores.ended /\ Misled = {} => scores'.ended /\ Misled' = {}
    BY <1>9, <2>3
  <2> HIDE DEF rs
  <2>5. Cardinality(FirstOdd(rs)) + (IF scores'.ended /\ Misled' = {} THEN 0 ELSE 1) <= faults
    BY <2>1, <2>2, <2>4
  <2> QED
    BY <1>1, <1>8, <2>5 DEF HiddenOnce
<1> QED
  BY <1>3, <1>5, <1>10 DEF StrictInv

\* Scores are rows of calls.
LEMMA RowsOfCalls ==
  ASSUME EvaluationTypes
  PROVE  \A i \in DOMAIN ReadRows(scores) : ReadRows(scores)[i].call \in Evaluations
<1>1. IsTable(scores, ScoredRow)
  BY DEF EvaluationTypes
<1>2. \A i \in DOMAIN ReadRows(scores) : ReadRows(scores)[i] \in ScoredRow
  BY <1>1, RowsRead
<1> QED
  BY <1>2 DEF ScoredRow

\* An evaluator that fails keeps the invariant of scores.
LEMMA FailStrict ==
  ASSUME StrictInv, NEW e \in Evaluations, EvaluatorFails(e), EvaluationTypes'
  PROVE  StrictInv'
<1>1. /\ version' = version /\ strict' = strict /\ scores' = scores /\ faults' = faults /\ met' = met
      /\ stage \in [Evaluations -> {"new", "awaiting", "done", "refused"}]
      /\ stage' = [stage EXCEPT ![e] = "refused"]
  BY DEF EvaluatorFails, StrictInv, EvaluationTypes
<1>2. Awaiting' \subseteq Awaiting
  BY <1>1 DEF Awaiting
<1>3. AllMet'
  BY <1>1, <1>2 DEF StrictInv, AllMet
<1>4. Scored(ReadRows(scores))'
  <2>1. \A i \in DOMAIN ReadRows(scores) : ReadRows(scores)[i].call \in Evaluations
    BY RowsOfCalls DEF StrictInv
  <2>2. \A f \in Evaluations : stage[f] \in {"done", "refused"} => stage'[f] \in {"done", "refused"}
    BY <1>1
  <2> QED
    BY <1>1, <2>1, <2>2 DEF StrictInv, Scored
<1>5. Misled' \subseteq Misled
  BY <1>1, <1>2 DEF Misled, Follows, Odd
<1>6. FirstOdd(Solid(scores))' = FirstOdd(Solid(scores))
  BY <1>1 DEF FirstOdd, Odd
<1>7. HiddenOnce'
  <2>1. Cardinality(FirstOdd(Solid(scores))) \in Nat /\ faults \in Nat
    BY OddCounts DEF StrictInv, EvaluationTypes
  <2>2. Misled = {} => Misled' = {}
    BY <1>5
  <2> QED
    BY <1>1, <1>6, <2>1, <2>2 DEF StrictInv, HiddenOnce
<1> QED
  BY <1>3, <1>4, <1>7 DEF StrictInv

\* A call writes its score, in full or in part: rows of calls that are over.
LEMMA ScoredStays ==
  ASSUME StrictInv, NEW e \in Evaluations, EvaluatorReturns(e)
  PROVE  Scored(ReadRows(scores))'
<1>1. IsTable(scores, ScoredRow) /\ ScoreRow(e) \in ScoredRow
  BY DEF StrictInv, EvaluationTypes, ScoreRow, ScoredRow
<1>2. scores' = scores \/ scores' \in PartialAppends(scores, ScoreRow(e))
  BY WholeAppend DEF EvaluatorReturns
<1>3. scores \in PartialAppends(scores, ScoreRow(e))
  BY DEF PartialAppends
<1>4. /\ version' = version
      /\ stage'[e] \in {"done", "refused"}
      /\ \A f \in Evaluations : stage[f] \in {"done", "refused"} => stage'[f] \in {"done", "refused"}
  BY DEF EvaluatorReturns, StrictInv, EvaluationTypes
<1>5. Same(scores, scores') \/ Added(scores, scores', ScoreRow(e)) \/ Lost(scores, scores')
  <2>1. scores' \in PartialAppends(scores, ScoreRow(e))
    BY <1>2, <1>3
  <2> QED
    BY <1>1, <2>1, CutShort, GarbledIsNoEvaluation
<1>6. ASSUME NEW i \in DOMAIN ReadRows(scores')
      PROVE  /\ stage'[ReadRows(scores')[i].call] \in {"done", "refused"}
             /\ ReadRows(scores')[i].version = version[ReadRows(scores')[i].call]
  <2>1. \/ ReadRows(scores')[i] = ScoreRow(e)
        \/ i \in DOMAIN ReadRows(scores) /\ ReadRows(scores')[i] = ReadRows(scores)[i]
    BY <1>5 DEF Same, Added, Lost
  <2>2. \A k \in DOMAIN ReadRows(scores) : ReadRows(scores)[k].call \in Evaluations
    BY RowsOfCalls DEF StrictInv
  <2> QED
    BY <1>4, <2>1, <2>2 DEF StrictInv, Scored, ScoreRow
<1> QED
  BY <1>4, <1>6 DEF Scored

\* What a call adds to a finished table.
LEMMA ScoreAdded ==
  ASSUME StrictInv, NEW e \in Awaiting, scores.ended, scores' = AppendRow(scores, ScoreRow(e)),
         met' = met, strict' = strict, version' = version
  PROVE  LET m == Len(scores.lines) + 1
             ru == Solid(scores')
             rs == Solid(scores)
         IN  /\ FirstOdd(ru) \subseteq FirstOdd(rs) \cup {m}
             /\ m \in FirstOdd(ru) => e \in Misled
             /\ FirstOdd(ru) \subseteq Odd(ru) /\ ru[m].call = e
             /\ Odd(rs) = Odd(ru) \ {m}
             /\ DOMAIN ru = DOMAIN rs \cup {m} /\ m \notin DOMAIN rs
             /\ \A i \in DOMAIN rs : ru[i] = rs[i]
<1> DEFINE m == Len(scores.lines) + 1
           ru == Solid(scores')
           rs == Solid(scores)
<1>1. IsTable(scores, ScoredRow) /\ ScoreRow(e) \in ScoredRow /\ EvaluationTypes
  BY DEF StrictInv, EvaluationTypes, ScoreRow, ScoredRow, Awaiting
<1>2. /\ DOMAIN rs \subseteq 1 .. Len(scores.lines) /\ Len(scores.lines) \in Nat
  BY <1>1, OddCounts
<1>3. rs = ReadRows(scores) /\ ru = ReadRows(scores') /\ Added(scores, scores', ScoreRow(e))
  BY <1>1, SolidAppended, GarbledIsNoEvaluation
<1>4. /\ DOMAIN ru = DOMAIN rs \cup {m} /\ ru[m] = ScoreRow(e)
      /\ \A i \in DOMAIN rs : ru[i] = rs[i]
  BY <1>3 DEF Added
<1>5. m \in Nat /\ DOMAIN rs \subseteq Nat /\ (\A i \in DOMAIN rs : i < m) /\ m \notin DOMAIN rs
  BY <1>2
<1>6. ru[m].call = e /\ ru[m].version = version[e]
  BY <1>4 DEF ScoreRow
<1> HIDE DEF m, ru, rs
<1>7. /\ Odd(rs) = Odd(ru) \ {m}
      /\ FirstOdd(ru) \subseteq FirstOdd(rs) \cup {m}
      /\ m \in Odd(ru) <=>
              /\ strict[ru[m].call]
              /\ \E last \in LastOf(rs, {i \in DOMAIN rs : rs[i].call \notin met[ru[m].call]}) :
                   last.version # ru[m].version
      /\ m \in FirstOdd(ru) => \A j \in Odd(rs) : rs[j].call \notin met[ru[m].call]
  BY <1>4, <1>5, OneOddMore
<1>8. FirstOdd(ru) \subseteq Odd(ru)
  BY DEF FirstOdd
<1>9. m \in FirstOdd(ru) => e \in Misled
  BY <1>6, <1>7, <1>8 DEF Misled, Follows, rs
<1> QED
  BY <1>4, <1>5, <1>6, <1>7, <1>8, <1>9 DEF m, ru, rs

\* A score that is appended is paid for when it is odd.
LEMMA ReturnHidden ==
  ASSUME StrictInv, NEW e \in Awaiting, scores' = AppendRow(scores, ScoreRow(e)), faults' = faults,
         met' = met, strict' = strict, version' = version, stage' = [stage EXCEPT ![e] = "done"]
  PROVE  HiddenOnce'
<1> DEFINE rs == Solid(scores)
           ru == Solid(scores')
           m  == Len(scores.lines) + 1
<1>1. /\ EvaluationTypes /\ Cardinality(FirstOdd(rs)) \in Nat /\ IsFiniteSet(FirstOdd(rs)) /\ faults \in Nat
      /\ Cardinality(FirstOdd(rs)) + (IF scores.ended /\ Misled = {} THEN 0 ELSE 1) <= faults
  BY OddCounts DEF StrictInv, HiddenOnce, EvaluationTypes
<1>2. Awaiting' = Awaiting \ {e} /\ e \in Evaluations
  BY DEF StrictInv, EvaluationTypes, Awaiting
<1>3. FirstOdd(Solid(scores))' = FirstOdd(ru) /\ Odd(Solid(scores))' = Odd(ru)
  BY DEF FirstOdd, Odd
<1>4. IsTable(scores, ScoredRow) /\ ScoreRow(e) \in ScoredRow
  BY <1>2 DEF StrictInv, EvaluationTypes, ScoreRow, ScoredRow
<1>5. scores'.ended /\ ru = ReadRows(scores')
  BY <1>4, SolidAppended, GarbledIsNoEvaluation
<1>6. CASE scores.ended
  <2>1. /\ FirstOdd(ru) \subseteq FirstOdd(rs) \cup {m}
        /\ m \in FirstOdd(ru) => e \in Misled
        /\ FirstOdd(ru) \subseteq Odd(ru) /\ ru[m].call = e
        /\ Odd(rs) = Odd(ru) \ {m}
        /\ DOMAIN ru = DOMAIN rs \cup {m} /\ m \notin DOMAIN rs
        /\ \A i \in DOMAIN rs : ru[i] = rs[i]
    BY <1>6, ScoreAdded
  <2>2. Odd(rs) \subseteq DOMAIN rs
    BY DEF Odd
  <2> HIDE DEF m
  <2>3. ASSUME NEW f \in Misled'
        PROVE  f \in Misled /\ m \notin Odd(ru)
    <3>1. /\ f \in Awaiting /\ f # e /\ e \in met[f]
          /\ strict[f]
          /\ \E last \in LastOf(ru, {i \in DOMAIN ru : ru[i].call \notin met[f]}) : last.version # version[f]
          /\ \A j \in Odd(ru) : ru[j].call \notin met[f]
      <4>1. f \in Awaiting' /\ ~ Follows(f, Solid(scores))'
            /\ \A j \in Odd(Solid(scores))' : Solid(scores)'[j].call \notin met'[f]
        BY DEF Misled
      <4> QED
        BY <1>2, <1>3, <4>1 DEF Follows, StrictInv, AllMet
    <3>2. {i \in DOMAIN ru : ru[i].call \notin met[f]} = {i \in DOMAIN rs : rs[i].call \notin met[f]}
      <4> HIDE DEF rs, ru
      <4> QED
        BY <2>1, <3>1
    <3>3. LastOf(ru, {i \in DOMAIN rs : rs[i].call \notin met[f]})
            = LastOf(rs, {i \in DOMAIN rs : rs[i].call \notin met[f]})
      <4> DEFINE S == {i \in DOMAIN rs : rs[i].call \notin met[f]}
      <4>1. S \subseteq DOMAIN rs /\ \A i \in S : ru[i] = rs[i]
        BY <2>1
      <4> HIDE DEF S, rs, ru
      <4> QED
        BY <4>1, SameLast DEF S
    <3>4. ~ Follows(f, rs)
      <4> HIDE DEF rs, ru
      <4> QED
        BY <3>1, <3>2, <3>3 DEF Follows
    <3>5. \A j \in Odd(rs) : j \in Odd(ru) /\ ru[j] = rs[j]
      <4> HIDE DEF rs, ru
      <4> QED
        BY <2>1, <2>2
    <3> QED
      BY <2>1, <3>1, <3>4, <3>5 DEF Misled
  <2>4. CASE m \in FirstOdd(ru)
    <3>1. Misled # {} /\ Misled' = {}
      BY <2>1, <2>3, <2>4
    <3>2. Cardinality(FirstOdd(ru)) \in Nat /\ Cardinality(FirstOdd(ru)) <= Cardinality(FirstOdd(rs)) + 1
      <4> HIDE DEF rs, ru
      <4> QED
        BY <1>1, <2>1, OneMore
    <3> QED
      BY <1>1, <1>3, <1>5, <3>1, <3>2 DEF HiddenOnce
  <2>5. CASE m \notin FirstOdd(ru)
    <3>1. Cardinality(FirstOdd(ru)) \in Nat /\ Cardinality(FirstOdd(ru)) <= Cardinality(FirstOdd(rs))
      <4> HIDE DEF rs, ru
      <4>1. FirstOdd(ru) \subseteq FirstOdd(rs)
        BY <2>1, <2>5
      <4> QED
        BY <1>1, <4>1, FS_Subset, FS_CardinalityType
    <3>2. Misled = {} => Misled' = {}
      BY <2>3
    <3> QED
      BY <1>1, <1>3, <1>5, <1>6, <3>1, <3>2 DEF HiddenOnce
  <2> QED
    BY <2>4, <2>5
<1>7. CASE ~ scores.ended
  <2>1. ru = rs
    BY <1>4, <1>5, <1>7, SolidAppended, GarbledIsNoEvaluation
  <2> QED
    BY <1>1, <1>3, <1>7, <2>1 DEF HiddenOnce
<1> QED
  BY <1>6, <1>7

\* A death ends all calls.
LEMMA DeathHidden ==
  ASSUME StrictInv, NEW e \in Awaiting, scores' \in PartialAppends(scores, ScoreRow(e)), faults' = faults + 1,
         met' = met, strict' = strict, version' = version, Awaiting' = {}
  PROVE  HiddenOnce'
<1> DEFINE rs == Solid(scores)
           ru == Solid(scores')
           m  == Len(scores.lines) + 1
<1>1. /\ EvaluationTypes /\ Cardinality(FirstOdd(rs)) \in Nat /\ IsFiniteSet(FirstOdd(rs)) /\ faults \in Nat
      /\ Cardinality(FirstOdd(rs)) + (IF scores.ended /\ Misled = {} THEN 0 ELSE 1) <= faults
  BY OddCounts DEF StrictInv, HiddenOnce, EvaluationTypes
<1>2. Misled' = {}
  BY DEF Misled
<1>3. FirstOdd(Solid(scores))' = FirstOdd(ru)
  BY DEF FirstOdd, Odd
<1>4. IsTable(scores, ScoredRow) /\ ScoreRow(e) \in ScoredRow
  BY DEF StrictInv, EvaluationTypes, ScoreRow, ScoredRow, Awaiting
<1>5. CASE scores' = scores
  BY <1>1, <1>2, <1>3, <1>5 DEF HiddenOnce
<1>6. CASE scores' # scores /\ scores' # AppendRow(scores, ScoreRow(e))
  <2>1. ru = rs
    BY <1>4, <1>6, SolidCut, GarbledIsNoEvaluation
  <2> QED
    BY <1>1, <1>3, <2>1 DEF HiddenOnce
<1>7. CASE scores' = AppendRow(scores, ScoreRow(e))
  <2>1. scores'.ended /\ ru = ReadRows(scores') /\ (~ scores.ended => ReadRows(scores') = rs)
    BY <1>4, <1>7, SolidAppended, GarbledIsNoEvaluation
  <2>2. FirstOdd(ru) \subseteq FirstOdd(rs) \cup {m}
    <3>1. CASE scores.ended
      BY <1>7, <3>1, ScoreAdded
    <3>2. CASE ~ scores.ended
      <4>1. ru = rs
        BY <2>1, <3>2
      <4> QED
        BY <4>1
    <3> QED
      BY <3>1, <3>2
  <2>3. Cardinality(FirstOdd(ru)) \in Nat /\ Cardinality(FirstOdd(ru)) <= Cardinality(FirstOdd(rs)) + 1
    <3> HIDE DEF rs, ru, m
    <3> QED
      BY <1>1, <2>2, OneMore
  <2> QED
    BY <1>1, <1>2, <1>3, <2>1, <2>3 DEF HiddenOnce
<1> QED
  BY <1>5, <1>6, <1>7

\* An evaluator that returns keeps the invariant of scores.
LEMMA ReturnStrict ==
  ASSUME StrictInv, NEW e \in Evaluations, EvaluatorReturns(e), EvaluationTypes'
  PROVE  StrictInv'
<1>1. /\ e \in Awaiting /\ met' = met /\ strict' = strict /\ version' = version
      /\ stage \in [Evaluations -> {"new", "awaiting", "done", "refused"}]
  BY DEF EvaluatorReturns, Awaiting, StrictInv, EvaluationTypes
<1>2. CASE /\ scores' = AppendRow(scores, ScoreRow(e)) /\ faults' = faults
           /\ stage' = [stage EXCEPT ![e] = "done"]
  <2>1. Awaiting' \subseteq Awaiting
    BY <1>1, <1>2 DEF Awaiting
  <2>2. AllMet'
    BY <1>1, <2>1 DEF StrictInv, AllMet
  <2> QED
    BY <1>1, <1>2, <2>2, ReturnHidden, ScoredStays DEF StrictInv
<1>3. CASE /\ scores' \in PartialAppends(scores, ScoreRow(e)) /\ faults' = faults + 1
           /\ stage' = [f \in Evaluations |-> IF stage[f] = "awaiting" THEN "refused" ELSE stage[f]]
  <2>1. Awaiting' = {}
    BY <1>1, <1>3 DEF Awaiting
  <2>2. AllMet'
    BY <2>1 DEF AllMet
  <2> QED
    BY <1>1, <1>3, <2>1, <2>2, DeathHidden, ScoredStays DEF StrictInv
<1> QED
  <2>1. scores \in PartialAppends(scores, ScoreRow(e))
    BY DEF PartialAppends
  <2> QED
    BY <1>2, <1>3, <2>1 DEF EvaluatorReturns

\* Every step keeps the invariant.
LEMMA NextStrictInv == EvidenceInv' /\ StrictInv /\ [ENext]_evars => StrictInv'
<1> SUFFICES ASSUME EvidenceInv', StrictInv, [ENext]_evars PROVE StrictInv'
  OBVIOUS
<1>1. EvaluationTypes'
  BY DEF EvidenceInv
<1>2. CASE UNCHANGED evars
  BY <1>2 DEF evars, StrictInv, EvaluationTypes, Scored, AllMet, HiddenOnce, Misled, Awaiting, Follows,
                  FirstOdd, Odd
<1> QED
  BY <1>1, <1>2, EvaluateStrict, FailStrict, ReturnStrict DEF ENext

\* The invariant holds in every state.
LEMMA StrictInvHolds == ESpec => []StrictInv
BY InitStrictInv, NextStrictInv, EvidenceInvHolds, PTL DEF ESpec

\* With strictVersion a score follows one of its own version (src/core/evaluation.mjs:57-62),
\* for any number of calls that overlap and of deaths: where one does not, calls
\* that overlapped aside, a death hid the score it followed, and one death does
\* that to calls only that all overlap.
THEOREM VersionsAreStrict == ESpec => []StrictVersions
<1>1. StrictInv => StrictVersions
  <2> SUFFICES ASSUME StrictInv PROVE StrictVersions
    OBVIOUS
  <2> DEFINE rs == Solid(scores)
             ru == ReadRows(scores)
             m  == Len(scores.lines)
  <2>1. /\ Cardinality(FirstOdd(rs)) \in Nat /\ IsFiniteSet(FirstOdd(rs)) /\ faults \in Nat
        /\ Cardinality(FirstOdd(rs)) + (IF scores.ended /\ Misled = {} THEN 0 ELSE 1) <= faults
        /\ DOMAIN rs \subseteq 1 .. m /\ m \in Nat
    BY OddCounts DEF StrictInv, HiddenOnce, EvaluationTypes
  <2>2. /\ DOMAIN rs \subseteq DOMAIN ru
        /\ \A i \in DOMAIN rs : rs[i] = ru[i]
        /\ scores.ended => rs = ru
        /\ DOMAIN ru \subseteq DOMAIN rs \cup {m}
    <3>1. IsTable(scores, ScoredRow)
      BY DEF StrictInv, EvaluationTypes
    <3> QED
      BY <3>1, SolidRows
  <2>3. CASE scores.ended
    BY <2>1, <2>2, <2>3 DEF StrictVersions
  <2>4. CASE ~ scores.ended
    <3>1. m \notin DOMAIN rs
      BY <2>4 DEF Solid
    <3>2. FirstOdd(ru) \subseteq FirstOdd(rs) \cup {m}
      <4>1. CASE m \in DOMAIN ru
        <5>1. /\ DOMAIN rs \subseteq Nat /\ (\A i \in DOMAIN rs : i < m)
              /\ DOMAIN ru = DOMAIN rs \cup {m} /\ \A i \in DOMAIN rs : ru[i] = rs[i]
          <6>1. \A i \in DOMAIN rs : i \in Nat /\ i <= m /\ i # m
            BY <2>1, <3>1
          <6> HIDE DEF rs, ru, m
          <6>2. DOMAIN rs \subseteq Nat /\ \A i \in DOMAIN rs : i < m
            BY <2>1, <6>1
          <6> QED
            BY <2>2, <4>1, <6>2
        <5> HIDE DEF rs, ru, m
        <5> QED
          BY <2>1, <5>1, OneOddMore
      <4>2. CASE m \notin DOMAIN ru
        <5>1. DOMAIN rs = DOMAIN ru /\ \A i \in DOMAIN rs : ru[i] = rs[i]
          BY <2>2, <4>2
        <5>2. rs = ru
          <6>1. ru = [i \in DOMAIN ru |-> ru[i]] /\ rs = [i \in DOMAIN rs |-> rs[i]]
            BY DEF ReadRows, Solid
          <6> HIDE DEF rs, ru
          <6> QED
            BY <5>1, <6>1
        <5> QED
          BY <5>2
      <4> QED
        BY <4>1, <4>2
    <3>3. Cardinality(FirstOdd(ru)) \in Nat /\ Cardinality(FirstOdd(ru)) <= Cardinality(FirstOdd(rs)) + 1
      <4> HIDE DEF rs, ru, m
      <4> QED
        BY <2>1, <3>2, OneMore
    <3> QED
      BY <2>1, <2>4, <3>3 DEF StrictVersions
  <2> QED
    BY <2>3, <2>4
<1> QED
  BY <1>1, StrictInvHolds, PTL

==============================================================================
