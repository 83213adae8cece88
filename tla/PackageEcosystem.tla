--------------------------- MODULE PackageEcosystem ---------------------------
(***************************************************************************)
(* src/core/packages-l7.mjs: the versions of one package id, registered,   *)
(* verified, installed and uninstalled.  The rows are per version, while   *)
(* what is installed is one directory per id.  A call is synchronous, but  *)
(* several processes may share the store and the workspace: their calls    *)
(* interleave between file operations, and a process may die in a call.    *)
(***************************************************************************)
EXTENDS JsonlTable, Naturals

CONSTANTS
  Clients,
  Versions,
  Honest,      \* the versions whose declared checksum is that of their manifest
  MaxCalls,    \* bound: calls
  MaxCrashed   \* bound: processes that die in a call

\* What an installed directory can hold beside a version is no version.
ASSUME PackageAssumption == Honest \subseteq Versions /\ Versions \cap {"none", "torn"} = {}

VARIABLES
  packages,   \* the table `package_l7`
  installs,   \* the table `package_install`
  installed,  \* .workbench/installed/<id>: none, torn, or the version whose manifest it has
  request,    \* process -> the call it is in
  calls,      \* calls so far
  crashed,    \* processes that died
  exposed,    \* history: versions two calls were about at once, or a death was
  blurred     \* history: installs and uninstalls overlapped, or died, since one ran alone

pvars == <<packages, installs, installed, request, calls, crashed, exposed, blurred>>

NoRequest == [at |-> "idle"]

RowsOf(v) == {i \in DOMAIN ReadRows(packages) : ReadRows(packages)[i].version = v}

Registered(v) == RowsOf(v) # {}

LatestRow(v) == ReadRows(packages)[Max(RowsOf(v))]

\* availablePackages
Available(v) == Registered(v) /\ LatestRow(v).verified

PInit ==
  /\ packages = EmptyTable
  /\ installs = EmptyTable
  /\ installed = "none"
  /\ request = [p \in Clients |-> NoRequest]
  /\ calls = 0 /\ crashed = 0
  /\ exposed = {}
  /\ blurred = FALSE

Busy == {p \in Clients : request[p] # NoRequest}

Placing == {p \in Busy : request[p].places}

GoTo(p, place) == request' = [request EXCEPT ![p].at = place]

CallReturns(p) == request' = [request EXCEPT ![p] = NoRequest]

\* A call begins with what it reads: the row it will write, or act on.
Begin(p, place, row, places) ==
  /\ request[p] = NoRequest
  /\ calls < MaxCalls
  /\ calls' = calls + 1
  /\ request' = [q \in Clients |->
       IF q = p
       THEN [at |-> place, row |-> row, places |-> places, alone |-> Placing = {}]
       ELSE IF places /\ q \in Placing THEN [request[q] EXCEPT !.alone = FALSE] ELSE request[q]]
  /\ exposed' = IF \E q \in Busy : request[q].row.version = row.version
                THEN exposed \cup {row.version} ELSE exposed
  /\ blurred' = (blurred \/ (places /\ Placing # {}))
  /\ UNCHANGED <<packages, installs, installed, crashed>>

\* registerPackage; `redone` says that the row carries an uninstalledAt.
RegisterPackage(p, v) ==
  /\ ~ Registered(v)
  /\ Begin(p, "row", [version |-> v, verified |-> FALSE, redone |-> FALSE], FALSE)

\* markVerified; that verifyPackage passed before is left to the caller.
MarkVerified(p, v) ==
  /\ Registered(v)
  /\ Begin(p, "row", [LatestRow(v) EXCEPT !.verified = TRUE], FALSE)

\* Mutant: it is enough that the version is registered.
MayInstallRegistered(v) == Registered(v)

MayInstall(v) == Registered(v) /\ LatestRow(v).verified

InstallPackage(p, v) ==
  /\ MayInstall(v)
  /\ Begin(p, "verify", LatestRow(v), TRUE)

\* The manifest with an uninstalledAt in it is not the one the checksum is of.
ChecksumMatches(row) == row.version \in Honest /\ ~ row.redone

\* verifyPackage: the verifier of the sandbox may refuse.
VerifyPackage(p) ==
  /\ request[p].at = "verify"
  /\ \/ ChecksumMatches(request[p].row) /\ GoTo(p, "copy")
     \/ CallReturns(p)
  /\ UNCHANGED <<packages, installs, installed, calls, crashed, exposed, blurred>>

CopyManifest(p) ==
  /\ request[p].at = "copy"
  /\ installed' = request[p].row.version
  /\ GoTo(p, "record install")
  /\ UNCHANGED <<packages, installs, calls, crashed, exposed, blurred>>

\* uninstallPackage, of whatever version: there must be a directory.
UninstallPackage(p, v) ==
  /\ installed # "none"
  /\ Begin(p, "remove", [version |-> v], TRUE)

\* Mutant: a directory that holds another version is left alone.
RemovedOwnOnly(v) == IF installed = v THEN "none" ELSE installed

RemovedDirectory(v) == "none"

RemoveDirectory(p) ==
  /\ request[p].at = "remove"
  /\ installed' = RemovedDirectory(request[p].row.version)
  /\ GoTo(p, "reverse")
  /\ UNCHANGED <<packages, installs, calls, crashed, exposed, blurred>>

\* The verified flag is reversed by a row of its own, if it is set.
ReverseVerified(p) ==
  /\ request[p].at = "reverse"
  /\ LET v == request[p].row.version
     IN  request' = [request EXCEPT ![p] =
           IF Available(v)
           THEN [@ EXCEPT !.at = "row", !.row = [version |-> v, verified |-> FALSE, redone |-> TRUE]]
           ELSE [@ EXCEPT !.at = "record uninstall"]]
  /\ UNCHANGED <<packages, installs, installed, calls, crashed, exposed, blurred>>

AppendPackageRow(p) ==
  /\ request[p].at = "row"
  /\ packages' = AppendRow(packages, request[p].row)
  /\ IF request[p].places THEN GoTo(p, "record uninstall") ELSE CallReturns(p)
  /\ UNCHANGED <<installs, installed, calls, crashed, exposed, blurred>>

InstallRow(p) ==
  [version |-> request[p].row.version, installed |-> request[p].at = "record install"]

Recording == {"record install", "record uninstall"}

AppendInstallRow(p) ==
  /\ request[p].at \in Recording
  /\ installs' = AppendRow(installs, InstallRow(p))
  /\ blurred' = (blurred /\ ~ (installs.ended /\ request[p].alone))
  /\ CallReturns(p)
  /\ UNCHANGED <<packages, installed, calls, crashed, exposed>>

\* The process dies: in an append, in the copying or removing, or elsewhere.
Crash(p) ==
  /\ request[p] # NoRequest
  /\ crashed < MaxCrashed
  /\ crashed' = crashed + 1
  /\ IF request[p].at = "row"
     THEN packages' \in PartialAppends(packages, request[p].row) ELSE UNCHANGED packages
  /\ IF request[p].at \in Recording
     THEN installs' \in PartialAppends(installs, InstallRow(p)) ELSE UNCHANGED installs
  /\ IF request[p].at \in {"copy", "remove"}
     THEN installed' \in {installed, "torn"} ELSE UNCHANGED installed
  /\ exposed' = exposed \cup {request[p].row.version}
  /\ blurred' = (blurred \/ request[p].places)
  /\ CallReturns(p)
  /\ UNCHANGED calls

PNext ==
  \E p \in Clients :
    \/ \E v \in Versions :
         \/ RegisterPackage(p, v)
         \/ MarkVerified(p, v)
         \/ InstallPackage(p, v)
         \/ UninstallPackage(p, v)
    \/ VerifyPackage(p)
    \/ CopyManifest(p)
    \/ RemoveDirectory(p)
    \/ ReverseVerified(p)
    \/ AppendPackageRow(p)
    \/ AppendInstallRow(p)
    \/ Crash(p)

PSpec == PInit /\ [][PNext]_pvars

-----------------------------------------------------------------------------
\* What is installed is a version that is verified, though uninstalling one
\* version takes the directory of all: unless calls about it overlapped, or one
\* of them died (packages-l7.mjs:5-9).
InstalledStaysVerified ==
  installed \in Versions \ exposed => Available(installed)

\* With no install or uninstall at work, and none overlapped or died since one
\* ran alone, the last row of package_install says what the directory holds.
LastRowTells ==
  ~ blurred /\ Placing = {} =>
    LET last == LastOf(ReadRows(installs), DOMAIN ReadRows(installs))
    IN  IF \E row \in last : row.installed
        THEN \A row \in last : installed = row.version
        ELSE installed = "none"
=============================================================================
