------------------------------- MODULE Office -------------------------------
(***************************************************************************)
(* The office of one tenant: the acts prepared in Core, the accounts, what *)
(* Core keeps in the portal, its tokens and its files, the teams and leads *)
(* of its objects, and the executive packages of the older closing route.  *)
(* They share the server's processes, and meet in the code only through    *)
(* rows that each module has in it; each has variables of its own.         *)
(***************************************************************************)
EXTENDS Integers, Sequences

CONSTANTS
  Attempts, MaxRequests,                                         \* processes, requests of each part
  Packages, Materials, Contents, InitialActs, MaxActs, MaxQuality,       \* of the acts
  People, Installer, InitialAccounts, Roles, Tokens, Same,               \* of the accounts
  Callers, Installers, ApplicationTokens, MaxPairs,                      \* of the installation
  Uploads, Limit, Others, PoolMax,                                       \* of the files
  ExecutivePackages, WorkOf, ObjectOf, Files, Keys,                      \* of the closings
  MaxDocuments, MaxValue, MaxCommands,
  Objects, Heads, Engineers, Admin, Kinds, Redistributions,              \* of the teams
  InitialOrg, InitialLeads, InitialMembers, MaxAssignments,
  None                                                                   \* what is not there

VARIABLES
  stage, method, acts, counter, revisions, quality, party, snapshots, dismissed,
  preparing, prepared,
  users, sessions, attempts, requests,
  row, issued, expired, spent, lost, calls,
  uploads, active, waiting, disk, records, named, unsure, crashed,
  executive, accepted, materials, cases, closings, closers, asked,
  onDuty, org, leads, members, handovers, handoffs, responsible, managers, assigned

Acts == INSTANCE AosrPreparation WITH
  Nothing <- None, attempts <- preparing, requests <- prepared
Access == INSTANCE UserAccess WITH Absent <- None
Portal == INSTANCE PortalInstallation WITH Unbound <- None, attempts <- calls
Storage == INSTANCE FileStorage WITH requests <- uploads
Closing == INSTANCE ExecutiveClosing WITH
  Packages <- ExecutivePackages, MaxRequests <- MaxCommands,
  packages <- executive, attempts <- closers, requests <- asked
Teams == INSTANCE TeamAssignments WITH
  MaxRequests <- MaxAssignments, active <- onDuty, packages <- responsible,
  attempts <- managers, requests <- assigned

assignments == <<org, leads, members, handovers, handoffs, responsible>>
teaming == <<onDuty, assignments, managers, assigned>>

\* What the constants satisfy.
OfficeAssumption ==
  /\ Acts!AosrAssumption /\ Access!AccessAssumption
  /\ Portal!InstallationAssumption /\ Storage!StorageAssumption
  /\ Closing!ExecutiveAssumption /\ Teams!TeamAssumption

-----------------------------------------------------------------------------
\* The acts of an object: official numbers without gap or twin, revisions of
\* their act, current renderings, gates that are lost by choice only
\* (aosr-service.ts:127-206, 310-384).
ActsAreSound == Acts!ActsAreSound

\* The organisation always has an active administrator; the command that
\* switches an account off leaves it no session and no login that has its row;
\* and only a login that read the account while it was on gives a session to
\* one that is off (modules/users/admin-users.controller.ts:90-127,
\* bitrix.ts:74-76).
AccessIsSound == Access!AccessIsSound

\* What a comment says of it: an account that is switched on again needs a
\* fresh launch (modules/users/admin-users.controller.ts:119-120).
ReactivationNeedsALaunch == Access!ReactivationNeedsALaunch

\* An expired token is exchanged once however many calls found it expired, the
\* row can be refreshed unless a transaction was lost after its exchange, and
\* an application token that is bound stays (bitrix.ts:41-43, 139-144).
InstallationIsUsable == Portal!InstallationIsUsable

\* A record has its file unless a COMMIT was not answered, a file without a
\* record is named in the log, and uploads never hold the whole pool
\* (file-store.ts:24-28, 47-51).
FilesAreAccounted == Storage!FilesAreAccounted

\* No document slips into a package between the check and the transfer, a work
\* goes to SDO once, and no file is evidence of two objects; what is closed
\* never exceeds the accepted value, and the status of the case tells how much
\* of it is closed (service.ts:176-188, security.ts:72).
ExecutiveIsSound == Closing!ClosingIsSound

\* Whoever led an object has handed over to the next, one row at most is
\* current, and the responsible of a live package is the engineer its work is
\* handed to.  A team grows only by its lead, by people whose accounts are
\* active when the row appears; an engineer leaves by a command that has seen
\* his membership, and a handover is finished once
\* (team-service.ts:66-95, 305-360, pto-work-assignment-service.ts:79-87).
TeamsAreSound ==
  /\ [](/\ Teams!TypeOK /\ Teams!ReplacedLeadsHandOver /\ Teams!PackageKeepsItsEngineer)
  /\ [][/\ Teams!TeamGrowsByItsLead /\ Teams!NewAssigneesAreActive
        /\ Teams!TransfersAreInformed /\ Teams!HandoversFinishOnce]_teaming
=============================================================================
