------------------------------ MODULE Releases ------------------------------
(***************************************************************************)
(* The release catalogue of the server, as one agent sees it: the rows of  *)
(* agent_releases, the packages in uploads/agent-releases, and which       *)
(* releases target a deployment group of the agent (agent_release_groups). *)
(*                                                                         *)
(* A request of an administrator is the sequence of its SQL statements and *)
(* file operations, each of them one step; requests overlap.               *)
(***************************************************************************)
EXTENDS Naturals, FiniteSets

CONSTANTS
  Releases,  \* bound: the releases that are ever uploaded
  VersionOf, \* their version numbers: two releases may have the same one
  MaxAdmin   \* bound: requests of administrators

ASSUME ReleasesAssumption ==
  /\ VersionOf \in [Releases -> Nat \ {0}]
  /\ MaxAdmin \in Nat

VARIABLES
  row,      \* agent_releases: a row's is_active, or that there is no row
  file,     \* the packages on disk
  targets,  \* the releases that target a group of the agent
  pending,  \* what the requests under way have yet to do for each release
  requests  \* requests so far

catalogue == <<row, file, targets, pending, requests>>

RowStates == {"none", "active", "inactive", "deleted"}
Statements == {"insert", "groups", "delete", "unlink"}

ReleasesTypeOK ==
  /\ row \in [Releases -> RowStates]
  /\ file \in SUBSET Releases
  /\ targets \in SUBSET Releases
  /\ pending \in [Releases -> SUBSET Statements]
  /\ requests \in 0 .. MaxAdmin

\* A catalogue between two requests.
ReleasesInit ==
  /\ row \in [Releases -> {"none", "active", "inactive"}]
  /\ file = {r \in Releases : row[r] # "none"}
  /\ targets \in SUBSET file
  /\ pending = [r \in Releases |-> {}]
  /\ requests = 0

-----------------------------------------------------------------------------
(* Requests of administrators.                                             *)

Request == requests < MaxAdmin /\ requests' = requests + 1

\* Mutant: a package is not removed after its row only.
DeleteCheckUnlinks(r) ==
  /\ row[r] = "inactive"
  /\ Request
  /\ pending' = [pending EXCEPT ![r] = @ \cup {"delete", "unlink"}]
  /\ UNCHANGED <<row, file, targets>>

\* uploadReleaseService: the package is written and signed...
UploadWrite(r) ==
  /\ row[r] = "none" /\ pending[r] = {}
  /\ Request
  /\ file' = file \cup {r}
  /\ pending' = [pending EXCEPT ![r] = {"insert"}]
  /\ UNCHANGED <<row, targets>>

\* ...its row is inserted, active at once...
UploadInsert(r) ==
  /\ "insert" \in pending[r]
  /\ row' = [row EXCEPT ![r] = "active"]
  /\ pending' = [pending EXCEPT ![r] = {"groups"}]
  /\ UNCHANGED <<file, targets, requests>>

\* ...and then its groups: also the second half of setReleaseGroups.
InsertGroups(r) ==
  /\ "groups" \in pending[r]
  /\ pending' = [pending EXCEPT ![r] = @ \ {"groups"}]
  /\ targets' \in IF row[r] = "deleted" THEN {targets} ELSE {targets, targets \cup {r}}
  /\ UNCHANGED <<row, file, requests>>

\* The first half: until the INSERT the release targets nobody.
DeleteGroups(r) ==
  /\ row[r] \in {"active", "inactive"}
  /\ Request
  /\ targets' = targets \ {r}
  /\ pending' = [pending EXCEPT ![r] = @ \cup {"groups"}]
  /\ UNCHANGED <<row, file>>

SetActive(r) ==
  /\ row[r] \in {"active", "inactive"}
  /\ Request
  /\ row' = [row EXCEPT ![r] = IF @ = "active" THEN "inactive" ELSE "active"]
  /\ UNCHANGED <<file, targets, pending>>

\* deleteReleaseService reads the row, deletes it by its id, with its groups,
\* and removes the package.
DeleteCheck(r) ==
  /\ row[r] = "inactive"
  /\ Request
  /\ pending' = [pending EXCEPT ![r] = @ \cup {"delete"}]
  /\ UNCHANGED <<row, file, targets>>

DeleteRow(r) ==
  /\ "delete" \in pending[r]
  /\ row' = [row EXCEPT ![r] = "deleted"]
  /\ targets' = targets \ {r}
  /\ pending' = [pending EXCEPT ![r] = (@ \ {"delete"}) \cup {"unlink"}]
  /\ UNCHANGED <<file, requests>>

Unlink(r) ==
  /\ "unlink" \in pending[r]
  /\ file' = file \ {r}
  /\ pending' = [pending EXCEPT ![r] = @ \ {"unlink"}]
  /\ UNCHANGED <<row, targets, requests>>

\* A statement fails or the server stops: the rest of the request is not done.
RequestFails(r) ==
  /\ pending[r] # {}
  /\ pending' = [pending EXCEPT ![r] = {}]
  /\ UNCHANGED <<row, file, targets, requests>>

AdminNext ==
  \E r \in Releases :
    \/ UploadWrite(r) \/ UploadInsert(r) \/ InsertGroups(r) \/ DeleteGroups(r)
    \/ SetActive(r) \/ DeleteCheck(r) \/ DeleteRow(r) \/ Unlink(r) \/ RequestFails(r)

-----------------------------------------------------------------------------
(* What an agent is told.                                                  *)

Candidates == {r \in targets : row[r] = "active"}

\* Mutant: a version that is not newer is offered as well.
OfferedAnyVersion(current) == Candidates

\* checkForUpdateService: the highest version among the candidates, when it is
\* newer than the version the agent's row has.
Offered(current) ==
  {r \in Candidates : /\ \A c \in Candidates : VersionOf[c] <= VersionOf[r]
                      /\ VersionOf[r] > current}

\* downloadReleaseService, and downloadReleaseForManagerService (by a job only).
MayDownload(r, byJob) == row[r] = "active" /\ (r \in targets \/ byJob)

\* An active release has its package: an update that is offered can be
\* downloaded, whatever uploads and deletions are under way.
ActiveHasPackage == \A r \in Releases : row[r] = "active" => r \in file
=============================================================================
