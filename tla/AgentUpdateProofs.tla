------------------------- MODULE AgentUpdateProofs -------------------------
(***************************************************************************)
(* Proofs about Releases and AgentUpdate for every set of releases, their  *)
(* versions, and every number of requests, jobs and crashes.               *)
(***************************************************************************)
EXTENDS AgentUpdate, TLAPS

USE DEF catalogue, server, agent, disk, manager

-----------------------------------------------------------------------------
(* The inductive invariant.                                                *)

\* A package is written before its row exists and removed after it is gone.
PackageOutlivesRow ==
  \A r \in Releases :
    /\ row[r] \in {"active", "inactive"} \/ "insert" \in pending[r] => r \in file
    /\ "insert" \in pending[r] => row[r] = "none"
    /\ "delete" \in pending[r] => row[r] # "none"
    /\ "unlink" \in pending[r] => row[r] = "deleted"

\* A reinstallation has its job, and a process that has ended has no task.
TasksAreReal ==
  /\ task.kind = "force" => task.release \in forced
  /\ service = "stopped" => task = Idle /\ greeted = "no"

\* What the Manager does at each step, and to which service.
InstallStep == held.command.action = "install" /\ held.step \in {"files", "copy", "start"}
CommandsAreOrderly ==
  /\ held.step \in {"files", "copy", "report"} => held.command.action = "install"
  /\ held.package # "none" => held.command = Install(VersionOf[held.package])
  /\ InstallStep => service = "stopped"

\* A staging directory holds its version, in part only while it is extracted.
StagingIsSound ==
  \A v \in Versions : staging[v] # Nothing =>
    /\ staging[v].of \in Releases /\ VersionOf[staging[v].of] = v
    /\ \/ staging[v].whole \/ torn
       \/ task.stage = "extracting" /\ VersionOf[task.release] = v

\* What was copied is still there when the service starts and when the result
\* is reported, and the process that was started runs it.
CopyIsInPlace ==
  (held.command.action = "install" /\ At("start")) \/ (At("report") /\ held.ok) =>
    Version(install) = held.command.to /\ (install.whole \/ torn)
ProcessIsInstalled ==
  At("report") /\ held.ok /\ service # "stopped" => process = held.command.to

\* After a heartbeat the server knows the version that runs.
ColumnIsKnown == greeted = "yes" => column = process

IInv ==
  /\ TypeOK
  /\ PackageOutlivesRow
  /\ TasksAreReal
  /\ CommandsAreOrderly
  /\ StagingIsSound
  /\ CopyIsInPlace
  /\ ProcessIsInstalled
  /\ ColumnIsKnown
  /\ AutoUpdateIsNewer

-----------------------------------------------------------------------------
(* The catalogue.                                                          *)

\* The part of the invariant that is about the catalogue alone.
CatalogueInv == ReleasesTypeOK /\ PackageOutlivesRow

\* The catalogue starts empty.
LEMMA CatalogueInit == ReleasesInit => CatalogueInv
  BY ReleasesAssumption DEF ReleasesInit, CatalogueInv, ReleasesTypeOK, PackageOutlivesRow,
     RowStates, Statements

\* No request to the catalogue, and no request that fails half way, leaves a row
\* without its package.
LEMMA CatalogueStep == CatalogueInv /\ AdminNext => CatalogueInv'
<1> SUFFICES ASSUME CatalogueInv, NEW r \in Releases,
                    \/ UploadWrite(r) \/ UploadInsert(r) \/ InsertGroups(r) \/ DeleteGroups(r)
                    \/ SetActive(r) \/ DeleteCheck(r) \/ DeleteRow(r) \/ Unlink(r) \/ RequestFails(r)
             PROVE  CatalogueInv'
  BY DEF AdminNext
<1> USE ReleasesAssumption DEF CatalogueInv, ReleasesTypeOK, PackageOutlivesRow, RowStates,
        Statements, Request
<1>1. CASE UploadWrite(r)
  BY <1>1 DEF UploadWrite
<1>2. CASE UploadInsert(r)
  BY <1>2 DEF UploadInsert
<1>3. CASE InsertGroups(r)
  BY <1>3 DEF InsertGroups
<1>4. CASE DeleteGroups(r)
  BY <1>4 DEF DeleteGroups
<1>5. CASE SetActive(r)
  BY <1>5 DEF SetActive
<1>6. CASE DeleteCheck(r)
  BY <1>6 DEF DeleteCheck
<1>7. CASE DeleteRow(r)
  BY <1>7 DEF DeleteRow
<1>8. CASE Unlink(r)
  BY <1>8 DEF Unlink
<1>9. CASE RequestFails(r)
  BY <1>9 DEF RequestFails
<1> QED
  BY <1>1, <1>2, <1>3, <1>4, <1>5, <1>6, <1>7, <1>8, <1>9

-----------------------------------------------------------------------------
(* The computer: the invariant holds at first and every step keeps it.     *)

\* The bounds and versions are numbers, the names are different.
LEMMA Names ==
  /\ \A r \in Releases : VersionOf[r] \in Versions /\ VersionOf[r] \in Nat \ {0}
  /\ \A v \in Versions : v \in Nat \ {0}
  /\ "none" \notin Releases /\ "initial" \notin Releases
  BY ReleasesAssumption, AgentUpdateAssumption DEF Versions

\* Only an installation names a version, and it is the version of a release.
LEMMA CommandsHaveVersions ==
  \A c \in Commands \cup {NoCommand} :
    /\ c.to \in Versions \cup {0}
    /\ c.action = "install" => c.to \in Versions /\ c = Install(c.to)
    /\ c.action \in Controls \cup {"install", "none"}
    /\ c = [action |-> c.action, to |-> c.to]
  BY DEF Commands, NoCommand, Install, Control, Controls

\* The invariant of the computer; with CatalogueInv it is IInv.
Inv == MachineTypeOK /\ TasksAreReal /\ CommandsAreOrderly /\ StagingIsSound
       /\ CopyIsInPlace /\ ProcessIsInstalled /\ ColumnIsKnown /\ AutoUpdateIsNewer

\* The computer starts with an idle agent and Manager and nothing staged.
LEMMA MachineInit == Init => Inv
<1> SUFFICES ASSUME Init PROVE Inv
  OBVIOUS
<1>1. install \in Contents /\ staging \in [Versions -> Contents]
  BY DEF Init, Contents, Nothing
<1>2. task \in Tasks /\ held \in Holdings
  BY DEF Init, Tasks, Holdings, Free, Steps
<1>3. MachineTypeOK
  <2>1. jobs \in 0 .. MaxJobs /\ crashes \in 0 .. MaxCrashes
    BY AgentUpdateAssumption DEF Init
  <2>2. torn \in BOOLEAN
    BY DEF Init
  <2>3. /\ column \in Versions \cup {0} /\ process \in Versions \cup {0}
        /\ service \in {"running", "stopping", "stopped"} /\ greeted \in {"no", "tried", "yes"}
        /\ forced \in SUBSET Releases /\ forwarded \in SUBSET forced
        /\ mailbox \in Commands \cup {NoCommand}
    BY DEF Init
  <2> QED
    BY <1>1, <1>2, <2>1, <2>2, <2>3 DEF MachineTypeOK
<1> QED
  BY <1>3
  DEF Init, Inv, TasksAreReal, CommandsAreOrderly, StagingIsSound, CopyIsInPlace,
      ProcessIsInstalled, ColumnIsKnown, AutoUpdateIsNewer, InstallStep, At, Free,
      NoCommand, Idle

\* The agent's steps: none of them touches the install directory.
LEMMA AgentStep ==
  ASSUME Inv, CatalogueInv, AgentNext PROVE Inv'
<1> USE Names DEF Inv, MachineTypeOK, TasksAreReal, CommandsAreOrderly, StagingIsSound,
      CopyIsInPlace, ProcessIsInstalled, ColumnIsKnown, AutoUpdateIsNewer, InstallStep,
      At, Alive, Tick, Goto, Idle, Tasks, Stages
<1>1. CASE Heartbeat
  BY <1>1 DEF Heartbeat, UpdateHeartbeat
<1>2. CASE CheckUpdate
  BY <1>2 DEF CheckUpdate, Offered, Candidates, CatalogueInv, ReleasesTypeOK
<1>3. ASSUME NEW r \in Releases, TakeForce(r) PROVE Inv'
  BY <1>3, AgentUpdateAssumption DEF TakeForce, Job
<1>4. CASE Download
  BY <1>4 DEF Download
<1>5. CASE StartExtract
  <2> DEFINE content == [of |-> task.release, whole |-> FALSE]
             v == VersionOf[task.release]
  <2>1. /\ task \in [kind : {"auto", "force"}, release : Releases, stage : Stages]
        /\ task.stage = "downloaded" /\ task' = [task EXCEPT !.stage = "extracting"]
        /\ staging' = [staging EXCEPT ![v] = content]
        /\ UNCHANGED <<server, service, process, greeted, install, torn, manager, crashes>>
    BY <1>5 DEF StartExtract, Extract
  <2>2. content \in Contents /\ v \in Versions /\ content # Nothing
    BY <2>1 DEF Contents, Nothing
  <2>3. staging' \in [Versions -> Contents] /\ MachineTypeOK'
    BY <2>1, <2>2
  <2>4. StagingIsSound'
    BY <2>1, <2>2
  <2> QED
    BY <2>1, <2>3, <2>4
<1>6. CASE EndExtract
  <2> DEFINE content == [of |-> task.release, whole |-> TRUE]
             v == VersionOf[task.release]
  <2>1. /\ task \in [kind : {"auto", "force"}, release : Releases, stage : Stages]
        /\ task.stage = "extracting" /\ task' = [task EXCEPT !.stage = "staged"]
        /\ staging' = [staging EXCEPT ![v] = content]
        /\ UNCHANGED <<server, service, process, greeted, install, torn, manager, crashes>>
    BY <1>6 DEF EndExtract, Extract
  <2>2. content \in Contents /\ v \in Versions /\ content # Nothing
    BY <2>1 DEF Contents, Nothing
  <2>3. staging' \in [Versions -> Contents] /\ MachineTypeOK'
    BY <2>1, <2>2
  <2>4. StagingIsSound'
    BY <2>1, <2>2
  <2> QED
    BY <2>1, <2>3, <2>4
<1>7. CASE Drop
  <2>1. PICK stage \in {"chosen", "downloaded", "extracting"} : Goto(stage, "dropped")
    BY <1>7 DEF Drop
  <2>2. torn' \in BOOLEAN /\ (torn => torn') /\ (task.stage = "extracting" => torn')
    BY <1>7 DEF Drop
  <2>3. UNCHANGED <<server, service, process, greeted, install, staging, manager, crashes>>
    BY <1>7 DEF Drop
  <2> QED
    BY <2>1, <2>2, <2>3
<1>8. CASE HandOff
  BY <1>8 DEF HandOff, TrySend, Commands, Install
<1>9. CASE Finish
  BY <1>9 DEF Finish
<1>10. CASE AgentStops
  BY <1>10 DEF AgentStops
<1>11. ASSUME NEW a \in Controls, ControlJob(a) PROVE Inv'
  BY <1>11, AgentUpdateAssumption DEF ControlJob, TrySend, Job, Commands, Control
<1> QED
  BY <1>1, <1>2, <1>3, <1>4, <1>5, <1>6, <1>7, <1>8, <1>9, <1>10, <1>11 DEF AgentNext

\* A free Manager holds no command.
LEMMA FreeIsHolding ==
  /\ Free \in Holdings /\ Free.step = "free" /\ Free.command = NoCommand
  /\ Free.package = "none" /\ Free.ok /\ NoCommand.action = "none" /\ NoCommand.to = 0
  BY DEF Free, Holdings, NoCommand, Steps

\* To advances the Manager and leaves the command it holds alone.
LEMMA ToKeepsCommand ==
  ASSUME held \in Holdings, NEW step \in Steps, To(step)
  PROVE  /\ held' \in Holdings /\ held'.step = step
         /\ held'.command = held.command /\ held'.package = held.package /\ held'.ok = held.ok
  BY DEF To, Holdings

\* Conclude reports an installation and frees the Manager of any other command.
LEMMA ConcludeReports ==
  ASSUME held \in Holdings, NEW ok \in BOOLEAN, Conclude(ok)
  PROVE  /\ held' \in Holdings
         /\ \/ /\ held.command.action = "install" /\ held'.step = "report" /\ held'.ok = ok
               /\ held'.command = held.command /\ held'.package = held.package
            \/ held.command.action # "install" /\ held' = Free
  BY FreeIsHolding DEF Conclude, Holdings, Steps

\* What a copy or a deletion leaves behind is a content of a directory.
LEMMA PartsAreContents ==
  /\ Nothing \in Contents
  /\ \A r \in Releases : Whole(r) \in Contents /\ Version(Whole(r)) = VersionOf[r]
  /\ \A c \in Contents : Partial(c) \in Contents /\ Version(c) \in Versions \cup {0}
  BY Names DEF Nothing, Whole, Partial, Contents, Version

\* After the stop only an installation goes on to the files.
LEMMA StoppedGoesOn ==
  ASSUME held \in Holdings, Stopped
  PROVE  \/ held.command.action = "install" /\ To("files")
         \/ held.command.action = "restart" /\ To("start")
         \/ held.command.action \notin {"install", "restart"} /\ held' = Free
  BY DEF Stopped

\* The Manager's steps: files change only after the service has stopped, and what
\* is copied is still there when the service starts and the result is reported.
LEMMA ManagerKeeps ==
  ASSUME Inv, CatalogueInv, ManagerNext PROVE Inv'
<1> USE Names, CommandsHaveVersions, FreeIsHolding
    DEF Inv, MachineTypeOK, TasksAreReal, CommandsAreOrderly, StagingIsSound,
        CopyIsInPlace, ProcessIsInstalled, ColumnIsKnown, AutoUpdateIsNewer, InstallStep, At
<1>1. CASE Dequeue
  <2>1. /\ held' \in Holdings /\ held'.step = "dequeued" /\ held'.command = mailbox
        /\ held'.package = "none" /\ held'.ok
    BY <1>1 DEF Dequeue, Holdings, Free, Steps
  <2> QED
    BY <1>1, <2>1 DEF Dequeue
<1>2. CASE DeleteCommand
  <2>1. FirstStep(held.command) \in {"start", "stop"}
    BY DEF FirstStep
  <2>2. FirstStep(held.command) = "start" => held.command.action = "start"
    BY DEF FirstStep
  <2>3. /\ held' \in Holdings /\ held'.step = FirstStep(held.command)
        /\ held'.command = held.command /\ held'.package = held.package
    BY <1>2, <2>1, ToKeepsCommand DEF DeleteCommand, Steps
  <2> QED
    BY <1>2, <2>1, <2>2, <2>3 DEF DeleteCommand
<1>3. ASSUME NEW a \in Controls, ChannelControl(a) PROVE Inv'
  <2>1. /\ held' \in Holdings /\ held'.command = Control(a) /\ held'.package = "none"
        /\ held'.step \in {"start", "stop"} /\ held'.command.action # "install"
    <3>1. /\ Control(a) \in Commands /\ Control(a).action # "install"
          /\ FirstStep(Control(a)) \in {"start", "stop"}
      BY DEF FirstStep, Control, Controls, Commands
    <3>2. held' = [Free EXCEPT !.command = Control(a), !.step = FirstStep(Control(a))]
      BY <1>3 DEF ChannelControl
    <3> QED
      BY ONLY <3>1, <3>2 DEF Free, Holdings, Steps
  <2> QED
    BY <1>3, <2>1, AgentUpdateAssumption DEF ChannelControl, Job
<1>4. ASSUME NEW r \in Releases, ChannelInstall(r) PROVE Inv'
  <2>1. /\ held' \in Holdings /\ held'.command = Install(VersionOf[r])
        /\ held'.package = r /\ held'.step = "stop"
    <3>1. Install(VersionOf[r]) \in Commands
      BY ReleasesAssumption DEF Commands
    <3>2. held' = [Free EXCEPT !.command = Install(VersionOf[r]), !.package = r, !.step = "stop"]
      BY <1>4 DEF ChannelInstall
    <3> QED
      BY ONLY r \in Releases, <3>1, <3>2 DEF Free, Holdings, Steps
  <2> QED
    BY <1>4, <2>1, AgentUpdateAssumption DEF ChannelInstall, Job
<1>5. CASE StopService
  BY <1>5, StoppedGoesOn, ToKeepsCommand DEF StopService, Steps
<1>6. CASE AwaitStop
  BY <1>6, StoppedGoesOn, ToKeepsCommand DEF AwaitStop, Steps
<1>7. CASE StopFails
  <2>1. /\ held.step \in {"stop", "await"} /\ held' \in Holdings
        /\ \/ /\ held.command.action = "install" /\ held'.step = "report" /\ ~held'.ok
              /\ held'.command = held.command /\ held'.package = held.package
           \/ held' = Free
    BY <1>7, ConcludeReports DEF StopFails
  <2> QED
    BY <1>7, <2>1 DEF StopFails
<1>8. CASE DeleteInstall
  <2>1. install' \in Contents
    <3>1. install \in Contents /\ install' \in {Nothing, install, Partial(install)}
      BY <1>8 DEF DeleteInstall
    <3> QED
      BY ONLY <3>1, PartsAreContents
  <2>2. CASE To("copy")
    BY <1>8, <2>1, <2>2, ToKeepsCommand DEF DeleteInstall, Steps
  <2>3. CASE Conclude(FALSE)
    BY <1>8, <2>1, <2>3, ConcludeReports DEF DeleteInstall
  <2> QED
    BY <1>8, <2>2, <2>3 DEF DeleteInstall
<1>9. CASE Copy
  <2>1. Package \in Contents
    <3>1. CASE held.package = "none"
      BY <1>9, <3>1 DEF Copy, Package, Holdings
    <3>2. CASE held.package # "none"
      <4>1. held.package \in Releases /\ Package = Whole(held.package)
        BY <3>2 DEF Package, Holdings
      <4> QED
        BY ONLY <4>1, PartsAreContents
    <3> QED
      BY <3>1, <3>2
  <2>2. install' \in Contents
    <3>1. install' \in {Package, Nothing, Partial(Package)}
      BY <1>9 DEF Copy
    <3> QED
      BY ONLY <2>1, <3>1, PartsAreContents
  <2>3. CASE Conclude(FALSE)
    BY <1>9, <2>2, <2>3, ConcludeReports DEF Copy
  <2>4. CASE Package # Nothing /\ install' = Package /\ To("start")
    <3>1. Version(Package) = held.command.to /\ (Package.whole \/ torn)
      <4>1. CASE held.package = "none"
        <5>1. Package = staging[held.command.to] /\ held.command.to \in Versions
          BY <1>9, <4>1 DEF Copy, Package, Holdings
        <5>2. task.stage # "extracting"
          BY <1>9 DEF Copy, Idle
        <5> QED
          BY <2>4, <5>1, <5>2 DEF Version
      <4>2. CASE held.package # "none"
        <5>1. held.package \in Releases /\ Package = Whole(held.package)
          BY <4>2 DEF Package, Holdings
        <5> QED
          BY <1>9, <4>2, <5>1, PartsAreContents DEF Install, Whole
      <4> QED
        BY <4>1, <4>2
    <3> QED
      BY <1>9, <2>2, <2>4, <3>1, ToKeepsCommand DEF Copy, Steps, Version
  <2> QED
    BY <1>9, <2>3, <2>4 DEF Copy
<1>10. CASE StartService
  <2>1. CASE Conclude(TRUE) /\ service = "running" /\ UNCHANGED agent
    BY <1>10, <2>1, ConcludeReports DEF StartService
  <2>2. CASE Conclude(FALSE) /\ service # "running" /\ UNCHANGED agent
    <3>1. /\ held' \in Holdings
          /\ \/ /\ held.command.action = "install" /\ held'.step = "report" /\ ~held'.ok
                /\ held'.command = held.command /\ held'.package = held.package
             \/ held' = Free
      BY <2>2, ConcludeReports
    <3>2. UNCHANGED <<server, disk, mailbox, crashes, agent>>
      BY <1>10, <2>2 DEF StartService
    <3> QED
      BY <3>1, <3>2
  <2>3. ASSUME service = "stopped", RunInstalled, NEW ok \in BOOLEAN, Conclude(ok)
        PROVE  Inv'
    <3>1. Version(install) \in Versions \cup {0} /\ Idle \in Tasks
      BY DEF Version, Contents, Tasks
    <3> QED
      BY <1>10, <2>3, <3>1, ConcludeReports DEF StartService, RunInstalled, Version, Idle
  <2> QED
    BY <1>10, <2>1, <2>2, <2>3 DEF StartService
<1>11. CASE Report
  <2>1. /\ held' = Free /\ held.command.to \in Versions \cup {0}
        /\ column' = column \/ (held.ok /\ column' = held.command.to)
    BY <1>11 DEF Report, ReportUpdateResult, Holdings
  <2>2. UNCHANGED <<catalogue, jobs, forced, forwarded, agent, disk, mailbox, crashes>>
    BY <1>11 DEF Report
  <2>3. ColumnIsKnown'
    BY <1>11, <2>1, <2>2 DEF Report
  <2> QED
    BY <2>1, <2>2, <2>3
<1> QED
  BY <1>1, <1>2, <1>3, <1>4, <1>5, <1>6, <1>7, <1>8, <1>9, <1>10, <1>11
     DEF ManagerNext, ManagerStep

\* A restart forgets the command that was held and the task, and keeps the files.
LEMMA CrashKeeps ==
  ASSUME Inv, ManagerRestarts \/ ComputerRestarts PROVE Inv'
<1> USE Names, FreeIsHolding
    DEF Inv, MachineTypeOK, TasksAreReal, CommandsAreOrderly, StagingIsSound,
        CopyIsInPlace, ProcessIsInstalled, ColumnIsKnown, AutoUpdateIsNewer, InstallStep, At
<1>1. held' = Free /\ crashes' \in 0 .. MaxCrashes /\ UNCHANGED <<server, install, staging, mailbox>>
  BY AgentUpdateAssumption DEF ManagerRestarts, ComputerRestarts, Crash
<1>2. CASE ManagerRestarts
  BY <1>1, <1>2 DEF ManagerRestarts
<1>3. CASE ComputerRestarts
  <2>1. /\ service' \in {"running", "stopped"} /\ process' \in Versions \cup {0}
        /\ greeted' = "no" /\ task' = Idle
    BY <1>3, PartsAreContents DEF ComputerRestarts, RunInstalled
  <2>2. Idle \in Tasks /\ Idle.kind = "none"
    BY DEF Idle, Tasks
  <2>3. torn' \in BOOLEAN /\ (torn => torn') /\ (task.stage = "extracting" => torn')
    BY <1>3 DEF ComputerRestarts
  <2> QED
    BY <1>1, <2>1, <2>2, <2>3
<1> QED
  BY <1>2, <1>3

-----------------------------------------------------------------------------
(* The theorems.                                                           *)

\* Every reachable state satisfies the inductive invariant.
LEMMA Invariance == Spec => []IInv
<1>1. IInv <=> CatalogueInv /\ Inv
  BY DEF IInv, CatalogueInv, Inv, TypeOK
<1>2. Init => CatalogueInv /\ Inv
  BY CatalogueInit, MachineInit DEF Init
<1>3. CatalogueInv /\ Inv /\ [Next]_vars => CatalogueInv' /\ Inv'
  <2> SUFFICES ASSUME CatalogueInv, Inv, [Next]_vars PROVE CatalogueInv' /\ Inv'
    OBVIOUS
  <2>1. CASE AgentNext
    <3>1. UNCHANGED catalogue
      BY <2>1 DEF AgentNext, Heartbeat, CheckUpdate, Download, StartExtract, EndExtract,
                  Extract, Drop, HandOff, TrySend, Finish, AgentStops, TakeForce, ControlJob
    <3> QED
      BY <2>1, <3>1, AgentStep DEF CatalogueInv, ReleasesTypeOK, PackageOutlivesRow
  <2>2. CASE ManagerNext
    <3>1. UNCHANGED catalogue
      BY <2>2 DEF ManagerNext, ManagerStep, Dequeue, DeleteCommand, StopService, AwaitStop,
                  StopFails, DeleteInstall, Copy, StartService, Report, ChannelControl,
                  ChannelInstall
    <3> QED
      BY <2>2, <3>1, ManagerKeeps DEF CatalogueInv, ReleasesTypeOK, PackageOutlivesRow
  <2>3. CASE ManagerRestarts \/ ComputerRestarts
    <3>1. UNCHANGED catalogue
      BY <2>3 DEF ManagerRestarts, ComputerRestarts
    <3> QED
      BY <2>3, <3>1, CrashKeeps DEF CatalogueInv, ReleasesTypeOK, PackageOutlivesRow
  <2>4. CASE AdminNext /\ UNCHANGED <<column, jobs, forced, forwarded, agent, disk, manager, crashes>>
    BY <2>4, CatalogueStep
    DEF Inv, MachineTypeOK, TasksAreReal, CommandsAreOrderly, StagingIsSound, CopyIsInPlace,
        ProcessIsInstalled, ColumnIsKnown, AutoUpdateIsNewer, InstallStep, At
  <2>5. CASE UNCHANGED vars
    BY <2>5
    DEF vars, CatalogueInv, ReleasesTypeOK, PackageOutlivesRow, Inv, MachineTypeOK, TasksAreReal,
        CommandsAreOrderly, StagingIsSound, CopyIsInPlace, ProcessIsInstalled, ColumnIsKnown,
        AutoUpdateIsNewer, InstallStep, At
  <2> QED
    BY <2>1, <2>2, <2>3, <2>4, <2>5 DEF Next
<1> QED
  BY <1>1, <1>2, <1>3, PTL DEF Spec

\* Every variable of the catalogue and of the computer keeps its type.
THEOREM TypeCorrect == Spec => []TypeOK
  BY Invariance, PTL DEF IInv

\* Whatever uploads, deletions and failures overlap, an active release has its
\* package: a package is written before its row and removed after it.
THEOREM ActiveReleasesHavePackages == Spec => []ActiveHasPackage
<1>1. IInv => ActiveHasPackage
  BY DEF IInv, PackageOutlivesRow, ActiveHasPackage
<1> QED
  BY <1>1, Invariance, PTL

\* An automatic update that a process is offered and works at, up to the moment
\* it lies in the Manager's mailbox, is newer than that process, once a heartbeat
\* of it got through. What the Manager installs in the end is another matter.
THEOREM UpdatesAreNewer == Spec => []AutoUpdateIsNewer
  BY Invariance, PTL DEF IInv

\* An installation that is reported as done has all its files in place, unless
\* an extraction was cut short.
THEOREM SuccessIsReal == Spec => []SuccessMeansInstalled
<1>1. IInv => SuccessMeansInstalled
  BY DEF IInv, CopyIsInPlace, SuccessMeansInstalled
<1> QED
  BY <1>1, Invariance, PTL

\* The guarantee of InstallFilesAsync: only DeleteInstall and Copy change the
\* install directory, and the service is stopped when the Manager gets there.
THEOREM FilesAreSafe == Spec => FilesOnlyWhileStopped
<1>1. IInv /\ [Next]_vars => [install' # install => service = "stopped"]_vars
  <2> SUFFICES ASSUME IInv, [Next]_vars, install' # install PROVE service = "stopped"
    OBVIOUS
  <2>1. DeleteInstall \/ Copy
    BY DEF Next, vars, AgentNext, Heartbeat, CheckUpdate, Download, StartExtract, EndExtract,
           Extract, Drop, HandOff, TrySend, Finish, AgentStops, TakeForce, ControlJob,
           ManagerNext, ManagerStep, Dequeue, DeleteCommand, StopService, AwaitStop, StopFails,
           StartService, Report, ChannelControl, ChannelInstall, ManagerRestarts, ComputerRestarts
  <2> QED
    BY <2>1 DEF DeleteInstall, Copy, At, IInv, CommandsAreOrderly, InstallStep
<1> QED
  BY <1>1, Invariance, PTL DEF Spec, FilesOnlyWhileStopped
=============================================================================
