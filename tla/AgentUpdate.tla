---------------------------- MODULE AgentUpdate ----------------------------
(***************************************************************************)
(* How one computer gets a version of the agent: the NetdeskAgent service  *)
(* (AgentWorker, UpdateManager), the mailbox file manager-command.json,    *)
(* the NetdeskAgentManager service that stops it, replaces its files and   *)
(* starts it again, and the two ways the server learns of the result.      *)
(*                                                                         *)
(* The agent is one loop and so is the Manager; a download, an extraction  *)
(* or a wait is where the other one, an administrator or a crash comes in. *)
(***************************************************************************)
EXTENDS Releases

CONSTANTS
  MaxJobs,   \* bound: jobs of administrators, for the agent or the Manager
  MaxCrashes \* bound: restarts of the Manager or of the computer

ASSUME AgentUpdateAssumption ==
  /\ MaxJobs \in Nat /\ MaxCrashes \in Nat
  /\ Releases \cap {"initial", "none"} = {}

VARIABLES
  column,    \* agents.agent_version, which the server compares with
  service,   \* NetdeskAgent, as the service control manager sees it
  process,   \* the version of the binaries that run
  greeted,   \* the heartbeats of this process: none yet, one tried, one arrived
  install,   \* the content of the install directory
  staging,   \* the content of update-staging\<version>
  task,      \* the update or reinstallation in the agent's hands
  jobs,      \* jobs so far
  forced,    \* releases with a recent force_reinstall_agent job: one job each
  forwarded, \* those whose job was reported as handed to the Manager
  mailbox,   \* manager-command.json
  held,      \* the command in the Manager's hands
  torn,      \* an extraction was interrupted or failed (history)
  crashes    \* restarts so far

server == <<catalogue, column, jobs, forced, forwarded>>
agent == <<service, process, greeted, task>>
disk == <<install, staging, torn>>
manager == <<mailbox, held>>
vars == <<server, agent, disk, manager, crashes>>

Versions == {VersionOf[r] : r \in Releases}
Contents == [of : Releases \cup {"initial", "none"}, whole : BOOLEAN]
Version(content) == IF content.of \in Releases THEN VersionOf[content.of] ELSE 0

Nothing == [of |-> "none", whole |-> FALSE]
Whole(r) == [of |-> r, whole |-> TRUE]
Partial(content) == [content EXCEPT !.whole = FALSE]

\* ManagerCommand: install_files of a version, or control_service.
Controls == {"start", "stop", "restart"}
Install(v) == [action |-> "install", to |-> v]
Control(a) == [action |-> a, to |-> 0]
NoCommand == [action |-> "none", to |-> 0]
Commands == {Install(v) : v \in Versions} \cup {Control(a) : a \in Controls}

\* What the Manager works at: package is what it downloaded itself.
Free == [command |-> NoCommand, package |-> "none", step |-> "free", ok |-> TRUE]
Steps == {"free", "dequeued", "stop", "await", "files", "copy", "start", "report"}

Holdings == [command : Commands \cup {NoCommand}, package : Releases \cup {"none"},
             step : Steps, ok : BOOLEAN]

Idle == [kind |-> "none", release |-> "none", stage |-> "idle"]
Stages == {"chosen", "downloaded", "extracting", "staged", "sent", "dropped"}
Tasks == [kind : {"auto", "force"}, release : Releases, stage : Stages] \cup {Idle}

MachineTypeOK ==
  /\ column \in Versions \cup {0} /\ process \in Versions \cup {0}
  /\ service \in {"running", "stopping", "stopped"}
  /\ greeted \in {"no", "tried", "yes"}
  /\ install \in Contents /\ staging \in [Versions -> Contents]
  /\ task \in Tasks
  /\ forced \in SUBSET Releases /\ forwarded \in SUBSET forced
  /\ mailbox \in Commands \cup {NoCommand}
  /\ held \in Holdings
  /\ torn \in BOOLEAN
  /\ jobs \in 0 .. MaxJobs /\ crashes \in 0 .. MaxCrashes

TypeOK == ReleasesTypeOK /\ MachineTypeOK

\* Installed by hand, and enrolled with its version.
Init ==
  /\ ReleasesInit
  /\ column = 0 /\ process = 0 /\ service = "running" /\ greeted = "no"
  /\ install = [of |-> "initial", whole |-> TRUE]
  /\ staging = [v \in Versions |-> Nothing]
  /\ task = Idle /\ forced = {} /\ forwarded = {}
  /\ mailbox = NoCommand /\ held = Free
  /\ torn = FALSE /\ jobs = 0 /\ crashes = 0

-----------------------------------------------------------------------------
(* The agent. OnStop lets the loop finish what it is doing for a while, so *)
(* all but the start of a tick can also happen while the service stops.    *)

Job == jobs < MaxJobs /\ jobs' = jobs + 1

Alive == service # "stopped"
Tick == service = "running" /\ task = Idle

\* The server handles a request before the process that sent it is replaced.
UpdateHeartbeat == column' = process

\* The first tick of a process is a heartbeat, whether it arrives or not.
Heartbeat ==
  /\ Tick
  /\ \/ UpdateHeartbeat /\ greeted' = "yes"
     \/ column' = column /\ greeted' = IF greeted = "no" THEN "tried" ELSE greeted
  /\ UNCHANGED <<catalogue, jobs, forced, forwarded, service, process, task, disk, manager, crashes>>

CheckUpdate ==
  /\ Tick /\ greeted # "no"
  /\ \E r \in Offered(column) :
       task' = [kind |-> "auto", release |-> r, stage |-> "chosen"]
  /\ UNCHANGED <<server, service, process, greeted, disk, manager, crashes>>

\* force_reinstall_agent: any release that has ever been listed.
TakeForce(r) ==
  /\ Alive /\ task = Idle /\ greeted # "no"
  /\ Job
  /\ row[r] # "none" /\ r \notin forced
  /\ forced' = forced \cup {r}
  /\ task' = [kind |-> "force", release |-> r, stage |-> "chosen"]
  /\ UNCHANGED <<catalogue, column, forwarded, service, process, greeted, disk, manager, crashes>>

Goto(from, to) == task.stage = from /\ task' = [task EXCEPT !.stage = to]

\* The package is as uploaded: a truncated or altered one is a Drop.
Download ==
  /\ Alive /\ Goto("chosen", "downloaded")
  /\ MayDownload(task.release, task.release \in forced) /\ task.release \in file
  /\ UNCHANGED <<server, service, process, greeted, disk, manager, crashes>>

\* The staging directory of the version is removed and written anew.
Extract(stage, next, whole) ==
  /\ Alive /\ Goto(stage, next)
  /\ staging' = [staging EXCEPT ![VersionOf[task.release]] =
                   [of |-> task.release, whole |-> whole]]
  /\ UNCHANGED <<server, service, process, greeted, install, torn, manager, crashes>>

StartExtract == Extract("downloaded", "extracting", FALSE)
EndExtract == Extract("extracting", "staged", TRUE)

\* DownloadVerifyAndHandOffAsync catches and logs every failure.
Drop ==
  /\ Alive /\ \E stage \in {"chosen", "downloaded", "extracting"} : Goto(stage, "dropped")
  /\ torn' = (torn \/ task.stage = "extracting")
  /\ UNCHANGED <<server, service, process, greeted, install, staging, manager, crashes>>

\* TrySend replaces the file, also one that has not been read; when it fails
\* the earlier one may have been deleted already.
TrySend(command, sent) ==
  /\ mailbox' \in IF sent THEN {command} ELSE {mailbox, NoCommand}
  /\ UNCHANGED <<catalogue, column, forced, forwarded, service, process, greeted, disk, held, crashes>>

HandOff ==
  /\ Alive
  /\ \E sent \in BOOLEAN : /\ Goto("staged", IF sent THEN "sent" ELSE "dropped")
                           /\ TrySend(Install(VersionOf[task.release]), sent)
  /\ UNCHANGED jobs

\* A job is reported as forwarded whatever became of it: ForceInstallAsync
\* returns nothing.
Finish ==
  /\ Alive /\ task.stage \in {"sent", "dropped"}
  /\ forwarded' = IF task.kind = "force" THEN forwarded \cup {task.release} ELSE forwarded
  /\ task' = Idle
  /\ UNCHANGED <<catalogue, column, jobs, forced, service, process, greeted, disk, manager, crashes>>

\* start_, stop_ and restart_netdesk_agent.
ControlJob(a) ==
  /\ Alive /\ task = Idle /\ greeted # "no"
  /\ Job
  /\ \E sent \in BOOLEAN : TrySend(Control(a), sent)
  /\ UNCHANGED task

\* OnStop has returned or given up waiting: the process ends where it is.
AgentStops ==
  /\ service = "stopping"
  /\ service' = "stopped" /\ process' = 0 /\ greeted' = "no" /\ task' = Idle
  /\ torn' = (torn \/ task.stage = "extracting")
  /\ UNCHANGED <<server, install, staging, manager, crashes>>

AgentNext ==
  \/ Heartbeat \/ CheckUpdate \/ Download \/ StartExtract \/ EndExtract \/ Drop
  \/ HandOff \/ Finish \/ AgentStops
  \/ \E r \in Releases : TakeForce(r)
  \/ \E a \in Controls : ControlJob(a)

-----------------------------------------------------------------------------
(* The Manager: one command at a time, from the mailbox or from its own    *)
(* channel to the server.                                                  *)

At(step) == held.step = step
To(step) == held' = [held EXCEPT !.step = step]

\* The end of a command: an installation reports, a control is only logged.
Conclude(ok) ==
  held' = IF held.command.action = "install"
            THEN [held EXCEPT !.step = "report", !.ok = ok]
            ELSE Free

FirstStep(command) == IF command.action = "start" THEN "start" ELSE "stop"
Stopped ==
  CASE held.command.action = "install" -> To("files")
    [] held.command.action = "restart" -> To("start")
    [] OTHER -> held' = Free

Dequeue ==
  /\ At("free") /\ mailbox # NoCommand
  /\ held' = [Free EXCEPT !.command = mailbox, !.step = "dequeued"]
  /\ UNCHANGED <<server, agent, disk, mailbox, crashes>>

\* TryDelete removes whatever the file is by now, or fails quietly.
DeleteCommand ==
  /\ At("dequeued")
  /\ mailbox' \in {NoCommand, mailbox}
  /\ To(FirstStep(held.command))
  /\ UNCHANGED <<server, agent, disk, crashes>>

ChannelControl(a) ==
  /\ At("free")
  /\ Job
  /\ held' = [Free EXCEPT !.command = Control(a), !.step = FirstStep(Control(a))]
  /\ UNCHANGED <<catalogue, column, forced, forwarded, agent, disk, mailbox, crashes>>

\* install_update: the Manager downloads and extracts before it touches the
\* service, in a directory of its own; when that fails it does nothing more.
ChannelInstall(r) ==
  /\ At("free")
  /\ Job
  /\ MayDownload(r, TRUE) /\ r \in file
  /\ held' = [Free EXCEPT !.command = Install(VersionOf[r]), !.package = r, !.step = "stop"]
  /\ UNCHANGED <<catalogue, column, forced, forwarded, agent, disk, mailbox, crashes>>

StopService ==
  /\ At("stop")
  /\ \/ service = "running" /\ service' = "stopping" /\ To("await")
     \/ service = "stopped" /\ service' = service /\ Stopped
  /\ UNCHANGED <<server, process, greeted, task, disk, mailbox, crashes>>

AwaitStop ==
  /\ At("await") /\ service = "stopped"
  /\ Stopped
  /\ UNCHANGED <<server, agent, disk, mailbox, crashes>>

\* Mutant: an installation goes on when the service has not stopped in time.
StopFailsIgnored ==
  /\ At("stop") \/ At("await")
  /\ service # "stopped"
  /\ Stopped
  /\ UNCHANGED <<server, agent, disk, mailbox, crashes>>

\* The service refuses (it is stopping already) or does not stop within 30 s.
StopFails ==
  /\ At("stop") \/ At("await")
  /\ service # "stopped"
  /\ Conclude(FALSE)
  /\ UNCHANGED <<server, agent, disk, mailbox, crashes>>

\* InstallFilesAsync: all of the install directory is removed, or, when a file
\* stays locked for every retry, some of it.
DeleteInstall ==
  /\ At("files")
  /\ \/ install' = Nothing /\ To("copy")
     \/ install' \in {install, Partial(install)} /\ Conclude(FALSE)
  /\ UNCHANGED <<server, agent, staging, torn, mailbox, crashes>>

Package ==
  IF held.package = "none" THEN staging[held.command.to] ELSE Whole(held.package)

\* Mutants: a copy that stopped half way is taken for a whole one; the service
\* is not started again.
CopyHalf ==
  /\ At("copy")
  /\ install' = Partial(Package) /\ To("start")
  /\ UNCHANGED <<server, agent, staging, torn, mailbox, crashes>>
CopyAndConclude ==
  /\ At("copy")
  /\ install' = Package /\ Conclude(TRUE)
  /\ UNCHANGED <<server, agent, staging, torn, mailbox, crashes>>

\* What the staging directory has by now, or a part of it, or (there is no
\* such directory) nothing.
Copy ==
  /\ At("copy")
  /\ \/ Package # Nothing /\ install' = Package /\ To("start")
     \/ install' \in {Nothing, Partial(Package)} /\ Conclude(FALSE)
  /\ UNCHANGED <<server, agent, staging, torn, mailbox, crashes>>

\* The service control manager starts what the directory holds; it may come
\* up after the 30 seconds.
RunInstalled ==
  /\ install.of # "none"
  /\ service' = "running" /\ process' = Version(install)
  /\ greeted' = "no" /\ task' = Idle

StartService ==
  /\ At("start")
  /\ \/ service = "running" /\ Conclude(TRUE) /\ UNCHANGED agent
     \/ service = "stopped" /\ RunInstalled /\ \E ok \in BOOLEAN : Conclude(ok)
     \/ Conclude(FALSE) /\ service # "running" /\ UNCHANGED agent
  /\ UNCHANGED <<server, disk, mailbox, crashes>>

ReportUpdateResult(success, toVersion) ==
  column' = IF success THEN toVersion ELSE column

\* The report may be lost; an installation of the channel has no ServerBaseUrl
\* and leaves the column as it is.
Report ==
  /\ At("report")
  /\ held' = Free
  /\ \/ held.package = "none" /\ ReportUpdateResult(held.ok, held.command.to)
     \/ column' = column
  /\ UNCHANGED <<catalogue, jobs, forced, forwarded, agent, disk, mailbox, crashes>>

ManagerStep ==
  \/ Dequeue \/ DeleteCommand \/ StopService \/ AwaitStop \/ StopFails
  \/ DeleteInstall \/ Copy \/ StartService \/ Report

ManagerNext ==
  \/ ManagerStep
  \/ \E a \in Controls : ChannelControl(a)
  \/ \E r \in Releases : ChannelInstall(r)

-----------------------------------------------------------------------------
(* Crashes.                                                                *)

Crash == crashes < MaxCrashes /\ crashes' = crashes + 1

\* Nothing of the command under way is on disk.
ManagerRestarts ==
  /\ Crash
  /\ held' = Free
  /\ UNCHANGED <<server, agent, disk, mailbox>>

ComputerRestarts ==
  /\ Crash
  /\ held' = Free
  /\ torn' = (torn \/ task.stage = "extracting")
  /\ \/ RunInstalled
     \/ /\ ~install.whole
        /\ service' = "stopped" /\ process' = 0 /\ greeted' = "no" /\ task' = Idle
  /\ UNCHANGED <<server, install, staging, mailbox>>

Next ==
  \/ AgentNext \/ ManagerNext
  \/ ManagerRestarts \/ ComputerRestarts
  \/ AdminNext /\ UNCHANGED <<column, jobs, forced, forwarded, agent, disk, manager, crashes>>

Spec == Init /\ [][Next]_vars

\* The Manager's loop survives every exception and takes its next step; OnStop
\* waits for the agent's loop for ten seconds at most, and then the process ends.
Fairness == WF_vars(ManagerStep) /\ WF_vars(AgentStops)
FairSpec == Spec /\ Fairness

-----------------------------------------------------------------------------
(* Properties.                                                             *)

\* The guarantee of InstallFilesAsync: files are touched only while the service
\* is stopped, whoever asked for it to stop or start and however it ended.
FilesOnlyWhileStopped == [][install' # install => service = "stopped"]_vars

\* What the agent is offered, and works at until it hands it over, is newer than
\* the process that works at it, although the server compares with its own
\* column: once a heartbeat of this process got through, no installation over
\* the Manager's channel, no lost message and no restart makes the two differ.
\* Nothing is said of the command once it lies in the mailbox: the Manager may
\* finish an installation over its channel first, and then install the older
\* release that waits there. Nothing in the code compares the versions again.
AutoUpdateIsNewer ==
  task.kind = "auto" /\ greeted = "yes" => VersionOf[task.release] > process

\* An installation that is about to be reported as done has put all the files
\* of that version in place, unless an extraction was ever cut short: the agent
\* may be killed while it renews the very staging directory that a waiting
\* command names, and the Manager copies what is there.
SuccessMeansInstalled ==
  At("report") /\ held.ok =>
    Version(install) = held.command.to /\ (install.whole \/ torn)

\* A service that an installation has stopped runs again, unless the
\* installation fails, which it reports, or the Manager is restarted meanwhile.
ServiceComesBack ==
  (service = "stopped" /\ held.command.action = "install")
    ~> \/ service = "running"
       \/ At("report") /\ ~held.ok
       \/ crashes > 0

\* Found violated. README.md:113-114 and docs/TECHNICAL.md:323-324 promise an
\* automatic rollback when an update fails.
FailedUpdateRollsBack ==
  At("report") /\ ~held.ok /\ held.package = "none" => install.whole
=============================================================================
