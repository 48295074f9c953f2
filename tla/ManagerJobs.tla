---------------------------- MODULE ManagerJobs ----------------------------
(***************************************************************************)
(* The Manager's own command channel: rows of manager_jobs, the handlers   *)
(* that create, hand out, cancel and complete them, and the loop of the    *)
(* Manager service, which enrols, polls, works through a reply and reports.*)
(*                                                                         *)
(* One Manager; every SQL statement is a step, and a poll handler lives on *)
(* when the Manager has given up its request.  What a command does is in   *)
(* AgentUpdate: here it succeeds or fails, for whatever reason.  A row     *)
(* that is gone has the status "deleted".                                  *)
(***************************************************************************)
EXTENDS Naturals

CONSTANTS
  MaxCommands,  \* bound: rows ever inserted into manager_jobs
  MaxFetches    \* bound: poll handlers in progress

ASSUME ManagerJobsAssumption == MaxCommands \in Nat /\ MaxFetches \in Nat

CommandIds == 1 .. MaxCommands
Fetches == 1 .. MaxFetches
Verdicts == {"completed", "failed"}

VARIABLES
  manager,     \* managers.status
  commands,    \* manager_jobs.status
  submitting,  \* whether a createManagerJobService has passed its checks
  fetch,       \* pollJobsService: [step, ids] of each handler
  worker,      \* RunAsync: [at, fetch, todo, job]
  report,      \* submitJobResultService of each command
  verdict,     \* what the Manager observed
  ran,         \* how often it was executed (history)
  received,    \* commands of the replies the Manager read (history)
  forgotten,   \* received commands that a restart dropped (history)
  withdrawn    \* commands cancelled before any poll selected them (history)

managerRows == <<manager, commands, submitting, withdrawn>>
managerRuns == <<verdict, ran, received, forgotten>>
managerVars == <<managerRows, fetch, worker, report, managerRuns>>

NoFetch == [step |-> "idle", ids |-> {}]
AtLoop == [at |-> "loop", fetch |-> 0, todo |-> {}, job |-> 0]

ManagerTypeOK ==
  /\ manager \in {"new", "active", "revoked", "deleted"}
  /\ commands \in [CommandIds -> {"absent", "pending", "sent", "cancelled", "deleted"} \cup Verdicts]
  /\ submitting \in BOOLEAN
  /\ fetch \in [Fetches -> [step : {"idle", "admitted", "selected", "marked"}, ids : SUBSET CommandIds]]
  /\ worker \in [at : {"loop", "waiting", "working", "executed", "reporting"},
                 fetch : Fetches \cup {0}, todo : SUBSET CommandIds, job : CommandIds \cup {0}]
  /\ report \in [CommandIds -> {"none", "arrived", "checked"}]
  /\ verdict \in [CommandIds -> Verdicts \cup {"none"}] /\ ran \in [CommandIds -> Nat]
  /\ received \in SUBSET CommandIds /\ forgotten \in SUBSET CommandIds
  /\ withdrawn \in SUBSET CommandIds

ManagerInit ==
  /\ manager = "new"
  /\ commands = [c \in CommandIds |-> "absent"]
  /\ submitting = FALSE /\ withdrawn = {}
  /\ fetch = [p \in Fetches |-> NoFetch]
  /\ worker = AtLoop
  /\ report = [c \in CommandIds |-> "none"]
  /\ verdict = [c \in CommandIds |-> "none"] /\ ran = [c \in CommandIds |-> 0]
  /\ received = {} /\ forgotten = {}

WithStatus(S, from, to) ==
  [c \in CommandIds |-> IF c \in S /\ commands[c] \in from THEN to ELSE commands[c]]
Unfinished == {"pending", "sent"}
Rows == Unfinished \cup Verdicts \cup {"cancelled"}

-----------------------------------------------------------------------------
(* The administrator.                                                      *)

\* createManagerJobService up to its INSERT: the Manager must be active.
CheckCommand ==
  /\ manager = "active" /\ ~submitting
  /\ submitting' = TRUE
  /\ UNCHANGED <<manager, commands, withdrawn, fetch, worker, report, managerRuns>>

\* The INSERT; the foreign key refuses it when the Manager was deleted.
InsertCommand ==
  /\ submitting
  /\ submitting' = FALSE
  /\ \/ /\ manager # "deleted"
        /\ \E c \in CommandIds :
             /\ \A d \in CommandIds : commands[d] = "absent" <=> d >= c
             /\ commands' = [commands EXCEPT ![c] = "pending"]
     \/ manager = "deleted" /\ UNCHANGED commands
  /\ UNCHANGED <<manager, withdrawn, fetch, worker, report, managerRuns>>

\* cancelJobService: UPDATE ... WHERE status IN ('pending', 'sent').
CancelCommand(c) ==
  /\ commands[c] \in Unfinished
  /\ commands' = WithStatus({c}, Unfinished, "cancelled")
  /\ withdrawn' = IF c \in received \/ \E p \in Fetches : c \in fetch[p].ids
                  THEN withdrawn ELSE withdrawn \cup {c}
  /\ UNCHANGED <<manager, submitting, fetch, worker, report, managerRuns>>

\* revokeManagerService.
RevokeManager ==
  /\ manager \in {"active", "revoked"}
  /\ manager' = "revoked"
  /\ UNCHANGED <<commands, submitting, withdrawn, fetch, worker, report, managerRuns>>

\* deleteManagerService: of any status; the foreign key removes the commands.
DeleteManager ==
  /\ manager \in {"active", "revoked"}
  /\ manager' = "deleted"
  /\ commands' = WithStatus(CommandIds, Rows, "deleted")
  /\ UNCHANGED <<submitting, withdrawn, fetch, worker, report, managerRuns>>

-----------------------------------------------------------------------------
(* The poll.                                                               *)

\* EnsureEnrolledAsync; whose row the Manager gets is in Identity.
EnrolManager ==
  /\ manager = "new" /\ worker.at = "loop"
  /\ manager' = "active"
  /\ UNCHANGED <<commands, submitting, withdrawn, fetch, worker, report, managerRuns>>

\* DoJobsPollAsync asks and authenticateManager admits an active Manager.
AskForCommands(p) ==
  /\ worker.at = "loop" /\ manager = "active" /\ fetch[p].step = "idle"
  /\ fetch' = [fetch EXCEPT ![p].step = "admitted"]
  /\ worker' = [worker EXCEPT !.at = "waiting", !.fetch = p]
  /\ UNCHANGED <<managerRows, report, managerRuns>>

\* The request fails or exceeds HttpClient's timeout; the handler goes on.
GiveUpAsking ==
  /\ worker.at = "waiting"
  /\ worker' = AtLoop
  /\ UNCHANGED <<managerRows, fetch, report, managerRuns>>

Awaited(p) == worker.at = "waiting" /\ worker.fetch = p

\* Mutant: the SELECT filters on the Manager only.
AnyCommand == {c \in CommandIds : commands[c] \in Rows}

\* Mutant: what was handed out and not answered is handed out again.
Unanswered == {c \in CommandIds : commands[c] \in Unfinished}

Pending == {c \in CommandIds : commands[c] = "pending"}

\* findPendingJobsForManager; without any the reply is empty.
SelectPending(p) ==
  /\ fetch[p].step = "admitted"
  /\ \/ /\ Pending # {}
        /\ fetch' = [fetch EXCEPT ![p] = [step |-> "selected", ids |-> Pending]]
        /\ UNCHANGED worker
     \/ /\ Pending = {}
        /\ fetch' = [fetch EXCEPT ![p] = NoFetch]
        /\ worker' = IF Awaited(p) THEN AtLoop ELSE worker
  /\ UNCHANGED <<managerRows, report, managerRuns>>

\* markJobsSent names the ids only: a row that was cancelled meanwhile becomes 'sent' again.
MarkSent(p) ==
  /\ fetch[p].step = "selected"
  /\ commands' = WithStatus(fetch[p].ids, Rows, "sent")
  /\ fetch' = [fetch EXCEPT ![p].step = "marked"]
  /\ UNCHANGED <<manager, submitting, withdrawn, worker, report, managerRuns>>

\* Nobody reads the reply of a request that was given up.
ReplyCommands(p) ==
  /\ fetch[p].step = "marked"
  /\ fetch' = [fetch EXCEPT ![p] = NoFetch]
  /\ \/ /\ Awaited(p)
        /\ worker' = [at |-> "working", fetch |-> 0, todo |-> fetch[p].ids, job |-> 0]
        /\ received' = received \cup fetch[p].ids
     \/ ~Awaited(p) /\ UNCHANGED <<worker, received>>
  /\ UNCHANGED <<managerRows, report, verdict, ran, forgotten>>

-----------------------------------------------------------------------------
(* The Manager works through the reply.                                    *)

\* ExecuteManagerJobAsync up to its result.  Every exception becomes a failure.
ExecuteCommand(c) ==
  /\ worker.at = "working" /\ c \in worker.todo
  /\ worker' = [worker EXCEPT !.at = "executed", !.todo = worker.todo \ {c}, !.job = c]
  /\ ran' = [ran EXCEPT ![c] = @ + 1]
  /\ \E v \in Verdicts : verdict' = [verdict EXCEPT ![c] = v]
  /\ UNCHANGED <<managerRows, fetch, report, received, forgotten>>

\* Mutant: an exception of the report leaves DoJobsPollAsync's loop.
LeaveLoop == worker' = AtLoop

\* The loop over the reply goes on, whatever became of the report.
NextCommand ==
  worker' = IF worker.todo = {} THEN AtLoop ELSE [worker EXCEPT !.at = "working", !.job = 0]

SubmitResult ==
  /\ worker.at = "executed" /\ report[worker.job] = "none"
  /\ worker' = [worker EXCEPT !.at = "reporting"]
  /\ report' = [report EXCEPT ![worker.job] = "arrived"]
  /\ UNCHANGED <<managerRows, fetch, managerRuns>>

\* The request is never made or never arrives: ExecuteManagerJobAsync only logs it.
SubmitFails ==
  /\ worker.at = "executed"
  /\ NextCommand
  /\ UNCHANGED <<managerRows, fetch, report, managerRuns>>

\* authenticateManager, then submitJobResultService finds the row and checks its status.
CheckResult(c) ==
  /\ report[c] = "arrived"
  /\ report' = [report EXCEPT ![c] = IF manager = "active" /\ commands[c] = "sent"
                                     THEN "checked" ELSE "none"]
  /\ UNCHANGED <<managerRows, fetch, worker, managerRuns>>

\* completeJob: UPDATE ... WHERE id = ? AND status = 'sent'.
CompleteCommand(c) ==
  /\ report[c] = "checked"
  /\ commands' = WithStatus({c}, {"sent"}, verdict[c])
  /\ report' = [report EXCEPT ![c] = "none"]
  /\ UNCHANGED <<manager, submitting, withdrawn, fetch, worker, managerRuns>>

\* The answer, or the end of the wait for it.
ResultAnswered ==
  /\ worker.at = "reporting"
  /\ NextCommand
  /\ UNCHANGED <<managerRows, fetch, report, managerRuns>>

RestartManager ==
  /\ worker.at # "loop"
  /\ worker' = AtLoop
  /\ forgotten' = forgotten \cup worker.todo
  /\ UNCHANGED <<managerRows, fetch, report, verdict, ran, received>>

\* The backend restarts: its handlers are gone and their clients see an error.
RestartBackend ==
  /\ fetch' = [p \in Fetches |-> NoFetch]
  /\ report' = [c \in CommandIds |-> "none"]
  /\ submitting' = FALSE
  /\ <<fetch', report', submitting'>> # <<fetch, report, submitting>>
  /\ worker' = IF worker.at = "waiting" THEN AtLoop ELSE worker
  /\ UNCHANGED <<manager, commands, withdrawn, managerRuns>>

ManagerNext ==
  \/ CheckCommand \/ InsertCommand
  \/ \E c \in CommandIds : \/ CancelCommand(c) \/ ExecuteCommand(c)
                           \/ CheckResult(c) \/ CompleteCommand(c)
  \/ \E p \in Fetches : \/ AskForCommands(p) \/ SelectPending(p)
                        \/ MarkSent(p) \/ ReplyCommands(p)
  \/ RevokeManager \/ DeleteManager \/ EnrolManager
  \/ GiveUpAsking \/ SubmitResult \/ SubmitFails \/ ResultAnswered
  \/ RestartManager \/ RestartBackend

ManagerSpec == ManagerInit /\ [][ManagerNext]_managerVars

-----------------------------------------------------------------------------
(* What the channel guarantees.                                            *)

\* The Manager's channel is a command queue too: requests that time out, overlap or break off never
\* make it hand out or execute a command twice.
CommandsQueue == INSTANCE CommandQueue WITH
                   Commands <- CommandIds,
                   submitted <- {c \in CommandIds : commands[c] # "absent"},
                   handed <- received,
                   executions <- ran
ImplementsManagerQueue == CommandsQueue!CQSpec

\* Unlike an agent, the Manager works through every reply it has read: a failing command or report
\* ends neither, only a restart of the service drops what is left.
ReplyIsWorkedThrough ==
  \A c \in received : ran[c] = 1 \/ c \in worker.todo \/ c \in forgotten

\* A command that is cancelled before any poll has selected it stays cancelled and never runs: the
\* UPDATE of markJobsSent, which has no condition on the status, can revive only what it selected.
WithdrawnNeverRuns ==
  \A c \in withdrawn : ran[c] = 0 /\ commands[c] \in {"cancelled", "deleted"}
=============================================================================
