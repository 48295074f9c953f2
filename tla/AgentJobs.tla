----------------------------- MODULE AgentJobs -----------------------------
(***************************************************************************)
(* The remote command queue: rows of the table agent_jobs, the backend     *)
(* handlers that create, hand out, cancel and complete them, and the agent *)
(* service on each machine, which polls, executes one job after the other  *)
(* and reports each result.                                                *)
(*                                                                         *)
(* Every SQL statement is one atomic step; between two statements of a     *)
(* handler (an await) any other handler may run.  A poll handler lives on  *)
(* when its HTTP client has given up, so an agent can have several of them *)
(* in progress; the constant Polls bounds how many.  A job is never        *)
(* removed from the model: a deleted row has status "deleted".             *)
(***************************************************************************)
EXTENDS Naturals

CONSTANTS
  Agents,     \* enrolled agents (rows of the table agents)
  MaxJobs,    \* bound: rows ever inserted into agent_jobs
  Polls,      \* bound: poll handlers that can be in progress
  PollAgent,  \* the agent whose handler each element of Polls is
  None        \* no agent, no poll

ASSUME JobsAssumption ==
  /\ MaxJobs \in Nat
  /\ PollAgent \in [Polls -> Agents]
  /\ None \notin Agents
  /\ None \notin Polls
  /\ None \notin Nat

JobIds == 1..MaxJobs

Outcomes == {"completed", "failed"}
JobStatus == {"absent", "pending", "sent", "cancelled", "deleted"} \cup Outcomes
ClientStates == {"idle", "polling", "working", "executed", "reporting"}

VARIABLES
  agentStatus,  \* agents.status; "deleted" when the row is gone
  jobStatus,    \* agent_jobs.status
  jobAgent,     \* agent_jobs.agent_id
  inBatch,      \* the jobs whose batch_id is the batch's
  nextId,       \* AUTO_INCREMENT of agent_jobs
  creating,     \* agents whose createJob handler has passed its check
  batch,        \* the batch handler: [state, todo, checked]
  pollPc,       \* progress of each poll handler
  pollIds,      \* the ids a poll handler has selected
  client,       \* what the agent service is doing
  awaited,      \* the poll whose reply the agent service awaits
  queue,        \* jobs of the last reply still to be executed
  current,      \* the job being executed or reported, 0 when none
  result,       \* progress of the handler of a job's result
  outcome,      \* what the agent observed when it executed the job
  runs,         \* how often the job was executed (history)
  delivered,    \* jobs an agent service has received (history)
  lost          \* jobs whose reply or result went missing (history)

rowVars == <<agentStatus, jobStatus, jobAgent, inBatch, nextId>>
adminVars == <<creating, batch>>
pollVars == <<pollPc, pollIds>>
clientVars == <<client, awaited, queue, current>>
runVars == <<result, outcome, runs, delivered, lost>>
vars == <<rowVars, adminVars, pollVars, clientVars, runVars>>

BatchStates == {"none", "open", "done"}

TypeOK ==
  /\ agentStatus \in [Agents -> {"active", "revoked", "deleted"}]
  /\ jobStatus \in [JobIds -> JobStatus]
  /\ jobAgent \in [JobIds -> Agents \cup {None}]
  /\ inBatch \subseteq JobIds
  /\ nextId \in 1..(MaxJobs + 1)
  /\ creating \subseteq Agents
  /\ batch \in [state : BatchStates, todo : SUBSET Agents,
                checked : Agents \cup {None}]
  /\ pollPc \in [Polls -> {"idle", "authed", "selected", "marked"}]
  /\ pollIds \in [Polls -> SUBSET JobIds]
  /\ client \in [Agents -> ClientStates]
  /\ awaited \in [Agents -> Polls \cup {None}]
  /\ queue \in [Agents -> SUBSET JobIds]
  /\ current \in [Agents -> JobIds \cup {0}]
  /\ result \in [JobIds -> {"none", "arrived", "checked"}]
  /\ outcome \in [JobIds -> Outcomes \cup {"none"}]
  /\ runs \in [JobIds -> Nat]
  /\ delivered \subseteq JobIds
  /\ lost \subseteq JobIds

Init ==
  /\ agentStatus = [a \in Agents |-> "active"]
  /\ jobStatus = [j \in JobIds |-> "absent"]
  /\ jobAgent = [j \in JobIds |-> None]
  /\ inBatch = {}
  /\ nextId = 1
  /\ creating = {}
  /\ batch = [state |-> "none", todo |-> {}, checked |-> None]
  /\ pollPc = [p \in Polls |-> "idle"]
  /\ pollIds = [p \in Polls |-> {}]
  /\ client = [a \in Agents |-> "idle"]
  /\ awaited = [a \in Agents |-> None]
  /\ queue = [a \in Agents |-> {}]
  /\ current = [a \in Agents |-> 0]
  /\ result = [j \in JobIds |-> "none"]
  /\ outcome = [j \in JobIds |-> "none"]
  /\ runs = [j \in JobIds |-> 0]
  /\ delivered = {}
  /\ lost = {}

-----------------------------------------------------------------------------
(* Rows of agent_jobs.                                                     *)

\* INSERT INTO agent_jobs ... VALUES (..., 'pending', ...).
InsertJob(a) ==
  /\ nextId \in JobIds
  /\ jobStatus' = [jobStatus EXCEPT ![nextId] = "pending"]
  /\ jobAgent' = [jobAgent EXCEPT ![nextId] = a]
  /\ nextId' = nextId + 1

SetStatus(S, from, to) ==
  jobStatus' = [j \in JobIds |->
                  IF j \in S /\ jobStatus[j] \in from THEN to ELSE jobStatus[j]]

Existing == {j \in JobIds : jobStatus[j] \notin {"absent", "deleted"}}
JobsOf(a) == {j \in Existing : jobAgent[j] = a}

\* The two branches of the cancellation queries: WHERE status IN ('pending', 'sent').
Active == {"pending", "sent"}

-----------------------------------------------------------------------------
(* Administrator handlers.                                                 *)

\* createJobService, first statement: the agent must exist and be active.
CreateCheck(a) ==
  /\ agentStatus[a] = "active"
  /\ nextId \in JobIds
  /\ creating' = creating \cup {a}
  /\ UNCHANGED <<rowVars, batch, pollVars, clientVars, runVars>>

\* createJobService, the INSERT; it fails on the foreign key when the agent
\* row was deleted after the check.
CreateInsert(a) ==
  /\ a \in creating
  /\ creating' = creating \ {a}
  /\ \/ /\ agentStatus[a] # "deleted"
        /\ InsertJob(a)
     \/ /\ agentStatus[a] = "deleted"
        /\ UNCHANGED <<jobStatus, jobAgent, nextId>>
  /\ UNCHANGED <<agentStatus, inBatch, batch, pollVars, clientVars, runVars>>

\* createBatchJobService: the batch row, then one agent after the other.
BatchStart(S) ==
  /\ batch.state = "none"
  /\ S # {}
  /\ batch' = [state |-> "open", todo |-> S, checked |-> None]
  /\ UNCHANGED <<rowVars, creating, pollVars, clientVars, runVars>>

\* One agent of the list: skipped when it is gone, not active, or (with
\* onlyOnline) not online, which depends on the clock; otherwise accepted.
BatchCheck(a) ==
  /\ batch.state = "open"
  /\ batch.checked = None
  /\ a \in batch.todo
  /\ batch' \in {[batch EXCEPT !.todo = @ \ {a}, !.checked = c] :
                   c \in {None} \cup (IF agentStatus[a] = "active" THEN {a} ELSE {})}
  /\ UNCHANGED <<rowVars, creating, pollVars, clientVars, runVars>>

\* The INSERT of the accepted agent.  A foreign key error ends the handler
\* with the agents after it untouched.
BatchInsert ==
  /\ batch.state = "open"
  /\ batch.checked # None
  /\ \/ /\ agentStatus[batch.checked] # "deleted"
        /\ InsertJob(batch.checked)
        /\ inBatch' = inBatch \cup {nextId}
        /\ batch' = [batch EXCEPT !.checked = None]
     \/ /\ agentStatus[batch.checked] = "deleted"
        /\ batch' = [state |-> "done", todo |-> {}, checked |-> None]
        /\ UNCHANGED <<jobStatus, jobAgent, nextId, inBatch>>
  /\ UNCHANGED <<agentStatus, creating, pollVars, clientVars, runVars>>

BatchEnd ==
  /\ batch.state = "open"
  /\ batch.todo = {}
  /\ batch.checked = None
  /\ batch' = [batch EXCEPT !.state = "done"]
  /\ UNCHANGED <<rowVars, creating, pollVars, clientVars, runVars>>

\* Mutant: a cancellation recorded as a failure.
CancelJobAsFailure(j) ==
  /\ jobStatus[j] \in Active
  /\ SetStatus({j}, Active, "failed")
  /\ UNCHANGED <<agentStatus, jobAgent, inBatch, nextId, adminVars, pollVars,
                 clientVars, runVars>>

\* cancelJobService.
CancelJob(j) ==
  /\ jobStatus[j] \in Active
  /\ SetStatus({j}, Active, "cancelled")
  /\ UNCHANGED <<agentStatus, jobAgent, inBatch, nextId, adminVars, pollVars,
                 clientVars, runVars>>

\* cancelBatchService; it may run while the batch is still being created.
CancelBatch ==
  /\ batch.state # "none"
  /\ SetStatus(inBatch, Active, "cancelled")
  /\ UNCHANGED <<agentStatus, jobAgent, inBatch, nextId, adminVars, pollVars,
                 clientVars, runVars>>

\* clearJobsForAgentService deletes the agent's whole history.
ClearJobs(a) ==
  /\ agentStatus[a] # "deleted"
  /\ SetStatus(JobsOf(a), JobStatus, "deleted")
  /\ UNCHANGED <<agentStatus, jobAgent, inBatch, nextId, adminVars, pollVars,
                 clientVars, runVars>>

\* revokeAgentService.  Nothing ever makes a revoked agent active again.
Revoke(a) ==
  /\ agentStatus[a] # "deleted"
  /\ agentStatus' = [agentStatus EXCEPT ![a] = "revoked"]
  /\ UNCHANGED <<jobStatus, jobAgent, inBatch, nextId, adminVars, pollVars,
                 clientVars, runVars>>

\* deleteAgentService: only a revoked agent; the foreign key cascades.
DeleteAgent(a) ==
  /\ agentStatus[a] = "revoked"
  /\ agentStatus' = [agentStatus EXCEPT ![a] = "deleted"]
  /\ SetStatus(JobsOf(a), JobStatus, "deleted")
  /\ UNCHANGED <<jobAgent, inBatch, nextId, adminVars, pollVars, clientVars,
                 runVars>>

-----------------------------------------------------------------------------
(* The poll: GET /api/agents/jobs.                                         *)

\* The agent service goes back to its loop without the reply it awaited.
StopAwaiting(a) ==
  /\ client' = [client EXCEPT ![a] = "idle"]
  /\ awaited' = [awaited EXCEPT ![a] = None]

\* The agent still waits for the reply of p.
Awaits(p) == awaited[PollAgent[p]] = p

\* DoJobsPollAsync sends the request and authenticateAgent admits it.
StartPoll(p) ==
  /\ client[PollAgent[p]] = "idle"
  /\ agentStatus[PollAgent[p]] = "active"
  /\ pollPc[p] = "idle"
  /\ pollPc' = [pollPc EXCEPT ![p] = "authed"]
  /\ client' = [client EXCEPT ![PollAgent[p]] = "polling"]
  /\ awaited' = [awaited EXCEPT ![PollAgent[p]] = p]
  /\ UNCHANGED <<rowVars, adminVars, pollIds, queue, current, runVars>>

\* authenticateAgent answers 403 unless the row says active; the agent logs
\* the error and asks again a tick later.
PollForbidden(a) ==
  /\ client[a] = "idle"
  /\ agentStatus[a] # "active"
  /\ UNCHANGED vars

\* Mutant: a handler that finds nothing never answers.
NoReply(p) ==
  /\ pollPc' = [pollPc EXCEPT ![p] = "idle"]
  /\ UNCHANGED <<client, awaited>>

\* The handler answers without any job.
ReplyEmpty(p) ==
  /\ pollPc' = [pollPc EXCEPT ![p] = "idle"]
  /\ IF Awaits(p) THEN StopAwaiting(PollAgent[p]) ELSE UNCHANGED <<client, awaited>>

\* Mutant: the SELECT filters on the agent only.
AnyFor(a) == {j \in JobIds : jobStatus[j] # "absent" /\ jobAgent[j] = a}

PendingFor(a) == {j \in JobIds : jobStatus[j] = "pending" /\ jobAgent[j] = a}

\* pollJobsService, findPendingJobsForAgent.
PollSelect(p) ==
  /\ pollPc[p] = "authed"
  /\ LET found == PendingFor(PollAgent[p])
     IN /\ pollIds' = [pollIds EXCEPT ![p] = found]
        /\ \/ /\ found = {}
              /\ ReplyEmpty(p)
           \/ /\ found # {}
              /\ pollPc' = [pollPc EXCEPT ![p] = "selected"]
              /\ UNCHANGED <<client, awaited>>
  /\ UNCHANGED <<rowVars, adminVars, queue, current, runVars>>

\* markJobsSent: the UPDATE names the ids only; whatever status such a row
\* has by now becomes 'sent'.
PollMark(p) ==
  /\ pollPc[p] = "selected"
  /\ SetStatus(pollIds[p], JobStatus \ {"deleted"}, "sent")
  /\ pollPc' = [pollPc EXCEPT ![p] = "marked"]
  /\ UNCHANGED <<agentStatus, jobAgent, inBatch, nextId, adminVars, pollIds,
                 clientVars, runVars>>

\* The reply carries the rows of the SELECT.  Nobody reads it when the agent
\* service has given up on this request.
PollReply(p) ==
  /\ pollPc[p] = "marked"
  /\ pollPc' = [pollPc EXCEPT ![p] = "idle"]
  /\ pollIds' = [pollIds EXCEPT ![p] = {}]
  /\ \/ /\ Awaits(p)
        /\ client' = [client EXCEPT ![PollAgent[p]] = "working"]
        /\ awaited' = [awaited EXCEPT ![PollAgent[p]] = None]
        /\ queue' = [queue EXCEPT ![PollAgent[p]] = pollIds[p]]
        /\ delivered' = delivered \cup pollIds[p]
        /\ UNCHANGED lost
     \/ /\ ~Awaits(p)
        /\ lost' = lost \cup pollIds[p]
        /\ UNCHANGED <<client, awaited, queue, delivered>>
  /\ UNCHANGED <<rowVars, adminVars, current, result, outcome, runs>>

\* The request fails or times out on the agent's side; the handler goes on.
PollTimeout(a) ==
  /\ client[a] = "polling"
  /\ StopAwaiting(a)
  /\ UNCHANGED <<rowVars, adminVars, pollVars, queue, current, runVars>>

-----------------------------------------------------------------------------
(* The agent service executes the jobs of one reply.                       *)

\* DoJobsPollAsync's foreach: the next job, or back to the loop.
Proceed(a) ==
  /\ client' = [client EXCEPT ![a] = IF queue[a] = {} THEN "idle" ELSE "working"]
  /\ current' = [current EXCEPT ![a] = 0]

\* Mutant: an executed job stays in the list of the reply.
ExecuteKeeping(a, j) ==
  /\ client[a] = "working"
  /\ j \in queue[a]
  /\ client' = [client EXCEPT ![a] = "executed"]
  /\ current' = [current EXCEPT ![a] = j]
  /\ runs' = [runs EXCEPT ![j] = @ + 1]
  /\ \E o \in Outcomes : outcome' = [outcome EXCEPT ![j] = o]
  /\ UNCHANGED <<rowVars, adminVars, pollVars, awaited, queue, result, delivered, lost>>

\* ProcessJobAsync up to its result.  created_at has the resolution of a
\* second, so the order within a reply is left open.
Execute(a, j) ==
  /\ client[a] = "working"
  /\ j \in queue[a]
  /\ client' = [client EXCEPT ![a] = "executed"]
  /\ queue' = [queue EXCEPT ![a] = @ \ {j}]
  /\ current' = [current EXCEPT ![a] = j]
  /\ runs' = [runs EXCEPT ![j] = @ + 1]
  /\ \E o \in Outcomes : outcome' = [outcome EXCEPT ![j] = o]
  /\ UNCHANGED <<rowVars, adminVars, pollVars, awaited, result, delivered, lost>>

\* An exception outside JobExecutor (a start_vnc_bridge payload without a
\* session id, say) leaves DoJobsPollAsync's foreach: nothing is reported and
\* the remaining jobs of the reply are dropped.
JobThrows(a, j) ==
  /\ client[a] = "working"
  /\ j \in queue[a]
  /\ client' = [client EXCEPT ![a] = "idle"]
  /\ queue' = [queue EXCEPT ![a] = {}]
  /\ lost' = lost \cup queue[a]
  /\ UNCHANGED <<rowVars, adminVars, pollVars, awaited, current, result, outcome,
                 runs, delivered>>

\* ReportJobResultAsync: the request reaches the server or is lost, in which
\* case the exception is logged and the next job is taken.
SendResult(a) ==
  /\ client[a] = "executed"
  /\ client' = [client EXCEPT ![a] = "reporting"]
  /\ result' = [result EXCEPT ![current[a]] = "arrived"]
  /\ UNCHANGED <<rowVars, adminVars, pollVars, awaited, queue, current, outcome,
                 runs, delivered, lost>>

ResultLost(a) ==
  /\ client[a] = "executed"
  /\ Proceed(a)
  /\ lost' = lost \cup {current[a]}
  /\ UNCHANGED <<rowVars, adminVars, pollVars, awaited, queue, result, outcome,
                 runs, delivered>>

\* authenticateAgent and the first half of submitJobResultService: the job
\* must exist, be the agent's and be 'sent'.
ResultCheck(j) ==
  /\ result[j] = "arrived"
  /\ \/ /\ agentStatus[jobAgent[j]] = "active"
        /\ jobStatus[j] = "sent"
        /\ result' = [result EXCEPT ![j] = "checked"]
        /\ UNCHANGED lost
     \/ /\ agentStatus[jobAgent[j]] = "active"
        /\ jobStatus[j] # "sent"
        /\ result' = [result EXCEPT ![j] = "none"]
        /\ UNCHANGED lost
     \/ /\ agentStatus[jobAgent[j]] # "active"
        /\ result' = [result EXCEPT ![j] = "none"]
        /\ lost' = lost \cup {j}
  /\ UNCHANGED <<rowVars, adminVars, pollVars, clientVars, outcome, runs, delivered>>

\* Mutant: completeJob without its status condition.
ResultCompleteUnguarded(j) ==
  /\ result[j] = "checked"
  /\ SetStatus({j}, JobStatus \ {"deleted"}, outcome[j])
  /\ result' = [result EXCEPT ![j] = "none"]
  /\ UNCHANGED <<agentStatus, jobAgent, inBatch, nextId, adminVars, pollVars,
                 clientVars, outcome, runs, delivered, lost>>

\* Mutant: completeJob expecting a row that was never handed out.
ResultCompletePending(j) ==
  /\ result[j] = "checked"
  /\ SetStatus({j}, {"pending"}, outcome[j])
  /\ result' = [result EXCEPT ![j] = "none"]
  /\ UNCHANGED <<agentStatus, jobAgent, inBatch, nextId, adminVars, pollVars,
                 clientVars, outcome, runs, delivered, lost>>

\* completeJob: UPDATE ... WHERE id = ? AND status = 'sent'.
ResultComplete(j) ==
  /\ result[j] = "checked"
  /\ SetStatus({j}, {"sent"}, outcome[j])
  /\ result' = [result EXCEPT ![j] = "none"]
  /\ UNCHANGED <<agentStatus, jobAgent, inBatch, nextId, adminVars, pollVars,
                 clientVars, outcome, runs, delivered, lost>>

\* The agent service has the answer to its report, or gives up on it.
ReportDone(a) ==
  /\ client[a] = "reporting"
  /\ result[current[a]] = "none"
  /\ Proceed(a)
  /\ UNCHANGED <<rowVars, adminVars, pollVars, awaited, queue, runVars>>

ReportTimeout(a) ==
  /\ client[a] = "reporting"
  /\ result[current[a]] # "none"
  /\ Proceed(a)
  /\ UNCHANGED <<rowVars, adminVars, pollVars, awaited, queue, runVars>>

\* The service stops or the machine restarts: received jobs are in memory only.
AgentRestart(a) ==
  /\ client[a] # "idle"
  /\ StopAwaiting(a)
  /\ queue' = [queue EXCEPT ![a] = {}]
  /\ current' = [current EXCEPT ![a] = 0]
  /\ lost' = lost \cup queue[a] \cup (IF client[a] = "executed" THEN {current[a]} ELSE {})
  /\ UNCHANGED <<rowVars, adminVars, pollVars, result, outcome, runs, delivered>>

\* The backend process restarts between two statements: every handler in
\* progress disappears and the connections of its clients break.
BackendRestart ==
  /\ \/ \E p \in Polls : pollPc[p] # "idle"
     \/ \E j \in JobIds : result[j] # "none"
     \/ creating # {}
     \/ batch.state = "open"
  /\ creating' = {}
  /\ batch' = IF batch.state = "open"
              THEN [state |-> "done", todo |-> {}, checked |-> None] ELSE batch
  /\ lost' = lost \cup {j \in JobIds : result[j] # "none"}
               \cup UNION {pollIds[p] : p \in {q \in Polls : pollPc[q] = "marked"}}
  /\ pollPc' = [p \in Polls |-> "idle"]
  /\ pollIds' = [p \in Polls |-> {}]
  /\ result' = [j \in JobIds |-> "none"]
  /\ client' = [a \in Agents |-> IF client[a] = "polling" THEN "idle" ELSE client[a]]
  /\ awaited' = [a \in Agents |-> None]
  /\ UNCHANGED <<rowVars, queue, current, outcome, runs, delivered>>

-----------------------------------------------------------------------------
AdminNext ==
  \/ \E a \in Agents : \/ CreateCheck(a) \/ CreateInsert(a) \/ BatchCheck(a)
                       \/ ClearJobs(a) \/ Revoke(a) \/ DeleteAgent(a)
  \/ \E S \in SUBSET Agents : BatchStart(S)
  \/ BatchInsert
  \/ BatchEnd
  \/ \E j \in JobIds : CancelJob(j)
  \/ CancelBatch

PollNext ==
  \E p \in Polls : StartPoll(p) \/ PollSelect(p) \/ PollMark(p) \/ PollReply(p)

AgentNext ==
  \/ \E a \in Agents : \/ PollForbidden(a) \/ PollTimeout(a) \/ SendResult(a) \/ ResultLost(a)
                       \/ ReportDone(a) \/ ReportTimeout(a) \/ AgentRestart(a)
                       \/ \E j \in JobIds : Execute(a, j) \/ JobThrows(a, j)
  \/ \E j \in JobIds : ResultCheck(j) \/ ResultComplete(j)
  \/ BackendRestart

Next == AdminNext \/ PollNext \/ AgentNext

\* A started handler is answered by the database, and the agent service's loop
\* keeps polling, executing and reporting.  Timeouts, losses, restarts and the
\* administrator's actions may or may not happen; the backend restarts only
\* finitely often.
Fairness ==
  /\ \A p \in Polls : /\ WF_vars(PollSelect(p))
                      /\ WF_vars(PollMark(p))
                      /\ WF_vars(PollReply(p))
  /\ \A a \in Agents : /\ WF_vars(\E p \in Polls : PollAgent[p] = a /\ StartPoll(p))
                       /\ WF_vars(\E j \in JobIds : Execute(a, j))
                       /\ WF_vars(SendResult(a))
                       /\ WF_vars(ReportDone(a))
  /\ \A j \in JobIds : WF_vars(ResultCheck(j)) /\ WF_vars(ResultComplete(j))
  /\ <>[][~BackendRestart]_vars

Spec == Init /\ [][Next]_vars /\ Fairness

-----------------------------------------------------------------------------
(* What the queue guarantees.                                              *)

\* A command is executed at most once, whatever requests time out, overlap
\* or are repeated: the row is marked before the reply is sent, no row ever
\* becomes pending again, and an agent reads only the reply it awaits.
AtMostOnce == \A j \in JobIds : runs[j] <= 1

\* A row says completed or failed only if the agent executed the job and
\* observed exactly that outcome.
RecordedOutcomeIsReal ==
  \A j \in JobIds : jobStatus[j] \in Outcomes => runs[j] = 1 /\ outcome[j] = jobStatus[j]

\* A poll whose agent still waits for the reply never marks a job that is
\* already finished: the unguarded UPDATE of markJobsSent can reopen a
\* completed row only through a poll its agent has abandoned.
LivePollHoldsNoFinishedJob ==
  \A p \in Polls : \A j \in pollIds[p] :
    pollPc[p] = "selected" /\ Awaits(p) => jobStatus[j] \notin Outcomes

\* The result of a command never overwrites a cancellation, even when the
\* cancellation falls between the two statements of submitJobResultService.
ResultNeverOverwritesCancel ==
  [][\A j \in JobIds : jobStatus[j] = "cancelled" => jobStatus'[j] \notin Outcomes]_vars

\* A cancellation that reaches the row before any poll has selected it keeps
\* the command from ever being executed.
EarlyCancelIsEffective ==
  \A j \in JobIds :
    [](/\ jobStatus[j] = "cancelled"
       /\ j \notin delivered
       /\ \A p \in Polls : j \notin pollIds[p]
       => [](runs[j] = 0))

\* The agent's polling picks up every waiting job of an active agent.
PendingIsPickedUp ==
  \A j \in JobIds :
    jobStatus[j] = "pending" ~> \/ jobStatus[j] # "pending"
                                \/ agentStatus[jobAgent[j]] # "active"

\* A job stays in 'sent' forever only when its reply or its result was lost:
\* nothing in the backend retries or expires it.
SentIsResolvedOrLost ==
  \A j \in JobIds : jobStatus[j] = "sent" ~> jobStatus[j] # "sent" \/ j \in lost

\* The queue implements what a command queue promises.
Queue == INSTANCE CommandQueue WITH
           Commands <- JobIds,
           submitted <- {j \in JobIds : jobStatus[j] # "absent"},
           handed <- delivered,
           executions <- runs
ImplementsCommandQueue == Queue!CQSpec

\* agentJobs.repo.js says of a cancellation that it "prevents a later result
\* from overwriting the status" and that "the status stays 'cancelled'".
CancelledStaysCancelled ==
  [][\A j \in JobIds : jobStatus[j] = "cancelled" => jobStatus'[j] \in {"cancelled", "deleted"}]_vars
=============================================================================
