-------------------------- MODULE AgentJobsProofs --------------------------
(***************************************************************************)
(* Proofs about AgentJobs for every set of agents, every number of jobs    *)
(* and every number of poll handlers in progress.                          *)
(***************************************************************************)
EXTENDS AgentJobs, TLAPS

-----------------------------------------------------------------------------
(* The inductive invariant.                                                *)

\* Ids are handed out in order and never used twice.
IdsInOrder == \A j \in JobIds : jobStatus[j] = "absent" <=> j >= nextId

\* A poll holds rows only between its SELECT and its reply, and only rows of
\* its own agent; once it has marked them none of them is pending.
PollsHoldOwnRows ==
  \A p \in Polls :
    /\ pollPc[p] \notin {"selected", "marked"} => pollIds[p] = {}
    /\ \A j \in pollIds[p] :
         /\ jobStatus[j] # "absent"
         /\ jobAgent[j] = PollAgent[p]
         /\ pollPc[p] = "marked" => jobStatus[j] # "pending"

\* A row an agent has received is never pending again.
DeliveredIsNotPending ==
  \A j \in delivered : jobStatus[j] \notin {"absent", "pending"}

\* The reply an agent still waits for contains nothing it already has.
AwaitedReplyIsNew ==
  \A p \in Polls : Awaits(p) => pollIds[p] \cap delivered = {}

\* Every job of an agent's list was delivered to it and not executed yet.
QueueIsFresh ==
  \A a \in Agents : \A j \in queue[a] :
    j \in delivered /\ jobAgent[j] = a /\ runs[j] = 0

\* Execution follows delivery, happens at most once and has an outcome.
RunsAreReal ==
  \A j \in JobIds :
    /\ runs[j] \in {0, 1}
    /\ runs[j] = 1 => j \in delivered /\ outcome[j] \in Outcomes

\* Only an executed job is reported, and only a reported one is recorded.
ReportsAreReal ==
  /\ \A a \in Agents : client[a] \in {"executed", "reporting"} =>
       current[a] \in JobIds /\ runs[current[a]] = 1
  /\ \A j \in JobIds : result[j] # "none" => runs[j] = 1
  /\ \A j \in JobIds : jobStatus[j] \in Outcomes =>
       runs[j] = 1 /\ outcome[j] = jobStatus[j]

IInv ==
  /\ TypeOK
  /\ IdsInOrder
  /\ PollsHoldOwnRows
  /\ DeliveredIsNotPending
  /\ AwaitedReplyIsNew
  /\ QueueIsFresh
  /\ RunsAreReal
  /\ ReportsAreReal

-----------------------------------------------------------------------------
LEMMA InitTypeOK == Init => TypeOK
  BY JobsAssumption DEF Init, TypeOK, JobIds, JobStatus, Outcomes, ClientStates, BatchStates

\* Every step keeps every variable in its type; that a report names a job and
\* carries an outcome is needed for it.
LEMMA NextTypeOK == TypeOK /\ RunsAreReal /\ ReportsAreReal /\ [Next]_vars => TypeOK'
<1> SUFFICES ASSUME TypeOK, RunsAreReal, ReportsAreReal, [Next]_vars PROVE TypeOK'
  OBVIOUS
<1> USE JobsAssumption DEF TypeOK, JobStatus, Outcomes, ClientStates, BatchStates,
      vars, rowVars, adminVars, pollVars, clientVars, runVars
<1>1. CASE UNCHANGED vars
  BY <1>1
<1>2. ASSUME NEW a \in Agents, CreateCheck(a) PROVE TypeOK'
  BY <1>2 DEF CreateCheck
<1>3. ASSUME NEW a \in Agents, CreateInsert(a) PROVE TypeOK'
  <2>1. nextId \in JobIds => nextId + 1 \in 1..(MaxJobs + 1)
    BY DEF JobIds
  <2>2. CASE InsertJob(a)
    BY <1>3, <2>1, <2>2 DEF CreateInsert, InsertJob
  <2>3. CASE UNCHANGED <<jobStatus, jobAgent, nextId>>
    BY <1>3, <2>3 DEF CreateInsert
  <2> QED
    BY <1>3, <2>2, <2>3 DEF CreateInsert
<1>4. ASSUME NEW a \in Agents, BatchCheck(a) PROVE TypeOK'
  <2>1. PICK c \in Agents \cup {None} :
               batch' = [batch EXCEPT !.todo = batch.todo \ {a}, !.checked = c]
    <3>1. PICK c \in {None} \cup (IF agentStatus[a] = "active" THEN {a} ELSE {}) :
                 batch' = [batch EXCEPT !.todo = batch.todo \ {a}, !.checked = c]
      BY <1>4, Zenon DEF BatchCheck
    <3> QED
      BY <3>1
  <2>2. batch' \in [state : BatchStates, todo : SUBSET Agents, checked : Agents \cup {None}]
    BY <2>1
  <2> QED
    BY <1>4, <2>2 DEF BatchCheck
<1>5. ASSUME NEW a \in Agents, ClearJobs(a) PROVE TypeOK'
  BY <1>5 DEF ClearJobs, SetStatus
<1>6. ASSUME NEW a \in Agents, Revoke(a) PROVE TypeOK'
  BY <1>6 DEF Revoke
<1>7. ASSUME NEW a \in Agents, DeleteAgent(a) PROVE TypeOK'
  BY <1>7 DEF DeleteAgent, SetStatus
<1>8. ASSUME NEW S \in SUBSET Agents, BatchStart(S) PROVE TypeOK'
  BY <1>8 DEF BatchStart
<1>9. CASE BatchInsert
  <2>1. nextId \in JobIds => nextId + 1 \in 1..(MaxJobs + 1)
    BY DEF JobIds
  <2>2. batch.checked \in Agents
    BY <1>9 DEF BatchInsert
  <2>3. batch' \in [state : BatchStates, todo : SUBSET Agents, checked : Agents \cup {None}]
    BY <1>9 DEF BatchInsert
  <2>4. CASE InsertJob(batch.checked) /\ inBatch' = inBatch \cup {nextId}
    BY <1>9, <2>1, <2>2, <2>3, <2>4 DEF BatchInsert, InsertJob
  <2>5. CASE UNCHANGED <<jobStatus, jobAgent, nextId, inBatch>>
    BY <1>9, <2>3, <2>5 DEF BatchInsert
  <2> QED
    BY <1>9, <2>4, <2>5 DEF BatchInsert
<1>10. CASE BatchEnd
  BY <1>10 DEF BatchEnd
<1>11. ASSUME NEW j \in JobIds, CancelJob(j) PROVE TypeOK'
  BY <1>11 DEF CancelJob, SetStatus
<1>12. CASE CancelBatch
  BY <1>12 DEF CancelBatch, SetStatus
<1>13. ASSUME NEW p \in Polls, StartPoll(p) PROVE TypeOK'
  BY <1>13 DEF StartPoll
<1>14. ASSUME NEW p \in Polls, PollSelect(p) PROVE TypeOK'
  <2>1. pollIds' \in [Polls -> SUBSET JobIds]
    BY <1>14 DEF PollSelect, PendingFor
  <2>2. pollPc' \in [Polls -> {"idle", "authed", "selected", "marked"}]
    BY <1>14 DEF PollSelect, ReplyEmpty
  <2>3. client' \in [Agents -> ClientStates] /\ awaited' \in [Agents -> Polls \cup {None}]
    <3>1. \/ /\ client' = [client EXCEPT ![PollAgent[p]] = "idle"]
             /\ awaited' = [awaited EXCEPT ![PollAgent[p]] = None]
          \/ client' = client /\ awaited' = awaited
      BY <1>14 DEF PollSelect, ReplyEmpty, StopAwaiting
    <3>2. client \in [Agents -> ClientStates] /\ awaited \in [Agents -> Polls \cup {None}] /\ "idle" \in ClientStates
      OBVIOUS
    <3> QED
      BY ONLY <3>1, <3>2
  <2> QED
    BY <1>14, <2>1, <2>2, <2>3 DEF PollSelect
<1>15. ASSUME NEW p \in Polls, PollMark(p) PROVE TypeOK'
  BY <1>15 DEF PollMark, SetStatus
<1>16. ASSUME NEW p \in Polls, PollReply(p) PROVE TypeOK'
  <2>1. pollPc' \in [Polls -> {"idle", "authed", "selected", "marked"}] /\ pollIds' \in [Polls -> SUBSET JobIds]
    BY <1>16 DEF PollReply
  <2>2. client' \in [Agents -> ClientStates] /\ awaited' \in [Agents -> Polls \cup {None}]
    <3>1. \/ /\ client' = [client EXCEPT ![PollAgent[p]] = "working"]
             /\ awaited' = [awaited EXCEPT ![PollAgent[p]] = None]
          \/ client' = client /\ awaited' = awaited
      BY <1>16 DEF PollReply
    <3>2. client \in [Agents -> ClientStates] /\ awaited \in [Agents -> Polls \cup {None}] /\ "working" \in ClientStates
      OBVIOUS
    <3> QED
      BY ONLY <3>1, <3>2
  <2>3. queue' \in [Agents -> SUBSET JobIds] /\ delivered' \subseteq JobIds /\ lost' \subseteq JobIds
    <3>1. \/ /\ queue' = [queue EXCEPT ![PollAgent[p]] = pollIds[p]]
             /\ delivered' = delivered \cup pollIds[p] /\ lost' = lost
          \/ queue' = queue /\ delivered' = delivered /\ lost' = lost \cup pollIds[p]
      BY <1>16 DEF PollReply
    <3>2. queue \in [Agents -> SUBSET JobIds] /\ pollIds[p] \in SUBSET JobIds /\ delivered \subseteq JobIds /\ lost \subseteq JobIds
      OBVIOUS
    <3> QED
      BY ONLY <3>1, <3>2
  <2> QED
    BY <1>16, <2>1, <2>2, <2>3 DEF PollReply
<1>17. ASSUME NEW a \in Agents, PollTimeout(a) PROVE TypeOK'
  BY <1>17 DEF PollTimeout, StopAwaiting
<1>18. ASSUME NEW a \in Agents, SendResult(a) PROVE TypeOK'
  BY <1>18 DEF SendResult
<1>19. ASSUME NEW a \in Agents, ResultLost(a) PROVE TypeOK'
  <2>1. current[a] \in JobIds
    BY <1>19 DEF ResultLost, ReportsAreReal
  <2> QED
    BY <1>19, <2>1 DEF ResultLost, Proceed
<1>20. ASSUME NEW a \in Agents, ReportDone(a) \/ ReportTimeout(a) PROVE TypeOK'
  <2>1. client' \in [Agents -> ClientStates] /\ current' \in [Agents -> JobIds \cup {0}]
    <3>1. /\ client' = [client EXCEPT ![a] = IF queue[a] = {} THEN "idle" ELSE "working"]
          /\ current' = [current EXCEPT ![a] = 0]
      BY <1>20 DEF ReportDone, ReportTimeout, Proceed
    <3>2. client \in [Agents -> ClientStates] /\ current \in [Agents -> JobIds \cup {0}]
          /\ (IF queue[a] = {} THEN "idle" ELSE "working") \in ClientStates
      OBVIOUS
    <3> QED
      BY ONLY <3>1, <3>2
  <2> QED
    BY <1>20, <2>1 DEF ReportDone, ReportTimeout
<1>21. ASSUME NEW a \in Agents, AgentRestart(a) PROVE TypeOK'
  <2>1. lost' \subseteq JobIds
    BY <1>21 DEF AgentRestart, ReportsAreReal
  <2> QED
    BY <1>21, <2>1 DEF AgentRestart, StopAwaiting
<1>22. ASSUME NEW a \in Agents, NEW j \in JobIds, Execute(a, j) PROVE TypeOK'
  BY <1>22 DEF Execute
<1>23. ASSUME NEW j \in JobIds, ResultCheck(j) PROVE TypeOK'
  BY <1>23 DEF ResultCheck
<1>24. ASSUME NEW j \in JobIds, ResultComplete(j) PROVE TypeOK'
  <2>1. outcome[j] \in Outcomes
    BY <1>24 DEF ResultComplete, RunsAreReal, ReportsAreReal
  <2> QED
    BY <1>24, <2>1 DEF ResultComplete, SetStatus
<1>25. CASE BackendRestart
  BY <1>25 DEF BackendRestart
<1>26. ASSUME NEW a \in Agents, PollForbidden(a) PROVE TypeOK'
  BY <1>26 DEF PollForbidden
<1>27. ASSUME NEW a \in Agents, NEW j \in JobIds, JobThrows(a, j) PROVE TypeOK'
  BY <1>27 DEF JobThrows
<1> HIDE DEF TypeOK, vars
<1> QED
  BY <1>1, <1>2, <1>3, <1>4, <1>5, <1>6, <1>7, <1>8, <1>9, <1>10, <1>11, <1>12, <1>13,
     <1>14, <1>15, <1>16, <1>17, <1>18, <1>19, <1>20, <1>21, <1>22, <1>23, <1>24, <1>25,
     <1>26, <1>27 DEF Next, AdminNext, PollNext, AgentNext

-----------------------------------------------------------------------------
LEMMA InitIInv == Init => IInv
<1> SUFFICES ASSUME Init PROVE IInv
  OBVIOUS
<1>1. TypeOK
  BY InitTypeOK
<1> QED
  BY <1>1 DEF Init, IInv, IdsInOrder, PollsHoldOwnRows, DeliveredIsNotPending,
     AwaitedReplyIsNew, QueueIsFresh, RunsAreReal, ReportsAreReal, JobIds, Outcomes,
     JobsAssumption

\* An inserted row is new: nobody holds, awaits or has executed it.
LEMMA InsertIInv ==
  ASSUME IInv, NEW a \in Agents, InsertJob(a), TypeOK',
         UNCHANGED <<pollVars, clientVars, runVars>>
  PROVE  IInv'
<1> USE DEF pollVars, clientVars, runVars
<1>1. /\ nextId \in JobIds /\ jobStatus[nextId] = "absent"
      /\ nextId' = nextId + 1
      /\ \A j \in JobIds : j # nextId => /\ jobStatus'[j] = jobStatus[j]
                                        /\ jobAgent'[j] = jobAgent[j]
      /\ jobStatus'[nextId] = "pending"
  BY DEF InsertJob, IInv, TypeOK, IdsInOrder, JobIds
<1>2. IdsInOrder'
  BY <1>1 DEF IInv, IdsInOrder, JobIds
<1>3. PollsHoldOwnRows'
  <2>1. \A p \in Polls : nextId \notin pollIds[p]
    BY <1>1 DEF IInv, PollsHoldOwnRows
  <2> QED
    BY <1>1, <2>1 DEF IInv, PollsHoldOwnRows, TypeOK
<1>4. DeliveredIsNotPending' /\ nextId \notin delivered
  BY <1>1 DEF IInv, DeliveredIsNotPending, TypeOK
<1>5. AwaitedReplyIsNew' /\ RunsAreReal'
  BY DEF IInv, AwaitedReplyIsNew, RunsAreReal, Awaits
<1>6. QueueIsFresh'
  BY <1>1, <1>4 DEF IInv, QueueIsFresh, TypeOK
<1>7. ReportsAreReal'
  BY <1>1 DEF IInv, ReportsAreReal, Outcomes
<1> QED
  BY <1>2, <1>3, <1>4, <1>5, <1>6, <1>7 DEF IInv

\* Rows may be cancelled or deleted at any time.
LEMMA WithdrawIInv ==
  ASSUME IInv, TypeOK', UNCHANGED <<jobAgent, nextId, pollVars, clientVars, runVars>>,
         \A j \in JobIds : \/ jobStatus'[j] = jobStatus[j]
                          \/ /\ jobStatus[j] # "absent"
                             /\ jobStatus'[j] \in {"cancelled", "deleted"}
  PROVE  IInv'
<1> USE DEF pollVars, clientVars, runVars
<1>1. IdsInOrder'
  BY DEF IInv, IdsInOrder
<1>2. PollsHoldOwnRows'
  <2>1. \A p \in Polls : pollIds[p] \subseteq JobIds
    BY DEF IInv, TypeOK
  <2> QED
    BY <2>1 DEF IInv, PollsHoldOwnRows
<1>3. DeliveredIsNotPending'
  BY DEF IInv, DeliveredIsNotPending, TypeOK
<1>4. AwaitedReplyIsNew' /\ RunsAreReal' /\ QueueIsFresh'
  BY DEF IInv, AwaitedReplyIsNew, RunsAreReal, QueueIsFresh, Awaits
<1>5. ReportsAreReal'
  BY DEF IInv, ReportsAreReal, Outcomes
<1> QED
  BY <1>1, <1>2, <1>3, <1>4, <1>5 DEF IInv

\* The administrator's handlers keep the invariant.
LEMMA AdminIInv == IInv /\ AdminNext /\ TypeOK' => IInv'
<1> SUFFICES ASSUME IInv, AdminNext, TypeOK' PROVE IInv'
  OBVIOUS
<1> USE DEF rowVars, adminVars
<1>1. ASSUME UNCHANGED <<jobStatus, jobAgent, nextId, pollVars, clientVars, runVars>>
      PROVE  IInv'
  BY <1>1, WithdrawIInv
<1>2. ASSUME NEW a \in Agents, CreateCheck(a) \/ BatchCheck(a) \/ Revoke(a) PROVE IInv'
  BY <1>1, <1>2 DEF CreateCheck, BatchCheck, Revoke
<1>3. ASSUME NEW S \in SUBSET Agents, BatchStart(S) PROVE IInv'
  BY <1>1, <1>3 DEF BatchStart
<1>4. CASE BatchEnd
  BY <1>1, <1>4 DEF BatchEnd
<1>5. ASSUME NEW a \in Agents, CreateInsert(a) PROVE IInv'
  BY <1>1, <1>5, InsertIInv DEF CreateInsert
<1>6. CASE BatchInsert
  <2>1. batch.checked \in Agents
    BY <1>6 DEF BatchInsert, IInv, TypeOK
  <2> QED
    BY <1>1, <1>6, <2>1, InsertIInv DEF BatchInsert
<1>7. ASSUME NEW a \in Agents, ClearJobs(a) PROVE IInv'
  BY <1>7, WithdrawIInv DEF ClearJobs, SetStatus, JobsOf, Existing
<1>8. ASSUME NEW a \in Agents, DeleteAgent(a) PROVE IInv'
  BY <1>8, WithdrawIInv DEF DeleteAgent, SetStatus, JobsOf, Existing
<1>9. ASSUME NEW j \in JobIds, CancelJob(j) PROVE IInv'
  BY <1>9, WithdrawIInv DEF CancelJob, SetStatus, Active
<1>10. CASE CancelBatch
  BY <1>10, WithdrawIInv DEF CancelBatch, SetStatus, Active
<1> QED
  BY <1>2, <1>3, <1>4, <1>5, <1>6, <1>7, <1>8, <1>9, <1>10 DEF AdminNext

\* The steps of a poll keep the invariant.
LEMMA PollIInv == IInv /\ PollNext /\ TypeOK' => IInv'
<1> SUFFICES ASSUME IInv, TypeOK', NEW p \in Polls,
                    StartPoll(p) \/ PollSelect(p) \/ PollMark(p) \/ PollReply(p)
             PROVE  IInv'
  BY DEF PollNext
<1> USE JobsAssumption DEF rowVars, adminVars, pollVars, clientVars, runVars
<1>1. CASE StartPoll(p)
  <2>1. PollsHoldOwnRows' /\ IdsInOrder' /\ DeliveredIsNotPending'
    BY <1>1 DEF StartPoll, IInv, TypeOK, PollsHoldOwnRows, IdsInOrder, DeliveredIsNotPending
  <2>2. AwaitedReplyIsNew'
    <3>1. pollIds[p] = {} /\ pollIds' = pollIds /\ delivered' = delivered
      BY <1>1 DEF StartPoll, IInv, PollsHoldOwnRows
    <3>2. awaited' = [awaited EXCEPT ![PollAgent[p]] = p] /\ awaited \in [Agents -> Polls \cup {None}]
      BY <1>1 DEF StartPoll, IInv, TypeOK
    <3>3. \A q \in Polls \ {p} : Awaits(q)' => Awaits(q)
      BY <3>2 DEF Awaits
    <3> QED
      BY <3>1, <3>3 DEF IInv, AwaitedReplyIsNew
  <2>3. QueueIsFresh' /\ RunsAreReal' /\ ReportsAreReal'
    BY <1>1 DEF StartPoll, IInv, TypeOK, QueueIsFresh, RunsAreReal, ReportsAreReal
  <2> QED
    BY <2>1, <2>2, <2>3 DEF IInv
<1>2. CASE PollSelect(p)
  <2>1. IdsInOrder' /\ DeliveredIsNotPending' /\ QueueIsFresh' /\ RunsAreReal'
    BY <1>2 DEF PollSelect, IInv, IdsInOrder, DeliveredIsNotPending, QueueIsFresh, RunsAreReal
  <2>2. PollsHoldOwnRows'
    BY <1>2 DEF PollSelect, ReplyEmpty, PendingFor, IInv, TypeOK, PollsHoldOwnRows
  <2>3. PendingFor(PollAgent[p]) \cap delivered = {}
    BY DEF PendingFor, IInv, DeliveredIsNotPending
  <2>4. \A q \in Polls : Awaits(q)' => Awaits(q)
    BY <1>2 DEF PollSelect, ReplyEmpty, StopAwaiting, Awaits, IInv, TypeOK
  <2>5. AwaitedReplyIsNew'
    BY <1>2, <2>3, <2>4 DEF PollSelect, IInv, TypeOK, AwaitedReplyIsNew
  <2>6. ReportsAreReal'
    BY <1>2 DEF PollSelect, ReplyEmpty, StopAwaiting, IInv, TypeOK, ReportsAreReal
  <2> QED
    BY <2>1, <2>2, <2>5, <2>6 DEF IInv
<1>3. CASE PollMark(p)
  <2>1. \A j \in JobIds : jobStatus'[j] = jobStatus[j] \/
                           (j \in pollIds[p] /\ jobStatus'[j] = "sent")
    BY <1>3 DEF PollMark, SetStatus
  <2>2. \A j \in pollIds[p] : jobStatus[j] # "absent" /\ jobStatus'[j] # "pending"
    BY <1>3 DEF PollMark, SetStatus, IInv, TypeOK, PollsHoldOwnRows, JobStatus
  <2>3. IdsInOrder'
    BY <1>3, <2>1, <2>2 DEF PollMark, IInv, IdsInOrder
  <2>4. PollsHoldOwnRows'
    BY <1>3, <2>1, <2>2 DEF PollMark, IInv, TypeOK, PollsHoldOwnRows
  <2>5. DeliveredIsNotPending'
    BY <1>3, <2>1, <2>2 DEF PollMark, IInv, TypeOK, DeliveredIsNotPending
  <2>6. AwaitedReplyIsNew' /\ QueueIsFresh' /\ RunsAreReal'
    BY <1>3 DEF PollMark, IInv, AwaitedReplyIsNew, Awaits, QueueIsFresh, RunsAreReal
  <2>7. ReportsAreReal'
    BY <1>3, <2>1 DEF PollMark, IInv, ReportsAreReal, Outcomes
  <2> QED
    BY <2>3, <2>4, <2>5, <2>6, <2>7 DEF IInv
<1>4. CASE PollReply(p)
  <2>1. IdsInOrder' /\ PollsHoldOwnRows'
    BY <1>4 DEF PollReply, IInv, TypeOK, IdsInOrder, PollsHoldOwnRows
  <2>2. DeliveredIsNotPending'
    BY <1>4 DEF PollReply, IInv, TypeOK, PollsHoldOwnRows, DeliveredIsNotPending
  <2>3. \A q \in Polls : awaited'[PollAgent[q]] = q =>
                           Awaits(q) /\ (PollAgent[q] # PollAgent[p] \/ ~Awaits(p))
    BY <1>4 DEF PollReply, Awaits, IInv, TypeOK
  <2>4. AwaitedReplyIsNew'
    <3> SUFFICES ASSUME NEW q \in Polls, awaited'[PollAgent[q]] = q
                 PROVE  pollIds'[q] \cap delivered' = {}
      BY DEF AwaitedReplyIsNew, Awaits
    <3>0. Awaits(q) /\ (PollAgent[q] # PollAgent[p] \/ ~Awaits(p))
      BY <2>3
    <3>1. pollIds[q] \cap delivered = {}
      BY <3>0 DEF IInv, AwaitedReplyIsNew
    <3>2. pollIds'[q] \subseteq pollIds[q]
      BY <1>4 DEF PollReply, IInv, TypeOK
    <3>3. CASE ~Awaits(p)
      BY <1>4, <3>1, <3>2, <3>3 DEF PollReply
    <3>4. CASE Awaits(p)
      <4>1. PollAgent[q] # PollAgent[p]
        BY <3>0, <3>4
      <4>2. pollIds[q] \cap pollIds[p] = {}
        BY <4>1 DEF IInv, PollsHoldOwnRows
      <4> QED
        BY <1>4, <3>1, <3>2, <3>4, <4>2 DEF PollReply
    <3> QED
      BY <3>3, <3>4
  <2>5. \A j \in pollIds[p] : Awaits(p) => runs[j] = 0
    BY DEF IInv, TypeOK, AwaitedReplyIsNew, RunsAreReal
  <2>6. QueueIsFresh'
    BY <1>4, <2>5 DEF PollReply, IInv, TypeOK, QueueIsFresh, PollsHoldOwnRows
  <2>7. RunsAreReal' /\ ReportsAreReal'
    BY <1>4 DEF PollReply, IInv, TypeOK, RunsAreReal, ReportsAreReal
  <2> QED
    BY <2>1, <2>2, <2>4, <2>6, <2>7 DEF IInv
<1> QED
  BY <1>1, <1>2, <1>3, <1>4

\* The steps of the agent service, of the result handler and a restart of the
\* backend keep the invariant.
LEMMA AgentIInv == IInv /\ AgentNext /\ TypeOK' => IInv'
<1> SUFFICES ASSUME IInv, AgentNext, TypeOK' PROVE IInv'
  OBVIOUS
<1> USE JobsAssumption DEF rowVars, adminVars, pollVars, clientVars, runVars
<1>1. ASSUME UNCHANGED <<jobStatus, jobAgent, nextId, delivered, runs, outcome>>,
             \A p \in Polls : \/ pollPc'[p] = pollPc[p] /\ pollIds'[p] = pollIds[p]
                              \/ pollPc'[p] = "idle" /\ pollIds'[p] = {},
             \A p \in Polls : awaited'[PollAgent[p]] = p => awaited[PollAgent[p]] = p,
             \A a \in Agents : queue'[a] \subseteq queue[a],
             ReportsAreReal'
      PROVE  IInv'
  <2>1. IdsInOrder' /\ DeliveredIsNotPending' /\ RunsAreReal' /\ QueueIsFresh'
    BY <1>1 DEF IInv, IdsInOrder, DeliveredIsNotPending, RunsAreReal, QueueIsFresh
  <2>2. PollsHoldOwnRows'
    BY <1>1 DEF IInv, PollsHoldOwnRows
  <2>3. AwaitedReplyIsNew'
    BY <1>1 DEF IInv, AwaitedReplyIsNew, Awaits
  <2> QED
    BY <1>1, <2>1, <2>2, <2>3 DEF IInv
<1>2. ASSUME NEW a \in Agents, PollForbidden(a) PROVE IInv'
  BY <1>2, WithdrawIInv DEF PollForbidden, vars
<1>3. ASSUME NEW a \in Agents, PollTimeout(a) PROVE IInv'
  <2>1. ReportsAreReal'
    BY <1>3 DEF PollTimeout, StopAwaiting, IInv, TypeOK, ReportsAreReal
  <2>2. \A p \in Polls : awaited'[PollAgent[p]] = p => awaited[PollAgent[p]] = p
    BY <1>3 DEF PollTimeout, StopAwaiting, IInv, TypeOK
  <2> QED
    BY <1>1, <1>3, <2>1, <2>2 DEF PollTimeout
<1>4. ASSUME NEW a \in Agents, SendResult(a) PROVE IInv'
  <2>1. ReportsAreReal'
    BY <1>4 DEF SendResult, IInv, TypeOK, ReportsAreReal
  <2> QED
    BY <1>1, <1>4, <2>1 DEF SendResult
<1>5. ASSUME NEW a \in Agents, ResultLost(a) \/ ReportDone(a) \/ ReportTimeout(a) PROVE IInv'
  <2>1. ReportsAreReal'
    BY <1>5 DEF ResultLost, ReportDone, ReportTimeout, Proceed, IInv, TypeOK, ReportsAreReal
  <2> QED
    BY <1>1, <1>5, <2>1 DEF ResultLost, ReportDone, ReportTimeout
<1>6. ASSUME NEW a \in Agents, AgentRestart(a) PROVE IInv'
  <2>1. ReportsAreReal'
    BY <1>6 DEF AgentRestart, StopAwaiting, IInv, TypeOK, ReportsAreReal
  <2>2. \A p \in Polls : awaited'[PollAgent[p]] = p => awaited[PollAgent[p]] = p
    BY <1>6 DEF AgentRestart, StopAwaiting, IInv, TypeOK
  <2>3. \A b \in Agents : queue'[b] \subseteq queue[b]
    BY <1>6 DEF AgentRestart, IInv, TypeOK
  <2> QED
    BY <1>1, <1>6, <2>1, <2>2, <2>3 DEF AgentRestart
<1>7. ASSUME NEW a \in Agents, NEW j \in JobIds, Execute(a, j) PROVE IInv'
  <2>1. /\ j \in delivered /\ jobAgent[j] = a /\ runs[j] = 0
        /\ jobStatus[j] \notin Outcomes /\ result[j] = "none"
    BY <1>7 DEF Execute, IInv, QueueIsFresh, ReportsAreReal, TypeOK
  <2>2. /\ runs' = [runs EXCEPT ![j] = 1]
        /\ outcome'[j] \in Outcomes
        /\ \A k \in JobIds : k # j => outcome'[k] = outcome[k]
    BY <1>7, <2>1 DEF Execute, IInv, TypeOK
  <2>3. IdsInOrder' /\ PollsHoldOwnRows' /\ DeliveredIsNotPending' /\ AwaitedReplyIsNew'
    BY <1>7 DEF Execute, IInv, IdsInOrder, PollsHoldOwnRows, DeliveredIsNotPending,
       AwaitedReplyIsNew, Awaits
  <2>4. QueueIsFresh'
    <3> SUFFICES ASSUME NEW b \in Agents, NEW k \in queue'[b]
                 PROVE  k \in delivered /\ jobAgent[k] = b /\ runs'[k] = 0
      BY <1>7 DEF Execute, QueueIsFresh
    <3>1. k \in queue[b] /\ (b = a => k # j) /\ k \in JobIds
      BY <1>7 DEF Execute, IInv, TypeOK
    <3> QED
      BY <2>1, <2>2, <3>1 DEF IInv, TypeOK, QueueIsFresh
  <2>5. RunsAreReal'
    BY <1>7, <2>1, <2>2 DEF Execute, IInv, TypeOK, RunsAreReal
  <2>6. ReportsAreReal'
    BY <1>7, <2>1, <2>2 DEF Execute, IInv, TypeOK, ReportsAreReal
  <2> QED
    BY <2>3, <2>4, <2>5, <2>6 DEF IInv
<1>8. ASSUME NEW j \in JobIds, ResultCheck(j) PROVE IInv'
  <2>1. ReportsAreReal'
    BY <1>8 DEF ResultCheck, IInv, TypeOK, ReportsAreReal
  <2> QED
    BY <1>1, <1>8, <2>1 DEF ResultCheck
<1>9. ASSUME NEW j \in JobIds, ResultComplete(j) PROVE IInv'
  <2>1. runs[j] = 1 /\ outcome[j] \in Outcomes /\ j \in delivered
    BY <1>9 DEF ResultComplete, IInv, ReportsAreReal, RunsAreReal
  <2>2. \A k \in JobIds : jobStatus'[k] = jobStatus[k] \/
                           (k = j /\ jobStatus[k] = "sent" /\ jobStatus'[k] = outcome[j])
    BY <1>9 DEF ResultComplete, SetStatus
  <2>3. IdsInOrder' /\ DeliveredIsNotPending' /\ PollsHoldOwnRows'
    BY <1>9, <2>1, <2>2 DEF ResultComplete, IInv, TypeOK, IdsInOrder, DeliveredIsNotPending,
       PollsHoldOwnRows, Outcomes
  <2>4. AwaitedReplyIsNew' /\ QueueIsFresh' /\ RunsAreReal'
    BY <1>9 DEF ResultComplete, IInv, AwaitedReplyIsNew, Awaits, QueueIsFresh, RunsAreReal
  <2>5. ReportsAreReal'
    BY <1>9, <2>1, <2>2 DEF ResultComplete, IInv, TypeOK, ReportsAreReal
  <2> QED
    BY <2>3, <2>4, <2>5 DEF IInv
<1>10. CASE BackendRestart
  <2>1. ReportsAreReal'
    BY <1>10 DEF BackendRestart, IInv, TypeOK, ReportsAreReal
  <2>2. \A p \in Polls : awaited'[PollAgent[p]] # p
    BY <1>10 DEF BackendRestart
  <2> QED
    BY <1>1, <1>10, <2>1, <2>2 DEF BackendRestart
<1>11. ASSUME NEW a \in Agents, NEW j \in JobIds, JobThrows(a, j) PROVE IInv'
  <2>1. ReportsAreReal'
    BY <1>11 DEF JobThrows, IInv, TypeOK, ReportsAreReal
  <2>2. \A b \in Agents : queue'[b] \subseteq queue[b]
    BY <1>11 DEF JobThrows, IInv, TypeOK
  <2> QED
    BY <1>1, <1>11, <2>1, <2>2 DEF JobThrows
<1> QED
  BY <1>2, <1>3, <1>4, <1>5, <1>6, <1>7, <1>8, <1>9, <1>10, <1>11 DEF AgentNext

LEMMA NextIInv == IInv /\ [Next]_vars => IInv'
<1> SUFFICES ASSUME IInv, [Next]_vars PROVE IInv'
  OBVIOUS
<1>1. TypeOK'
  BY NextTypeOK DEF IInv
<1>2. CASE UNCHANGED vars
  BY <1>1, <1>2, WithdrawIInv DEF vars, rowVars, pollVars, clientVars, runVars
<1> QED
  BY <1>1, <1>2, AdminIInv, PollIInv, AgentIInv DEF Next

THEOREM Invariance == Spec => []IInv
<1>1. Init => IInv
  BY InitIInv
<1>2. IInv /\ [Next]_vars => IInv'
  BY NextIInv
<1> QED
  BY <1>1, <1>2, PTL DEF Spec

\* Every variable keeps its type.
THEOREM TypeCorrect == Spec => []TypeOK
<1>1. IInv => TypeOK
  BY DEF IInv
<1> QED
  BY <1>1, Invariance, PTL

\* No command is executed twice, however often requests time out or overlap.
THEOREM ExecutedAtMostOnce == Spec => []AtMostOnce
<1>1. IInv => AtMostOnce
  BY DEF IInv, RunsAreReal, AtMostOnce
<1> QED
  BY <1>1, Invariance, PTL

\* A recorded result is the one the agent observed.
THEOREM RecordedOutcomes == Spec => []RecordedOutcomeIsReal
<1>1. IInv => RecordedOutcomeIsReal
  BY DEF IInv, ReportsAreReal, RecordedOutcomeIsReal
<1> QED
  BY <1>1, Invariance, PTL

\* Only a poll its agent has abandoned can reopen a finished job.
THEOREM LivePolls == Spec => []LivePollHoldsNoFinishedJob
<1>1. IInv => LivePollHoldsNoFinishedJob
  BY DEF IInv, TypeOK, AwaitedReplyIsNew, RunsAreReal, ReportsAreReal,
     LivePollHoldsNoFinishedJob
<1> QED
  BY <1>1, Invariance, PTL

-----------------------------------------------------------------------------
\* Only completeJob writes an outcome, and only over 'sent': what keeps a
\* cancellation from being overwritten by a result is its WHERE clause alone.
LEMMA OutcomesOverSent ==
  ASSUME TypeOK, [Next]_vars, NEW j \in JobIds, jobStatus[j] = "cancelled"
  PROVE  jobStatus'[j] \notin Outcomes
<1> USE DEF vars, rowVars, Outcomes
<1>1. CASE UNCHANGED jobStatus
  BY <1>1
<1>2. ASSUME NEW S \in SUBSET JobIds, NEW from, NEW to, SetStatus(S, from, to),
             to \in {"sent", "cancelled", "deleted"}
      PROVE  jobStatus'[j] \notin Outcomes
  BY <1>2 DEF SetStatus
<1>3. ASSUME NEW a, InsertJob(a) PROVE jobStatus'[j] \notin Outcomes
  BY <1>3 DEF InsertJob, TypeOK
<1>4. CASE AdminNext
  <2>1. ASSUME NEW a \in Agents,
               \/ CreateCheck(a) \/ CreateInsert(a) \/ BatchCheck(a)
               \/ ClearJobs(a) \/ Revoke(a) \/ DeleteAgent(a)
        PROVE  jobStatus'[j] \notin Outcomes
    BY <2>1, <1>1, <1>2, <1>3 DEF CreateCheck, CreateInsert, BatchCheck, ClearJobs, Revoke,
       DeleteAgent, JobsOf, Existing
  <2>2. ASSUME NEW S \in SUBSET Agents, BatchStart(S) PROVE jobStatus'[j] \notin Outcomes
    BY <2>2, <1>1 DEF BatchStart
  <2>3. CASE BatchInsert \/ BatchEnd
    BY <2>3, <1>1, <1>3 DEF BatchInsert, BatchEnd
  <2>4. ASSUME NEW i \in JobIds, CancelJob(i) PROVE jobStatus'[j] \notin Outcomes
    BY <2>4, <1>2 DEF CancelJob
  <2>5. CASE CancelBatch
    BY <2>5, <1>2 DEF CancelBatch, TypeOK
  <2> QED
    BY <1>4, <2>1, <2>2, <2>3, <2>4, <2>5 DEF AdminNext
<1>5. CASE PollNext
  BY <1>5, <1>1, <1>2 DEF PollNext, StartPoll, PollSelect, PollMark, PollReply, TypeOK
<1>6. CASE AgentNext
  <2>1. ASSUME NEW i \in JobIds, ResultComplete(i) PROVE jobStatus'[j] \notin Outcomes
    BY <2>1 DEF ResultComplete, SetStatus
  <2>2. CASE UNCHANGED jobStatus
    BY <2>2
  <2> QED
    BY <1>6, <2>1, <2>2 DEF AgentNext, PollForbidden, PollTimeout, SendResult, ResultLost,
       ReportDone, ReportTimeout, AgentRestart, Execute, JobThrows, ResultCheck, BackendRestart
<1> QED
  BY <1>1, <1>4, <1>5, <1>6 DEF Next

\* A result never overwrites a cancellation, wherever the cancellation falls
\* between the two statements of submitJobResultService.
THEOREM ResultsRespectCancel == Spec => ResultNeverOverwritesCancel
<1>1. TypeOK /\ [Next]_vars =>
        [\A j \in JobIds : jobStatus[j] = "cancelled" => jobStatus'[j] \notin Outcomes]_vars
  BY OutcomesOverSent
<1> QED
  BY <1>1, TypeCorrect, PTL DEF Spec, ResultNeverOverwritesCancel

-----------------------------------------------------------------------------
(* The queue implements CommandQueue.                                      *)

submittedJobs == {j \in JobIds : jobStatus[j] # "absent"}

\* A step that inserts no row, delivers nothing and executes nothing is a
\* stutter of the command queue.
LEMMA StutterStep ==
  ASSUME UNCHANGED <<delivered, runs>>,
         \A j \in JobIds : jobStatus'[j] = "absent" <=> jobStatus[j] = "absent"
  PROVE  UNCHANGED Queue!cqVars
BY DEF Queue!cqVars

\* Inserting a row is Submit.
LEMMA InsertIsSubmit ==
  ASSUME IInv, NEW a, InsertJob(a), UNCHANGED <<delivered, runs>>
  PROVE  Queue!CQNext
<1>1. nextId \in JobIds /\ jobStatus[nextId] = "absent"
  BY DEF InsertJob, IInv, IdsInOrder, JobIds
<1>2. submittedJobs' = submittedJobs \cup {nextId}
  BY <1>1 DEF InsertJob, IInv, TypeOK, submittedJobs
<1>3. PICK j \in JobIds : j = nextId
  BY <1>1
<1>4. Queue!Submit(j)
  BY <1>1, <1>2, <1>3 DEF Queue!Submit, submittedJobs
<1> QED
  BY <1>4 DEF Queue!CQNext

\* The rows a poll or a cancellation may touch are inserted already.
LEMMA NoRowAppears ==
  ASSUME NEW S, NEW from, NEW to, SetStatus(S, from, to), to # "absent",
         \A j \in S \cap JobIds : jobStatus[j] \in from => jobStatus[j] # "absent"
  PROVE  \A j \in JobIds : jobStatus'[j] = "absent" <=> jobStatus[j] = "absent"
BY DEF SetStatus

LEMMA StepRefinement == IInv /\ [Next]_vars => [Queue!CQNext]_Queue!cqVars
<1> SUFFICES ASSUME IInv, [Next]_vars PROVE Queue!CQNext \/ UNCHANGED Queue!cqVars
  OBVIOUS
<1> USE DEF vars, rowVars, adminVars, pollVars, clientVars, runVars
<1>1. CASE UNCHANGED <<jobStatus, delivered, runs>>
  BY <1>1, StutterStep
<1>2. CASE AdminNext
  <2>1. ASSUME NEW a \in Agents, CreateInsert(a) PROVE Queue!CQNext \/ UNCHANGED Queue!cqVars
    BY <2>1, <1>1, InsertIsSubmit DEF CreateInsert
  <2>2. CASE BatchInsert
    BY <2>2, <1>1, InsertIsSubmit DEF BatchInsert
  <2>3. ASSUME NEW a \in Agents, ClearJobs(a) \/ DeleteAgent(a) PROVE UNCHANGED Queue!cqVars
    <3>1. \A j \in JobsOf(a) : jobStatus[j] # "absent"
      BY DEF JobsOf, Existing
    <3> QED
      BY <2>3, <3>1, NoRowAppears, StutterStep DEF ClearJobs, DeleteAgent
  <2>4. ASSUME NEW j \in JobIds, CancelJob(j) PROVE UNCHANGED Queue!cqVars
    BY <2>4, NoRowAppears, StutterStep DEF CancelJob, Active
  <2>5. CASE CancelBatch
    BY <2>5, NoRowAppears, StutterStep DEF CancelBatch, Active
  <2> QED
    BY <1>2, <1>1, <2>1, <2>2, <2>3, <2>4, <2>5 DEF AdminNext, CreateCheck, BatchCheck, Revoke,
       BatchStart, BatchEnd
<1>3. ASSUME NEW p \in Polls, PollReply(p) PROVE Queue!CQNext \/ UNCHANGED Queue!cqVars
  <2>1. CASE Awaits(p)
    <3>1. pollIds[p] \in SUBSET submittedJobs
      BY DEF IInv, PollsHoldOwnRows, TypeOK, submittedJobs
    <3>2. Queue!HandOver(pollIds[p])
      BY <1>3, <2>1 DEF PollReply, Queue!HandOver, IInv, AwaitedReplyIsNew
    <3> QED
      BY <3>1, <3>2 DEF Queue!CQNext, submittedJobs
  <2>2. CASE ~Awaits(p)
    BY <1>1, <1>3, <2>2 DEF PollReply
  <2> QED
    BY <2>1, <2>2
<1>4. CASE PollNext
  <2>1. ASSUME NEW p \in Polls, PollMark(p) PROVE UNCHANGED Queue!cqVars
    <3>1. \A j \in pollIds[p] : jobStatus[j] # "absent"
      BY DEF IInv, PollsHoldOwnRows
    <3> QED
      BY <2>1, <3>1, NoRowAppears, StutterStep DEF PollMark
  <2> QED
    BY <1>4, <1>1, <1>3, <2>1 DEF PollNext, StartPoll, PollSelect
<1>5. CASE AgentNext
  <2>1. ASSUME NEW a \in Agents, NEW j \in JobIds, Execute(a, j) PROVE Queue!CQNext
    <3>1. j \in delivered /\ runs[j] = 0
      BY <2>1 DEF Execute, IInv, QueueIsFresh
    <3>2. Queue!Run(j)
      BY <2>1, <3>1 DEF Execute, Queue!Run, IInv, TypeOK
    <3> QED
      BY <3>2 DEF Queue!CQNext
  <2>2. ASSUME NEW j \in JobIds, ResultComplete(j) PROVE UNCHANGED Queue!cqVars
    <3>1. outcome[j] # "absent"
      BY <2>2 DEF ResultComplete, IInv, ReportsAreReal, RunsAreReal, Outcomes
    <3> QED
      BY <2>2, <3>1, NoRowAppears, StutterStep DEF ResultComplete
  <2> QED
    BY <1>5, <1>1, <2>1, <2>2 DEF AgentNext, PollForbidden, PollTimeout, SendResult, ResultLost,
       ReportDone, ReportTimeout, AgentRestart, JobThrows, ResultCheck, BackendRestart
<1> QED
  BY <1>1, <1>2, <1>4, <1>5 DEF Next

\* The job queue, with its races, timeouts and restarts, implements the
\* at-most-once command queue.
THEOREM Refinement == Spec => ImplementsCommandQueue
<1>1. Init => Queue!CQInit
  BY DEF Init, Queue!CQInit
<1>2. IInv /\ [Next]_vars => [Queue!CQNext]_Queue!cqVars
  BY StepRefinement
<1> QED
  BY <1>1, <1>2, Invariance, PTL DEF Spec, ImplementsCommandQueue, Queue!CQSpec
=============================================================================
