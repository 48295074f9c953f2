---------------------------- MODULE ServerProofs ----------------------------
(***************************************************************************)
(* Proofs about eight parts of the backend that share no state: the        *)
(* Manager's command channel, the daily report and the accounts; the       *)
(* register of printers and the rules for unwanted programs; and the       *)
(* queries of the list of agents, of the entries and of the inventory      *)
(* report, for every number of commands, polls, sites, items, users,       *)
(* requests, printers, rules, agents, computers, entries and inventories,  *)
(* and every bound of the clock, of the changes and of the failures.       *)
(***************************************************************************)
EXTENDS ManagerJobs, DailyReports, Accounts, Printers, FlaggedItems, AgentTable, IpEntries,
  PdsuAnalytics, FiniteSetTheorems, WellFoundedInduction, TLAPS

-----------------------------------------------------------------------------
(* The Manager's command channel.                                          *)

\* The worker waits with nothing left to do, and works on what it has received.
WorkerIsSound ==
  /\ worker.at \in {"loop", "waiting"} => worker.todo = {}
  /\ worker.at = "waiting" => worker.fetch \in Fetches
  /\ worker.at \in {"executed", "reporting"} => worker.job \in CommandIds
  /\ \A c \in worker.todo : c \in received /\ ran[c] = 0

\* A poll has rows in its hands after its SELECT only, and none is pending once they are marked.
FetchesHoldRows ==
  \A p \in Fetches :
    /\ fetch[p].step \in {"idle", "admitted"} => fetch[p].ids = {}
    /\ \A c \in fetch[p].ids : /\ commands[c] # "absent"
                               /\ fetch[p].step = "marked" => commands[c] # "pending"

\* No row becomes pending again, so that the awaited reply brings nothing the Manager has had.
ReceivedIsNotPending == \A c \in received : commands[c] \notin {"absent", "pending"}
AwaitedIsNew == \A p \in Fetches : Awaited(p) => fetch[p].ids \cap received = {}

\* What ran was received, ran once and has a verdict, which is all that is ever reported.
VerdictsAreReal ==
  /\ \A c \in CommandIds : /\ ran[c] \in {0, 1}
                           /\ ran[c] = 1 => c \in received /\ verdict[c] \in Verdicts
                           /\ report[c] # "none" => ran[c] = 1
  /\ worker.at \in {"executed", "reporting"} => ran[worker.job] = 1

\* No poll has a withdrawn row, and none will.
WithdrawnIsOut ==
  \A c \in withdrawn : /\ c \notin received
                       /\ \A p \in Fetches : c \notin fetch[p].ids
                       /\ commands[c] \in {"cancelled", "deleted"}

ManagerInv ==
  /\ ManagerTypeOK
  /\ WorkerIsSound
  /\ FetchesHoldRows
  /\ ReceivedIsNotPending
  /\ AwaitedIsNew
  /\ VerdictsAreReal
  /\ ReplyIsWorkedThrough
  /\ WithdrawnIsOut

WorkerStates == [at : {"loop", "waiting", "working", "executed", "reporting"},
                 fetch : Fetches \cup {0}, todo : SUBSET CommandIds, job : CommandIds \cup {0}]

LEMMA ManagerInitInv == ManagerInit => ManagerInv
<1> SUFFICES ASSUME ManagerInit PROVE ManagerInv
  OBVIOUS
<1> USE DEF ManagerInit, AtLoop, NoFetch
<1>1. ManagerTypeOK
  BY DEF ManagerTypeOK, Verdicts
<1>2. WorkerIsSound /\ FetchesHoldRows /\ AwaitedIsNew /\ VerdictsAreReal
  BY DEF WorkerIsSound, FetchesHoldRows, AwaitedIsNew, Awaited, VerdictsAreReal
<1> QED
  BY <1>1, <1>2 DEF ManagerInv, ReceivedIsNotPending, ReplyIsWorkedThrough, WithdrawnIsOut

\* The loop goes on with what is left, or waits for the next poll.
LEMMA NextCommandInv ==
  ManagerInv /\ NextCommand /\ UNCHANGED <<managerRows, fetch, report, managerRuns>>
  /\ worker.at \in {"executed", "reporting"} => ManagerInv'
<1> SUFFICES ASSUME ManagerInv, NextCommand, UNCHANGED <<managerRows, fetch, report, managerRuns>>
             PROVE  ManagerInv'
  OBVIOUS
<1> USE DEF ManagerInv, ManagerTypeOK, WorkerIsSound, FetchesHoldRows, ReceivedIsNotPending,
      AwaitedIsNew, Awaited, VerdictsAreReal, ReplyIsWorkedThrough, WithdrawnIsOut, managerRows, managerRuns
<1>1. CASE worker.todo = {}
  BY <1>1 DEF NextCommand, AtLoop
<1>2. CASE worker.todo # {}
  <2>1. worker' = [worker EXCEPT !.at = "working", !.job = 0]
    BY <1>2 DEF NextCommand
  <2>2. worker'.at = "working" /\ worker'.todo = worker.todo
    BY <2>1
  <2>3. ManagerTypeOK'
    BY <2>1
  <2> QED
    BY <2>2, <2>3
<1> QED
  BY <1>1, <1>2

LEMMA ManagerNextInv == ManagerInv /\ [ManagerNext]_managerVars => ManagerInv'
<1> SUFFICES ASSUME ManagerInv, [ManagerNext]_managerVars PROVE ManagerInv'
  OBVIOUS
<1> USE DEF ManagerInv, ManagerTypeOK, WorkerIsSound, FetchesHoldRows, ReceivedIsNotPending,
      AwaitedIsNew, Awaited, VerdictsAreReal, ReplyIsWorkedThrough, WithdrawnIsOut, Verdicts,
      managerRows, managerRuns
<1>1. CASE UNCHANGED managerVars
  BY <1>1 DEF managerVars
<1>2. CASE CheckCommand
  <2>1. submitting' \in BOOLEAN /\ UNCHANGED <<manager, commands, withdrawn, fetch, worker, report, managerRuns>>
    BY <1>2 DEF CheckCommand
  <2> HIDE DEF ManagerInv
  <2>2. ManagerTypeOK'
    BY <2>1 DEF ManagerInv
  <2>3. WorkerIsSound' /\ FetchesHoldRows'
    BY <2>1 DEF ManagerInv
  <2>4. ReceivedIsNotPending' /\ AwaitedIsNew' /\ VerdictsAreReal'
    BY <2>1 DEF ManagerInv
  <2> QED
    BY <2>1, <2>2, <2>3, <2>4 DEF ManagerInv
<1>3. CASE InsertCommand
  <2> HIDE DEF ManagerInv
  <2>0. submitting' = FALSE /\ UNCHANGED <<manager, withdrawn, fetch, worker, report, managerRuns>>
    BY <1>3 DEF InsertCommand
  <2>1. CASE UNCHANGED commands
    <3>1. UNCHANGED <<commands, manager, withdrawn, fetch, worker, report, verdict, ran, received,
                      forgotten>>
      BY <2>0, <2>1
    <3>2. ManagerTypeOK'
      <4>1. ManagerTypeOK /\ submitting' \in BOOLEAN
        BY <2>0 DEF ManagerInv
      <4> HIDE DEF WorkerIsSound, FetchesHoldRows, ReceivedIsNotPending, AwaitedIsNew, VerdictsAreReal,
                   ReplyIsWorkedThrough, WithdrawnIsOut, Verdicts
      <4> QED
        BY <2>0, <3>1, <4>1
    <3>4. WorkerIsSound' /\ FetchesHoldRows'
      BY <3>1 DEF ManagerInv
    <3>3. ReceivedIsNotPending' /\ AwaitedIsNew' /\ VerdictsAreReal'
      BY <3>1 DEF ManagerInv
    <3> QED
      BY <3>1, <3>2, <3>3, <3>4 DEF ManagerInv
  <2>2. ASSUME NEW c \in CommandIds, commands[c] = "absent",
               commands' = [commands EXCEPT ![c] = "pending"]
        PROVE  ManagerInv'
    <3>1. ManagerTypeOK'
      BY <2>0, <2>2 DEF ManagerInv
    <3>2. FetchesHoldRows' /\ ReceivedIsNotPending' /\ WithdrawnIsOut'
      BY <2>0, <2>2 DEF ManagerInv
    <3> QED
      BY <2>0, <3>1, <3>2 DEF ManagerInv
  <2>3. manager # "deleted" =>
          \E c \in CommandIds : commands[c] = "absent" /\ commands' = [commands EXCEPT ![c] = "pending"]
    BY <1>3 DEF InsertCommand, CommandIds
  <2> QED
    BY <1>3, <2>1, <2>2, <2>3 DEF InsertCommand
<1>4. ASSUME NEW c \in CommandIds, CancelCommand(c) PROVE ManagerInv'
  BY <1>4 DEF CancelCommand, WithStatus, Unfinished
<1>5. ASSUME NEW c \in CommandIds, ExecuteCommand(c) PROVE ManagerInv'
  <2>1. PICK v \in Verdicts : verdict' = [verdict EXCEPT ![c] = v]
    BY <1>5 DEF ExecuteCommand
  <2>2. /\ ran' = [ran EXCEPT ![c] = 1] /\ ran[c] = 0 /\ c \in received
        /\ UNCHANGED <<managerRows, fetch, report, received, forgotten>>
    <3>1. ran[c] = 0 /\ c \in received
      BY <1>5 DEF ExecuteCommand
    <3>2. ran' = [ran EXCEPT ![c] = ran[c] + 1]
      BY <1>5, Zenon DEF ExecuteCommand
    <3> QED
      BY <1>5, <3>1, <3>2 DEF ExecuteCommand
  <2>8. worker' = [worker EXCEPT !.at = "executed", !.todo = worker.todo \ {c}, !.job = c]
    BY <1>5 DEF ExecuteCommand
  <2>9. worker \in WorkerStates
    BY DEF WorkerStates
  <2>3. /\ worker' \in WorkerStates /\ worker'.at = "executed"
        /\ worker'.job = c /\ worker'.todo = worker.todo \ {c}
    <3> HIDE DEF ManagerInv
    <3> QED
      BY <2>8, <2>9 DEF WorkerStates
  <2>4. \A d \in CommandIds : ran'[d] = IF d = c THEN 1 ELSE ran[d]
    BY <2>2
  <2>5. ManagerTypeOK'
    BY <2>1, <2>2, <2>3 DEF WorkerStates
  <2>6. WorkerIsSound' /\ ReplyIsWorkedThrough' /\ AwaitedIsNew'
    BY <2>2, <2>3, <2>4
  <2>7. VerdictsAreReal'
    <3>1. \A d \in CommandIds : verdict'[d] \in Verdicts \/ (d # c /\ verdict'[d] = verdict[d])
      <4>1. verdict \in [CommandIds -> Verdicts \cup {"none"}]
        OBVIOUS
      <4> HIDE DEF ManagerInv
      <4> QED
        BY <2>1, <4>1
    <3> QED
      BY <2>2, <2>3, <2>4, <3>1
  <2> QED
    BY <2>2, <2>5, <2>6, <2>7
<1>6. ASSUME NEW c \in CommandIds, CheckResult(c) PROVE ManagerInv'
  BY <1>6 DEF CheckResult
<1>7. ASSUME NEW c \in CommandIds, CompleteCommand(c) PROVE ManagerInv'
  BY <1>7 DEF CompleteCommand, WithStatus
<1>8. ASSUME NEW p \in Fetches, AskForCommands(p) PROVE ManagerInv'
  <2>6. /\ worker' = [worker EXCEPT !.at = "waiting", !.fetch = p] /\ worker.at = "loop"
        /\ worker \in WorkerStates
    BY <1>8 DEF AskForCommands, WorkerStates
  <2>7. /\ worker' \in WorkerStates /\ worker'.at = "waiting" /\ worker'.fetch = p
        /\ worker'.todo = worker.todo
    <3> HIDE DEF ManagerInv
    <3> QED
      BY <2>6 DEF WorkerStates
  <2>5. /\ fetch' \in [Fetches -> [step : {"idle", "admitted", "selected", "marked"},
                                   ids : SUBSET CommandIds]]
        /\ UNCHANGED <<managerRows, report, managerRuns>>
    BY <1>8 DEF AskForCommands
  <2>1. ManagerTypeOK' /\ WorkerIsSound' /\ VerdictsAreReal'
    <3>1. ManagerTypeOK'
      BY <2>5, <2>7 DEF WorkerStates
    <3>2. WorkerIsSound' /\ VerdictsAreReal'
      BY <2>5, <2>6, <2>7
    <3> QED
      BY <3>1, <3>2
  <2>2. fetch[p].ids = {} /\ fetch'[p].ids = {} /\ \A q \in Fetches \ {p} : fetch'[q] = fetch[q]
    BY <1>8 DEF AskForCommands
  <2>3. FetchesHoldRows' /\ WithdrawnIsOut'
    BY <1>8, <2>2 DEF AskForCommands
  <2>4. AwaitedIsNew'
    <3>1. worker'.fetch = p
      BY <1>8 DEF AskForCommands
    <3> QED
      BY <2>2, <3>1
  <2> QED
    <3>1. UNCHANGED <<commands, withdrawn, report, verdict, ran, received, forgotten, worker.todo>>
      BY <1>8 DEF AskForCommands
    <3> QED
      BY <2>1, <2>3, <2>4, <3>1
<1>9. ASSUME NEW p \in Fetches, SelectPending(p) PROVE ManagerInv'
  <2>1. CASE Pending = {}
    <3>1. fetch' = [fetch EXCEPT ![p] = NoFetch] /\ worker' \in {worker, AtLoop}
      BY <1>9, <2>1 DEF SelectPending
    <3>2. worker' = AtLoop => worker.todo = {} \/ worker' = worker
      BY <1>9, <2>1 DEF SelectPending
    <3> QED
      BY <1>9, <3>1, <3>2 DEF SelectPending, NoFetch, AtLoop
  <2>2. CASE Pending # {}
    <3>1. fetch' = [fetch EXCEPT ![p] = [step |-> "selected", ids |-> Pending]] /\ UNCHANGED worker
      BY <1>9, <2>2 DEF SelectPending
    <3>2. \A c \in Pending : c \in CommandIds /\ commands[c] = "pending"
      BY DEF Pending
    <3> QED
      BY <1>9, <3>1, <3>2 DEF SelectPending
  <2> QED
    BY <2>1, <2>2
<1>10. ASSUME NEW p \in Fetches, MarkSent(p) PROVE ManagerInv'
  BY <1>10 DEF MarkSent, WithStatus, Rows, Unfinished
<1>11. ASSUME NEW p \in Fetches, ReplyCommands(p) PROVE ManagerInv'
  BY <1>11 DEF ReplyCommands, NoFetch
<1>12. CASE RevokeManager
  BY <1>12 DEF RevokeManager
<1>13. CASE DeleteManager
  BY <1>13 DEF DeleteManager, WithStatus, Rows, Unfinished
<1>14. CASE EnrolManager
  BY <1>14 DEF EnrolManager
<1>15. CASE GiveUpAsking
  BY <1>15 DEF GiveUpAsking, AtLoop
<1>16. CASE SubmitResult
  BY <1>16 DEF SubmitResult
<1>17. CASE SubmitFails
  BY <1>17, NextCommandInv DEF SubmitFails
<1>18. CASE ResultAnswered
  BY <1>18, NextCommandInv DEF ResultAnswered
<1>19. CASE RestartManager
  BY <1>19 DEF RestartManager, AtLoop
<1>20. CASE RestartBackend
  BY <1>20 DEF RestartBackend, AtLoop, NoFetch
<1> QED
  BY <1>1, <1>2, <1>3, <1>4, <1>5, <1>6, <1>7, <1>8, <1>9, <1>10, <1>11, <1>12, <1>13, <1>14,
     <1>15, <1>16, <1>17, <1>18, <1>19, <1>20 DEF ManagerNext

LEMMA ManagerInvariance == ManagerSpec => []ManagerInv
BY ManagerInitInv, ManagerNextInv, PTL DEF ManagerSpec

\* Whatever time-outs, failing reports and restarts of the backend there are, a command that the
\* Manager has received runs, unless the Manager itself is restarted.
THEOREM RepliesAreWorkedThrough == ManagerSpec => []ReplyIsWorkedThrough
<1>1. ManagerInv => ReplyIsWorkedThrough
  BY DEF ManagerInv
<1> QED
  BY <1>1, ManagerInvariance, PTL

\* Although markJobsSent has no condition, what was cancelled before the SELECT of a poll never runs.
THEOREM WithdrawnCommandsNeverRun == ManagerSpec => []WithdrawnNeverRuns
<1>1. ManagerInv => WithdrawnNeverRuns
  BY DEF ManagerInv, WithdrawnIsOut, WithdrawnNeverRuns, VerdictsAreReal, ManagerTypeOK
<1> QED
  BY <1>1, ManagerInvariance, PTL

-----------------------------------------------------------------------------
(* The channel implements the abstract queue.                              *)

created == {c \in CommandIds : commands[c] # "absent"}

\* Statements that keep rows absent or present are stutters of the queue.
LEMMA KeepsRows ==
  ASSUME UNCHANGED <<received, ran>>,
         \A c \in CommandIds : commands'[c] = "absent" <=> commands[c] = "absent"
  PROVE  UNCHANGED CommandsQueue!cqVars
BY DEF CommandsQueue!cqVars

LEMMA StatusKeepsRows ==
  ASSUME NEW S, NEW from, NEW to, commands' = WithStatus(S, from, to), "absent" \notin from,
         to # "absent"
  PROVE  \A c \in CommandIds : commands'[c] = "absent" <=> commands[c] = "absent"
BY DEF WithStatus

LEMMA ManagerStepRefinement ==
  ManagerInv /\ [ManagerNext]_managerVars => [CommandsQueue!CQNext]_CommandsQueue!cqVars
<1> SUFFICES ASSUME ManagerInv, [ManagerNext]_managerVars
             PROVE  CommandsQueue!CQNext \/ UNCHANGED CommandsQueue!cqVars
  OBVIOUS
<1> USE DEF managerRows, managerRuns
<1>1. CASE UNCHANGED <<commands, received, ran>>
  BY <1>1, KeepsRows
<1>2. CASE InsertCommand
  <2>1. CASE UNCHANGED commands
    BY <1>1, <1>2, <2>1 DEF InsertCommand
  <2>2. ASSUME NEW c \in CommandIds, commands[c] = "absent",
               commands' = [commands EXCEPT ![c] = "pending"]
        PROVE  CommandsQueue!CQNext
    <3>1. commands \in [CommandIds -> {"absent", "pending", "sent", "cancelled", "deleted"} \cup Verdicts]
      BY DEF ManagerInv, ManagerTypeOK
    <3>2. CommandsQueue!Submit(c)
      BY <1>2, <2>2, <3>1 DEF InsertCommand, CommandsQueue!Submit
    <3> QED
      BY <3>2 DEF CommandsQueue!CQNext
  <2>3. manager # "deleted" =>
          \E c \in CommandIds : commands[c] = "absent" /\ commands' = [commands EXCEPT ![c] = "pending"]
    BY <1>2 DEF InsertCommand, CommandIds
  <2> QED
    BY <1>2, <2>1, <2>2, <2>3 DEF InsertCommand
<1>3. ASSUME NEW c \in CommandIds, CancelCommand(c) PROVE UNCHANGED CommandsQueue!cqVars
  BY <1>3, StatusKeepsRows, KeepsRows DEF CancelCommand, Unfinished
<1>4. ASSUME NEW p \in Fetches, MarkSent(p) PROVE UNCHANGED CommandsQueue!cqVars
  BY <1>4, StatusKeepsRows, KeepsRows DEF MarkSent, Rows, Unfinished, Verdicts
<1>5. CASE DeleteManager
  BY <1>5, StatusKeepsRows, KeepsRows DEF DeleteManager, Rows, Unfinished, Verdicts
<1>6. ASSUME NEW c \in CommandIds, CompleteCommand(c) PROVE UNCHANGED CommandsQueue!cqVars
  <2>1. verdict[c] # "absent"
    BY DEF ManagerInv, ManagerTypeOK, Verdicts
  <2> QED
    BY <1>6, <2>1, StatusKeepsRows, KeepsRows DEF CompleteCommand
<1>7. ASSUME NEW p \in Fetches, ReplyCommands(p), Awaited(p) PROVE CommandsQueue!CQNext
  <2>1. fetch[p].ids \in SUBSET created
    BY DEF created, ManagerInv, FetchesHoldRows, ManagerTypeOK
  <2>2. CommandsQueue!HandOver(fetch[p].ids)
    BY <1>7 DEF ReplyCommands, CommandsQueue!HandOver, ManagerInv, AwaitedIsNew
  <2> QED
    BY <2>1, <2>2 DEF CommandsQueue!CQNext, created
<1>8. ASSUME NEW c \in CommandIds, ExecuteCommand(c) PROVE CommandsQueue!CQNext
  <2>1. c \in received /\ ran[c] = 0
    BY <1>8 DEF ExecuteCommand, ManagerInv, WorkerIsSound
  <2>2. ran' = [ran EXCEPT ![c] = 1]
    <3>1. ran' = [ran EXCEPT ![c] = ran[c] + 1]
      BY <1>8, Zenon DEF ExecuteCommand
    <3> QED
      BY <2>1, <3>1
  <2>3. CommandsQueue!Run(c)
    BY <1>8, <2>1, <2>2 DEF ExecuteCommand, CommandsQueue!Run
  <2> QED
    BY <2>3 DEF CommandsQueue!CQNext
<1>9. CASE UNCHANGED managerVars
  BY <1>1, <1>9 DEF managerVars
<1> QED
  BY <1>1, <1>2, <1>3, <1>4, <1>5, <1>6, <1>7, <1>8, <1>9 DEF ManagerNext, CheckCommand, CheckResult,
     AskForCommands, SelectPending, ReplyCommands, RevokeManager, EnrolManager, GiveUpAsking,
     SubmitResult, SubmitFails, ResultAnswered, RestartManager, RestartBackend

\* Requests that time out, overlap or break off never make the channel hand out or run a command twice.
THEOREM ManagerRefinement == ManagerSpec => ImplementsManagerQueue
<1>1. ManagerInit => CommandsQueue!CQInit
  BY DEF ManagerInit, CommandsQueue!CQInit
<1> QED
  BY <1>1, ManagerStepRefinement, ManagerInvariance, PTL
     DEF ManagerSpec, ImplementsManagerQueue, CommandsQueue!CQSpec

-----------------------------------------------------------------------------
(* The daily report.                                                       *)

OfSite(s) == {r \in reports : r.site = s}

CycleType ==
  [step : {"idle", "snapshot", "previous", "queries", "insert", "push"},
   end : Hours \cup {0}, n : DOMAIN SiteOrder \cup {0}, start : Int, found : SUBSET Items]

ReportsTyped ==
  /\ hour \in Hours /\ nextRun \in Nat
  /\ occurred \in [Items -> Hours \cup {0}] /\ site \in [Items -> Sites \cup {Unlinked}]
  /\ \A i \in Items : occurred[i] <= hour /\ (occurred[i] = 0 => site[i] = Unlinked)
  /\ cycle \in CycleType
  /\ late \in SUBSET Items
  /\ reports \in SUBSET [site : Sites, start : Int, end : Hours, items : SUBSET Items]

\* A cycle is at one of the sites and ends no later than now; none has a later report, and only the
\* sites before it have one of this cycle.  The timer is set for a time after all reports.
CycleIsNext ==
  /\ cycle.step = "idle" <=> cycle.end = 0
  /\ cycle.step \notin {"idle", "snapshot"} <=> cycle.n # 0
  /\ cycle.end <= hour
  /\ \A r \in reports :
       /\ r.end <= hour
       /\ cycle.step = "idle" => r.end < nextRun
       /\ cycle.step # "idle" =>
            \/ r.end < cycle.end
            \/ /\ r.end = cycle.end
               /\ \E m \in 1 .. cycle.n : /\ r.site = SiteOrder[m]
                                          /\ m = cycle.n => cycle.step = "push"

\* What a report lists had happened before the next cycle.
ListedIsPast ==
  \A r \in reports : \A i \in r.items :
    /\ occurred[i] # 0 /\ occurred[i] >= r.start
    /\ cycle.step = "idle" => occurred[i] < nextRun
    /\ cycle.step # "idle" /\ r.end < cycle.end => occurred[i] < cycle.end
    /\ \A q \in OfSite(r.site) : r.end < q.end => occurred[i] < q.end

\* The reports of a site are a chain: one begins where another ends, with nothing in between.
ReportsAreChained ==
  \A q, r \in reports :
    q.site = r.site /\ q.end < r.end =>
      /\ q.end <= r.start /\ r.start < r.end
      /\ \E p \in OfSite(r.site) : p.end = r.start

ReportsCover ==
  \A q, r \in reports : \A t \in Hours :
    q.site = r.site /\ q.start <= t /\ t < r.end =>
      \E p \in OfSite(r.site) : p.start <= t /\ t < p.end

\* A report lists all that happened in its period, unless it was joined with the site too late.
ListsAll(s, start, end, items) ==
  \A i \in Items \ late :
    occurred[i] # 0 /\ start <= occurred[i] /\ occurred[i] < end /\ site[i] = s => i \in items

ReportsAreComplete == \A r \in reports : ListsAll(r.site, r.start, r.end, r.items)

\* The latest report of every site; the one being written starts there.
IsLatest(s, end) == /\ \E r \in OfSite(s) : r.end = end
                    /\ \A r \in OfSite(s) : r.end <= end
SitesHaveLatest == \A s \in Sites : OfSite(s) # {} => \E end \in Hours : IsLatest(s, end)

NextReport ==
  /\ cycle.step \in {"queries", "insert"} /\ OfSite(Current) # {} => IsLatest(Current, cycle.start)
  /\ cycle.step = "insert" =>
       /\ ListsAll(Current, cycle.start, cycle.end, cycle.found)
       /\ \A i \in cycle.found : occurred[i] # 0 /\ occurred[i] >= cycle.start

ReportsInv ==
  /\ ReportsTyped
  /\ CycleIsNext
  /\ ListedIsPast
  /\ ReportsAreChained
  /\ ReportsCover
  /\ ReportsAreComplete
  /\ SitesHaveLatest
  /\ NextReport

LEMMA NextMorningIsLater == \A h \in Nat : ((h \div DayLength) + 1) * DayLength \in Nat
                                          /\ ((h \div DayLength) + 1) * DayLength > h
BY ReportsAssumption

LEMMA NoCycleIsTyped == NoCycle \in CycleType
BY DEF NoCycle, CycleType

LEMMA ReportsInitInv == ReportsInit => ReportsInv
<1> SUFFICES ASSUME ReportsInit PROVE ReportsInv
  OBVIOUS
<1> USE DEF ReportsInit, NoCycle
<1>1. 1 \in Hours
  BY ReportsAssumption DEF Hours
<1>2. ReportsTyped
  BY <1>1, NextMorningIsLater, NoCycleIsTyped DEF ReportsTyped, NextMorning
<1>3. CycleIsNext
  BY DEF CycleIsNext
<1> QED
  BY <1>2, <1>3 DEF ReportsInv, ListedIsPast, ReportsAreChained, ReportsCover, ReportsAreComplete,
     SitesHaveLatest, OfSite, NextReport

LEMMA SitesOfOrder == /\ 1 \in DOMAIN SiteOrder /\ DOMAIN SiteOrder \subseteq Nat \ {0}
                      /\ \A n \in DOMAIN SiteOrder : SiteOrder[n] \in Sites /\ SiteOrder[n] # Unlinked
                      /\ \A n \in DOMAIN SiteOrder : 1 .. n \subseteq DOMAIN SiteOrder
<1>1. SiteOrder \in Seq(Sites) /\ SiteOrder # <<>>
  BY ReportsAssumption
<1>2. DOMAIN SiteOrder = 1 .. Len(SiteOrder) /\ Len(SiteOrder) \in Nat \ {0}
  BY <1>1
<1>3. \A n \in DOMAIN SiteOrder : SiteOrder[n] \in Sites
  BY DEF Sites
<1> QED
  BY <1>2, <1>3, ReportsAssumption

\* findLatestDailyReport finds the end of the latest report of the site.
LEMMA LatestIsStart ==
  ASSUME ReportsTyped, SitesHaveLatest, NEW s \in Sites
  PROVE  /\ OfSite(s) # {} => PeriodStart(s) \in Hours /\ IsLatest(s, PeriodStart(s))
         /\ OfSite(s) = {} => PeriodStart(s) = cycle.end - DayLength
<1> DEFINE ends == {r.end : r \in {q \in reports : q.site = s}}
<1>1. CASE OfSite(s) = {}
  <2>1. ends = {}
    BY <1>1 DEF OfSite
  <2> QED
    BY <1>1, <2>1 DEF PeriodStart
<1>2. CASE OfSite(s) # {}
  <2>1. PICK end \in Hours : IsLatest(s, end)
    BY <1>2 DEF SitesHaveLatest
  <2>2. end \in ends /\ ends # {} /\ \A e \in ends : e \in Hours /\ end >= e
    BY <2>1 DEF IsLatest, OfSite, ReportsTyped, Hours
  <2>3. Max(ends) \in ends /\ \A e \in ends : Max(ends) >= e
    BY <2>2 DEF Max
  <2>4. PeriodStart(s) = Max(ends)
    BY <2>2 DEF PeriodStart
  <2>5. Max(ends) \in Hours /\ IsLatest(s, Max(ends))
    BY <2>2, <2>3 DEF IsLatest, OfSite, Hours, ReportsTyped
  <2> QED
    BY <1>2, <2>4, <2>5
<1> QED
  BY <1>1, <1>2

LEMMA NextSiteIsTyped ==
  ASSUME NEW c \in CycleType, NEW n \in DOMAIN SiteOrder
  PROVE  [c EXCEPT !.step = "previous", !.n = n, !.found = {}, !.start = 0] \in CycleType
<1>1. [c EXCEPT !.step = "previous"] \in CycleType
  BY DEF CycleType
<1>2. \A d \in CycleType : [d EXCEPT !.n = n] \in CycleType
  BY DEF CycleType
<1>3. \A d \in CycleType : [d EXCEPT !.found = {}] \in CycleType
  BY DEF CycleType
<1>4. \A d \in CycleType : [d EXCEPT !.start = 0] \in CycleType
  BY DEF CycleType
<1> QED
  BY <1>1, <1>2, <1>3, <1>4

LEMMA InsertedIsTyped ==
  ASSUME NEW c \in CycleType
  PROVE  [c EXCEPT !.step = "push"] \in CycleType
BY DEF CycleType

LEMMA ReportsNextTyped ==
  ReportsTyped /\ CycleIsNext /\ SitesHaveLatest /\ [ReportsNext]_reportsVars => ReportsTyped'
<1> SUFFICES ASSUME ReportsTyped, CycleIsNext, SitesHaveLatest, [ReportsNext]_reportsVars PROVE ReportsTyped'
  OBVIOUS
<1> USE ReportsAssumption, SitesOfOrder DEF ReportsTyped, NoCycle, CycleType
<1>0. Hours \subseteq Nat \ {0}
  BY DEF Hours
<1>1. CASE UNCHANGED reportsVars
  BY <1>1 DEF reportsVars
<1>2. CASE NextHour
  BY <1>0, <1>2 DEF NextHour, Hours
<1>3. CASE BeginCycle
  <2>1. cycle' = [step |-> "snapshot", end |-> hour, n |-> 0, start |-> 0, found |-> {}]
    BY <1>3 DEF BeginCycle
  <2>2. cycle' \in CycleType
    BY <2>1
  <2> QED
    BY <1>3, <2>2 DEF BeginCycle
<1>4. CASE Snapshot
  BY <1>4 DEF Snapshot
<1>5. CASE FindPrevious
  <2>1. cycle.end \in Hours /\ Current \in Sites
    BY <1>5 DEF FindPrevious, CycleIsNext, Current
  <2>2. PeriodStart(Current) \in Int
    BY <2>1, LatestIsStart DEF Hours
  <2>3. cycle' \in CycleType
    <3> DEFINE start == PeriodStart(Current)
    <3>1. cycle' = [cycle EXCEPT !.step = "queries", !.start = start]
      BY <1>5 DEF FindPrevious
    <3> HIDE DEF start
    <3> QED
      BY <2>2, <3>1 DEF start
  <2> HIDE DEF CycleType
  <2> QED
    BY <1>5, <2>3 DEF FindPrevious
<1>6. CASE QueryItems
  BY <1>6 DEF QueryItems, Found
<1>7. CASE InsertReport
  <2>1. cycle.end \in Hours /\ Current \in Sites
    BY <1>7 DEF InsertReport, CycleIsNext, Current
  <2>2. /\ cycle.start \in Int /\ cycle.found \in SUBSET Items
        /\ cycle' = [cycle EXCEPT !.step = "push"]
    BY <1>7 DEF InsertReport
  <2>3. [site |-> Current, start |-> cycle.start, end |-> PeriodEnd, items |-> cycle.found]
          \in [site : Sites, start : Int, end : Hours, items : SUBSET Items]
    BY <2>1, <2>2 DEF PeriodEnd
  <2>4. cycle' \in CycleType
    <3>1. cycle \in CycleType
      OBVIOUS
    <3> HIDE DEF CycleType, ReportsTyped
    <3> QED
      BY <2>2, <3>1, InsertedIsTyped
  <2> HIDE DEF CycleType
  <2> QED
    BY <1>7, <2>3, <2>4 DEF InsertReport
<1>8. CASE PushReport
  <2>1. nextRun' \in Nat
    BY <1>8, NextMorningIsLater, <1>0 DEF PushReport, NextMorning
  <2>2. cycle' \in CycleType
    <3> HIDE DEF CycleType, NoCycle
    <3> DEFINE next == cycle.n + 1
    <3> HIDE DEF next
    <3>1. CASE cycle' = NoCycle
      BY <3>1, NoCycleIsTyped
    <3>2. CASE /\ cycle' = [cycle EXCEPT !.step = "previous", !.n = @ + 1, !.found = {}, !.start = 0]
               /\ cycle.n + 1 \in DOMAIN SiteOrder
      <4>1. cycle' = [cycle EXCEPT !.step = "previous", !.n = next, !.found = {}, !.start = 0]
            /\ next \in DOMAIN SiteOrder
        BY <3>2, Zenon DEF next
      <4> QED
        BY <4>1, NextSiteIsTyped
    <3> QED
      BY <1>8, <3>1, <3>2 DEF PushReport
  <2> QED
    BY <1>8, <2>1, <2>2 DEF PushReport
<1>9. CASE CycleFails
  BY <1>9, NextMorningIsLater, <1>0 DEF CycleFails, NextMorning
<1>10. ASSUME NEW i \in Items, NEW s \in Sites \cup {Unlinked}, Occur(i, s) PROVE ReportsTyped'
  BY <1>0, <1>10 DEF Occur
<1>11. ASSUME NEW i \in Items, NEW s \in Sites, Join(i, s) PROVE ReportsTyped'
  BY <1>11 DEF Join
<1> QED
  BY <1>1, <1>2, <1>3, <1>4, <1>5, <1>6, <1>7, <1>8, <1>9, <1>10, <1>11 DEF ReportsNext

LEMMA ReportsNextCycle == ReportsInv /\ [ReportsNext]_reportsVars => CycleIsNext'
<1> SUFFICES ASSUME ReportsInv, [ReportsNext]_reportsVars PROVE CycleIsNext'
  OBVIOUS
<1>0. Hours \subseteq Nat \ {0} /\ ReportsTyped /\ hour \in Nat \ {0} /\ nextRun \in Nat /\ CycleIsNext
  BY ReportsAssumption DEF Hours, ReportsTyped, ReportsInv
<1>a. /\ cycle.step \in {"idle", "snapshot", "previous", "queries", "insert", "push"}
      /\ cycle.n \in Nat /\ cycle.end \in Nat
      /\ \A r \in reports : r.end \in Nat
  <2>1. cycle \in CycleType /\ DOMAIN SiteOrder \subseteq Nat /\ Hours \subseteq Nat
    BY <1>0, SitesOfOrder DEF ReportsTyped
  <2>2. /\ cycle.step \in {"idle", "snapshot", "previous", "queries", "insert", "push"}
        /\ cycle.n \in DOMAIN SiteOrder \cup {0} /\ cycle.end \in Hours \cup {0}
    BY <2>1 DEF CycleType
  <2>3. \A r \in reports : r.end \in Nat
    BY <1>0, <2>1 DEF ReportsTyped
  <2>4. cycle.n \in Nat
    BY <2>1, <2>2
  <2>5. cycle.end \in Nat
    <3>1. cycle.end \in Hours \/ cycle.end = 0
      BY <2>2
    <3> QED
      BY <3>1 DEF Hours
  <2> QED
    BY <2>2, <2>3, <2>4, <2>5
<1>b. CycleIsNext
  BY <1>0
<1> USE <1>b DEF CycleIsNext, NoCycle
<1>1. CASE UNCHANGED reportsVars
  BY <1>1 DEF reportsVars
<1>2. CASE NextHour
  BY <1>0, <1>a, <1>2 DEF NextHour, Hours
<1>3. CASE BeginCycle
  <2>1. cycle' = [step |-> "snapshot", end |-> hour, n |-> 0, start |-> 0, found |-> {}]
        /\ reports' = reports /\ hour' = hour /\ cycle.step = "idle" /\ nextRun <= hour
    BY <1>3, <1>0 DEF BeginCycle
  <2>2. \A r \in reports : r.end < hour
    BY <2>1, <1>0, <1>a
  <2>3. hour # 0 /\ hour <= hour
    BY <1>0
  <2> QED
    BY <2>1, <2>2, <2>3
<1>4. CASE Snapshot
  <2>1. cycle' = [cycle EXCEPT !.step = "previous", !.n = 1]
        /\ reports' = reports /\ hour' = hour /\ cycle.step = "snapshot" /\ cycle.n = 0
    BY <1>4 DEF Snapshot
  <2>2. cycle'.step = "previous" /\ cycle'.n = 1 /\ cycle'.end = cycle.end
    BY <2>1, <1>0 DEF ReportsTyped, CycleType
  <2> QED
    BY <2>1, <2>2
<1>5. CASE FindPrevious
  <2>1. cycle'.step = "queries" /\ cycle'.n = cycle.n /\ cycle'.end = cycle.end
        /\ reports' = reports /\ hour' = hour /\ cycle.step = "previous"
    BY <1>5, <1>0 DEF FindPrevious, ReportsTyped, CycleType
  <2> QED
    BY <2>1
<1>6. CASE QueryItems
  <2>1. cycle'.step = "insert" /\ cycle'.n = cycle.n /\ cycle'.end = cycle.end
        /\ reports' = reports /\ hour' = hour /\ cycle.step = "queries"
    BY <1>6, <1>0 DEF QueryItems, ReportsTyped, CycleType
  <2> QED
    BY <2>1
<1>7. CASE InsertReport
  <2>1. cycle'.step = "push" /\ cycle'.n = cycle.n /\ cycle'.end = cycle.end
        /\ hour' = hour /\ cycle.step = "insert"
    BY <1>7, <1>0 DEF InsertReport, ReportsTyped, CycleType
  <2>2. reports' = reports \cup {[site |-> SiteOrder[cycle.n], start |-> cycle.start, end |-> cycle.end,
                                  items |-> cycle.found]}
    BY <1>7 DEF InsertReport, PeriodEnd, Current
  <2>3. \A r \in reports' : r \in reports \/ (r.site = SiteOrder[cycle.n] /\ r.end = cycle.end)
    BY <2>2
  <2>4. cycle.n \in 1 .. cycle.n /\ cycle.end <= hour
    BY <2>1, <1>a
  <2> QED
    BY <2>1, <2>3, <2>4, <1>a
<1>8. CASE PushReport
  <2>1. reports' = reports /\ hour' = hour /\ cycle.step = "push" /\ cycle.n # 0
    BY <1>8 DEF PushReport
  <2>2. CASE /\ cycle' = [cycle EXCEPT !.step = "previous", !.n = @ + 1, !.found = {}, !.start = 0]
             /\ cycle.n + 1 \in DOMAIN SiteOrder
    <3>1. cycle'.step = "previous" /\ cycle'.n = cycle.n + 1 /\ cycle'.end = cycle.end
      BY <2>2, <1>0 DEF ReportsTyped, CycleType
    <3>2. \A m \in 1 .. cycle.n : m \in 1 .. cycle'.n /\ m # cycle'.n
      BY <3>1, <1>a
    <3>3. \A r \in reports : \/ r.end < cycle.end
                             \/ r.end = cycle.end /\ \E m \in 1 .. cycle.n : r.site = SiteOrder[m]
      BY <2>1
    <3>4. cycle'.n # 0
      BY <3>1, <1>a
    <3> QED
      BY <2>1, <3>1, <3>2, <3>3, <3>4
  <2>3. CASE cycle' = NoCycle /\ nextRun' = NextMorning
    BY <2>1, <2>3, <1>0, <1>a, NextMorningIsLater DEF NextMorning
  <2> QED
    BY <1>8, <2>2, <2>3 DEF PushReport
<1>9. CASE CycleFails
  BY <1>9, NextMorningIsLater, <1>0, <1>a DEF CycleFails, NextMorning
<1>10. ASSUME NEW i \in Items, NEW s \in Sites \cup {Unlinked}, Occur(i, s) PROVE CycleIsNext'
  BY <1>0, <1>10 DEF Occur
<1>11. ASSUME NEW i \in Items, NEW s \in Sites, Join(i, s) PROVE CycleIsNext'
  BY <1>11 DEF Join
<1> QED
  BY <1>1, <1>2, <1>3, <1>4, <1>5, <1>6, <1>7, <1>8, <1>9, <1>10, <1>11 DEF ReportsNext

\* The report that is written continues the latest one of its site.
NewReport == [site |-> Current, start |-> cycle.start, end |-> cycle.end, items |-> cycle.found]

LEMMA NewReportContinues ==
  ASSUME ReportsInv, InsertReport
  PROVE  /\ reports' = reports \cup {NewReport}
         /\ cycle.end \in Hours /\ cycle.start \in Int /\ Current \in Sites
         /\ \A r \in OfSite(Current) : r.end < cycle.end
         /\ OfSite(Current) # {} => IsLatest(Current, cycle.start)
<1>1. cycle.step = "insert" /\ reports' = reports \cup {NewReport}
  BY DEF InsertReport, PeriodEnd, NewReport
<1>2. cycle.end \in Hours /\ cycle.start \in Int /\ cycle.n \in DOMAIN SiteOrder
  BY <1>1 DEF ReportsInv, ReportsTyped, CycleIsNext, CycleType
<1>3. ASSUME NEW r \in OfSite(Current) PROVE r.end < cycle.end
  <2>1. SUFFICES ASSUME r.end = cycle.end PROVE FALSE
    BY <1>1, <1>3 DEF ReportsInv, CycleIsNext, OfSite
  <2>2. PICK m \in 1 .. cycle.n : r.site = SiteOrder[m] /\ (m = cycle.n => cycle.step = "push")
    BY <1>1, <1>2, <2>1 DEF ReportsInv, CycleIsNext, OfSite, Hours
  <2>3. m \in DOMAIN SiteOrder /\ SiteOrder[m] = SiteOrder[cycle.n]
    BY <1>2, <2>2, SitesOfOrder DEF OfSite, Current
  <2> QED
    BY <1>1, <1>2, <2>2, <2>3, ReportsAssumption
<1>4. OfSite(Current) # {} => IsLatest(Current, cycle.start)
  BY <1>1 DEF ReportsInv, NextReport
<1> QED
  BY <1>1, <1>2, <1>3, <1>4, SitesOfOrder DEF Current

\* Of the reports, every other step leaves all there are.
LEMMA OnlyInsertsReport == [ReportsNext]_reportsVars => reports' = reports \/ InsertReport
BY DEF ReportsNext, reportsVars, NextHour, BeginCycle, Snapshot, FindPrevious, QueryItems, PushReport,
       CycleFails, Occur, Join

LEMMA ReportsNextChained == ReportsInv /\ [ReportsNext]_reportsVars => ReportsAreChained'
<1> SUFFICES ASSUME ReportsInv, [ReportsNext]_reportsVars, NEW q \in reports', NEW r \in reports',
                    q.site = r.site, q.end < r.end
             PROVE  /\ q.end <= r.start /\ r.start < r.end
                    /\ \E p \in reports' : p.site = r.site /\ p.end = r.start
  BY DEF ReportsAreChained, OfSite
<1>1. CASE q \in reports /\ r \in reports
  <2>1. reports \subseteq reports'
    BY OnlyInsertsReport, NewReportContinues
  <2>2. q.end <= r.start /\ r.start < r.end /\ \E p \in reports : p.site = r.site /\ p.end = r.start
    BY <1>1 DEF ReportsInv, ReportsAreChained, OfSite
  <2> QED
    BY <2>1, <2>2
<1>2. CASE q \notin reports \/ r \notin reports
  <2>1. InsertReport
    BY <1>2, OnlyInsertsReport
  <2>2. /\ NewReport.site = Current /\ NewReport.start = cycle.start /\ NewReport.end = cycle.end
        /\ cycle.end \in Hours /\ reports' = reports \cup {NewReport}
        /\ \A p \in reports : p.site = Current => p.end < cycle.end /\ p.end \in Hours
    BY <2>1, NewReportContinues DEF NewReport, OfSite, ReportsInv, ReportsTyped
  <2>3. r = NewReport /\ q \in reports
    BY <1>2, <2>2 DEF Hours
  <2>4. IsLatest(Current, cycle.start)
    BY <2>1, <2>2, <2>3, NewReportContinues DEF OfSite
  <2> QED
    BY <2>2, <2>3, <2>4 DEF IsLatest, OfSite
<1> QED
  BY <1>1, <1>2

LEMMA ReportsNextCover == ReportsInv /\ [ReportsNext]_reportsVars => ReportsCover'
<1> SUFFICES ASSUME ReportsInv, [ReportsNext]_reportsVars, NEW q \in reports', NEW r \in reports',
                    NEW t \in Hours, q.site = r.site, q.start <= t, t < r.end
             PROVE  \E p \in reports' : p.site = r.site /\ p.start <= t /\ t < p.end
  BY DEF ReportsCover, OfSite
<1>1. CASE q \in reports /\ r \in reports
  <2>1. reports \subseteq reports'
    BY OnlyInsertsReport, NewReportContinues
  <2>2. \E p \in reports : p.site = r.site /\ p.start <= t /\ t < p.end
    BY <1>1 DEF ReportsInv, ReportsCover, OfSite
  <2> QED
    BY <2>1, <2>2
<1>2. CASE q \notin reports \/ r \notin reports
  <2>1. InsertReport
    BY <1>2, OnlyInsertsReport
  <2>2. /\ NewReport.site = Current /\ NewReport.start = cycle.start /\ NewReport.end = cycle.end
        /\ cycle.end \in Hours /\ cycle.start \in Int /\ reports' = reports \cup {NewReport}
        /\ \A p \in reports : p.site = Current => p.end < cycle.end /\ p.end \in Hours
    BY <2>1, NewReportContinues DEF NewReport, OfSite, ReportsInv, ReportsTyped
  <2>3. r.site = Current /\ t < cycle.end
    BY <1>2, <2>2 DEF Hours
  <2>4. CASE cycle.start <= t
    BY <2>2, <2>3, <2>4
  <2>5. CASE t < cycle.start
    <3>1. q \in reports
      BY <2>2, <2>5 DEF Hours
    <3>2. IsLatest(Current, cycle.start)
      BY <2>1, <2>3, <3>1, NewReportContinues DEF OfSite
    <3>3. PICK last \in reports : last.site = Current /\ last.end = cycle.start
      BY <3>2 DEF IsLatest, OfSite
    <3>4. \E p \in reports : p.site = Current /\ p.start <= t /\ t < p.end
      BY <2>3, <2>5, <3>1, <3>3 DEF ReportsInv, ReportsCover, OfSite
    <3> QED
      BY <2>2, <2>3, <3>4
  <2> QED
    BY <2>2, <2>4, <2>5 DEF Hours
<1> QED
  BY <1>1, <1>2

LEMMA ReportsNextLatest == ReportsInv /\ [ReportsNext]_reportsVars => SitesHaveLatest'
<1> SUFFICES ASSUME ReportsInv, [ReportsNext]_reportsVars, NEW s \in Sites, OfSite(s)' # {}
             PROVE  \E end \in Hours : /\ \E r \in reports' : r.site = s /\ r.end = end
                                       /\ \A r \in reports' : r.site = s => r.end <= end
  BY DEF SitesHaveLatest, IsLatest, OfSite
<1>1. CASE reports' = reports
  BY <1>1 DEF ReportsInv, SitesHaveLatest, IsLatest, OfSite
<1>2. CASE InsertReport
  <2>1. /\ NewReport.site = Current /\ NewReport.end = cycle.end
        /\ cycle.end \in Hours /\ reports' = reports \cup {NewReport}
        /\ \A p \in reports : p.site = Current => p.end < cycle.end /\ p.end \in Hours
    BY <1>2, NewReportContinues DEF NewReport, OfSite, ReportsInv, ReportsTyped
  <2>2. CASE s = Current
    BY <2>1, <2>2 DEF Hours
  <2>3. CASE s # Current
    <3>1. OfSite(s) # {}
      BY <2>1, <2>3 DEF OfSite
    <3>2. \E end \in Hours : /\ \E r \in reports : r.site = s /\ r.end = end
                             /\ \A r \in reports : r.site = s => r.end <= end
      BY <3>1 DEF ReportsInv, SitesHaveLatest, IsLatest, OfSite
    <3> QED
      BY <2>1, <2>3, <3>2
  <2> QED
    BY <2>2, <2>3
<1> QED
  BY <1>1, <1>2, OnlyInsertsReport

LEMMA AfterPush ==
  ASSUME cycle \in CycleType, PushReport
  PROVE  \/ cycle' = NoCycle /\ cycle'.step = "idle" /\ nextRun' = NextMorning
         \/ cycle'.step = "previous" /\ cycle'.end = cycle.end
<1>1. CASE cycle' = [cycle EXCEPT !.step = "previous", !.n = @ + 1, !.found = {}, !.start = 0]
  BY <1>1 DEF CycleType
<1>2. CASE cycle' = NoCycle /\ nextRun' = NextMorning
  BY <1>2 DEF NoCycle
<1> QED
  BY <1>1, <1>2 DEF PushReport

LEMMA ReportsNextPast == ReportsInv /\ [ReportsNext]_reportsVars => ListedIsPast'
<1> SUFFICES ASSUME ReportsInv, [ReportsNext]_reportsVars, NEW r \in reports', NEW i \in r.items
             PROVE  /\ occurred'[i] # 0 /\ occurred'[i] >= r.start
                    /\ cycle'.step = "idle" => occurred'[i] < nextRun'
                    /\ cycle'.step # "idle" /\ r.end < cycle'.end => occurred'[i] < cycle'.end
                    /\ \A q \in reports' : q.site = r.site /\ r.end < q.end => occurred'[i] < q.end
  BY DEF ListedIsPast, OfSite
<1>0. /\ hour \in Nat /\ nextRun \in Nat /\ cycle \in CycleType
      /\ \A j \in Items : occurred[j] \in Nat /\ occurred[j] <= hour
      /\ \A q \in reports : q.items \subseteq Items /\ q.end \in Nat /\ q.start \in Int
      /\ occurred \in [Items -> Hours \cup {0}]
  BY DEF ReportsInv, ReportsTyped, Hours
<1>b. cycle.end \in Nat
  BY <1>0 DEF CycleType, Hours
<1>1. CASE r \in reports
  <2>1. /\ occurred[i] # 0 /\ occurred[i] >= r.start /\ i \in Items
        /\ cycle.step = "idle" => occurred[i] < nextRun
        /\ cycle.step # "idle" /\ r.end < cycle.end => occurred[i] < cycle.end
        /\ \A q \in reports : q.site = r.site /\ r.end < q.end => occurred[i] < q.end
    BY <1>1, <1>0 DEF ReportsInv, ListedIsPast, OfSite
  <2>2. occurred'[i] = occurred[i]
    BY <2>1, <1>0 DEF ReportsNext, reportsVars, NextHour, BeginCycle, Snapshot, FindPrevious, QueryItems,
      InsertReport, PushReport, CycleFails, Occur, Join
  <2>3. ASSUME NEW q \in reports', q.site = r.site, r.end < q.end PROVE occurred[i] < q.end
    <3>1. CASE q \in reports
      BY <2>1, <2>3, <3>1
    <3>2. CASE q \notin reports
      <4>1. InsertReport
        BY <3>2, OnlyInsertsReport
      <4>2. q = NewReport /\ NewReport.end = cycle.end
        BY <4>1, <3>2, NewReportContinues DEF NewReport
      <4> QED
        BY <4>1, <4>2, <2>1, <2>3 DEF InsertReport
    <3> QED
      BY <3>1, <3>2
  <2>4. cycle'.step = "idle" => occurred[i] < nextRun'
    <3>1. \/ UNCHANGED <<cycle, nextRun>> \/ cycle'.step # "idle"
          \/ nextRun' = NextMorning
      <4>1. CASE Snapshot \/ FindPrevious \/ QueryItems \/ InsertReport
        BY <4>1, <1>0 DEF Snapshot, FindPrevious, QueryItems, InsertReport, CycleType
      <4>2. CASE BeginCycle
        BY <4>2, <1>0 DEF BeginCycle, NoCycle, CycleType
      <4>3. CASE PushReport
        BY <4>3, <1>0, AfterPush
      <4> QED
        BY <4>1, <4>2, <4>3 DEF ReportsNext, reportsVars, NextHour, CycleFails, Occur, Join
    <3> QED
      BY <3>1, <2>1, <1>0, NextMorningIsLater DEF NextMorning
  <2>5. cycle'.step # "idle" /\ r.end < cycle'.end => occurred[i] < cycle'.end
    <3>1. CASE BeginCycle
      <4>1. cycle'.end = hour /\ occurred[i] < nextRun /\ nextRun <= hour
        BY <3>1, <2>1 DEF BeginCycle, NoCycle
      <4> QED
        BY <4>1, <1>0, <2>1
    <3>2. CASE ~BeginCycle
      <4>1. CASE Snapshot \/ FindPrevious \/ QueryItems \/ InsertReport
        BY <4>1, <1>0, <2>1 DEF Snapshot, FindPrevious, QueryItems, InsertReport, CycleType
      <4>2. CASE PushReport
        BY <4>2, <1>0, <2>1, AfterPush DEF PushReport, NoCycle
      <4>3. CASE CycleFails
        BY <4>3 DEF CycleFails, NoCycle
      <4>4. CASE UNCHANGED cycle
        BY <4>4, <2>1
      <4> QED
        BY <3>2, <4>1, <4>2, <4>3, <4>4 DEF ReportsNext, reportsVars, NextHour, Occur, Join
    <3> QED
      BY <3>1, <3>2
  <2> QED
    BY <2>1, <2>2, <2>3, <2>4, <2>5
<1>2. CASE r \notin reports
  <2>1. InsertReport
    BY <1>2, OnlyInsertsReport
  <2>2. /\ r = NewReport /\ NewReport.end = cycle.end /\ NewReport.start = cycle.start
        /\ NewReport.items = cycle.found /\ NewReport.site = Current
        /\ reports' = reports \cup {NewReport}
        /\ \A q \in reports : q.site = Current => q.end < cycle.end
    BY <2>1, <1>2, NewReportContinues DEF NewReport, OfSite
  <2>3. occurred[i] # 0 /\ occurred[i] >= cycle.start /\ occurred' = occurred
    BY <2>1, <2>2 DEF InsertReport, ReportsInv, NextReport
  <2>4. cycle'.step = "push" /\ cycle'.end = cycle.end
    BY <2>1, <1>0 DEF InsertReport, CycleType
  <2>5. \A q \in reports' : q.site = Current => q.end <= cycle.end
    BY <2>2, <1>0, <1>b
  <2>6. cycle.end < cycle.end => FALSE
    BY <1>b
  <2> QED
    BY <2>2, <2>3, <2>4, <2>5, <1>b, <1>0
<1> QED
  BY <1>1, <1>2

\* What changes the items leaves every list of what ended before complete.
LEMMA ListsStay ==
  ASSUME ReportsInv, [ReportsNext]_reportsVars,
         NEW s \in Sites, NEW start \in Int, NEW end \in Nat, NEW items,
         ListsAll(s, start, end, items),
         end <= hour, end = cycle.end \/ \E r \in reports : r.end = end
  PROVE  ListsAll(s, start, end, items)'
<1>0. /\ hour \in Nat /\ cycle.end \in Nat
      /\ \A j \in Items : occurred[j] \in Nat /\ occurred[j] <= hour
      /\ \A q \in reports : q.end \in Nat
      /\ occurred \in [Items -> Hours \cup {0}] /\ site \in [Items -> Sites \cup {Unlinked}]
  BY DEF ReportsInv, ReportsTyped, Hours, CycleType
<1>1. CASE UNCHANGED <<occurred, site, late>>
  BY <1>1 DEF ListsAll
<1>2. ASSUME NEW i \in Items, NEW t \in Sites \cup {Unlinked}, Occur(i, t) PROVE ListsAll(s, start, end, items)'
  BY <1>0, <1>2 DEF ListsAll, Occur
<1>3. ASSUME NEW i \in Items, NEW t \in Sites, Join(i, t) PROVE ListsAll(s, start, end, items)'
  <2>1. i \notin late' => ~(cycle.end >= occurred[i]) /\ \A r \in reports : ~(r.end >= occurred[i])
    BY <1>3 DEF Join
  <2>2. i \notin late' => occurred[i] > end
    BY <1>0, <2>1
  <2> QED
    BY <1>0, <1>3, <2>2 DEF ListsAll, Join
<1> QED
  BY <1>1, <1>2, <1>3 DEF ReportsNext, reportsVars, NextHour, BeginCycle, Snapshot, FindPrevious, QueryItems,
      InsertReport, PushReport, CycleFails

LEMMA ReportsNextComplete == ReportsInv /\ [ReportsNext]_reportsVars => ReportsAreComplete'
<1> SUFFICES ASSUME ReportsInv, [ReportsNext]_reportsVars, NEW r \in reports'
             PROVE  ListsAll(r.site, r.start, r.end, r.items)'
  BY DEF ReportsAreComplete
<1>1. CASE r \in reports
  <2>1. /\ r.site \in Sites /\ r.start \in Int /\ r.end \in Nat /\ r.end <= hour
        /\ ListsAll(r.site, r.start, r.end, r.items)
    BY <1>1 DEF ReportsInv, ReportsTyped, ReportsAreComplete, CycleIsNext, Hours
  <2> QED
    BY <1>1, <2>1, ListsStay
<1>2. CASE r \notin reports
  <2>1. InsertReport
    BY <1>2, OnlyInsertsReport
  <2>2. /\ r.end = cycle.end /\ r.start = cycle.start /\ r.items = cycle.found /\ r.site = Current
    BY <2>1, <1>2, NewReportContinues DEF NewReport
  <2>3. ListsAll(Current, cycle.start, cycle.end, cycle.found)
    BY <2>1 DEF InsertReport, ReportsInv, NextReport
  <2> QED
    BY <2>1, <2>2, <2>3 DEF ListsAll, InsertReport
<1> QED
  BY <1>1, <1>2

LEMMA ReportsNextReport == ReportsInv /\ [ReportsNext]_reportsVars => NextReport'
<1> SUFFICES ASSUME ReportsInv, [ReportsNext]_reportsVars PROVE NextReport'
  OBVIOUS
<1>0. cycle \in CycleType /\ hour \in Nat /\ ReportsTyped /\ SitesHaveLatest /\ CycleIsNext /\ NextReport
  BY DEF ReportsInv, ReportsTyped, Hours
<1>1. CASE FindPrevious
  <2>1. Current \in Sites
    BY <1>0, <1>1, SitesOfOrder DEF FindPrevious, CycleIsNext, CycleType, Current
  <2>2. /\ cycle'.step = "queries" /\ cycle'.start = PeriodStart(Current)
        /\ cycle'.n = cycle.n /\ reports' = reports
    BY <1>0, <1>1 DEF FindPrevious, CycleType
  <2>3. OfSite(Current) # {} => IsLatest(Current, cycle'.start)
    BY <2>1, <2>2, <1>0, LatestIsStart
  <2> QED
    BY <2>2, <2>3 DEF NextReport, IsLatest, OfSite, Current
<1>2. CASE QueryItems
  <2>1. /\ cycle'.step = "insert" /\ cycle'.start = cycle.start
        /\ cycle'.n = cycle.n /\ cycle'.end = cycle.end
        /\ cycle'.found = Found /\ UNCHANGED <<reports, occurred, site, late>> /\ cycle.step = "queries"
    BY <1>0, <1>2 DEF QueryItems, CycleType
  <2>2. ListsAll(Current, cycle.start, cycle.end, Found)
    BY <1>0 DEF ListsAll, Found, CycleType, ReportsTyped, Hours
  <2>3. \A i \in Found : occurred[i] # 0 /\ occurred[i] >= cycle.start
    BY DEF Found
  <2>4. ListsAll(Current, cycle.start, cycle.end, Found)'
    BY <2>1, <2>2 DEF ListsAll, Current, Found
  <2> QED
    BY <1>0, <2>1, <2>2, <2>3 DEF NextReport, IsLatest, OfSite, Current, ListsAll
<1>3. CASE cycle'.step \notin {"queries", "insert"}
  BY <1>3 DEF NextReport
<1>4. CASE UNCHANGED <<cycle, reports>> /\ cycle.step \in {"queries", "insert"}
  <2>1. OfSite(Current) # {} => IsLatest(Current, cycle.start)
    BY <1>0, <1>4 DEF NextReport
  <2>2. ASSUME cycle.step = "insert"
        PROVE  /\ ListsAll(Current, cycle.start, cycle.end, cycle.found)'
               /\ \A i \in cycle.found : occurred'[i] # 0 /\ occurred'[i] >= cycle.start
    <3>1. /\ ListsAll(Current, cycle.start, cycle.end, cycle.found)
          /\ \A i \in cycle.found : occurred[i] # 0 /\ occurred[i] >= cycle.start
      BY <1>0, <2>2 DEF NextReport
    <3>2. Current \in Sites /\ cycle.start \in Int /\ cycle.end \in Nat /\ cycle.end <= hour
          /\ cycle.found \subseteq Items
      BY <1>0, <2>2, SitesOfOrder DEF CycleIsNext, CycleType, Current, Hours
    <3>3. \A s \in Sites : \A start \in Int : \A end \in Nat : \A items \in SUBSET Items :
            ListsAll(s, start, end, items) /\ end <= hour /\ end = cycle.end => ListsAll(s, start, end, items)'
      BY ListsStay
    <3>4. ListsAll(Current, cycle.start, cycle.end, cycle.found)'
      BY <1>4, <3>1, <3>2, <3>3 DEF ListsAll, Current
    <3>5. \A i \in cycle.found : occurred'[i] = occurred[i]
      BY <1>0, <1>4, <3>1, <3>2 DEF ReportsNext, reportsVars, NextHour, BeginCycle, Snapshot,
        FindPrevious, QueryItems, InsertReport, PushReport, CycleFails, Occur, Join, ReportsTyped
    <3> QED
      BY <3>1, <3>4, <3>5
  <2> QED
    BY <1>4, <2>1, <2>2 DEF NextReport, IsLatest, OfSite, Current, ListsAll
<1>5. \/ FindPrevious \/ QueryItems \/ cycle'.step \notin {"queries", "insert"}
      \/ UNCHANGED <<cycle, reports>> /\ cycle.step \in {"queries", "insert"}
  <2>1. CASE Snapshot \/ InsertReport \/ BeginCycle
    BY <2>1, <1>0 DEF Snapshot, InsertReport, BeginCycle, NoCycle, CycleType
  <2>2. CASE PushReport \/ CycleFails
    BY <2>2, <1>0, AfterPush DEF CycleFails, NoCycle
  <2>3. CASE UNCHANGED <<cycle, reports>>
    BY <2>3
  <2> QED
    BY <2>1, <2>2, <2>3 DEF ReportsNext, reportsVars, NextHour, Occur, Join
<1> QED
  BY <1>1, <1>2, <1>3, <1>4, <1>5

LEMMA ReportsNextInv == ReportsInv /\ [ReportsNext]_reportsVars => ReportsInv'
<1> SUFFICES ASSUME ReportsInv, [ReportsNext]_reportsVars PROVE ReportsInv'
  OBVIOUS
<1>1. ReportsTyped'
  BY ReportsNextTyped DEF ReportsInv
<1> QED
  BY <1>1, ReportsNextCycle, ReportsNextPast, ReportsNextChained, ReportsNextCover, ReportsNextComplete,
     ReportsNextLatest, ReportsNextReport DEF ReportsInv

\* The snapshots are counted, and so are the failures.
ReportsOfType == failures \in 0 .. MaxFailures /\ snapshots \in [Hours -> Nat]

LEMMA ReportsInitOfType == ReportsInit => ReportsOfType
BY ReportsAssumption DEF ReportsInit, ReportsOfType

LEMMA ReportsNextOfType == ReportsOfType /\ [ReportsNext]_reportsVars => ReportsOfType'
<1> SUFFICES ASSUME ReportsOfType, [ReportsNext]_reportsVars PROVE ReportsOfType'
  OBVIOUS
<1>1. CASE Snapshot
  <2>1. snapshots' = [snapshots EXCEPT ![cycle.end] = snapshots[cycle.end] + 1]
    BY <1>1 DEF Snapshot
  <2>2. snapshots' \in [Hours -> Nat]
    <3>1. CASE cycle.end \in Hours
      <4>1. snapshots[cycle.end] + 1 \in Nat
        BY <3>1 DEF ReportsOfType
      <4> QED
        BY <2>1, <3>1, <4>1 DEF ReportsOfType
    <3>2. CASE cycle.end \notin Hours
      BY <2>1, <3>2 DEF ReportsOfType
    <3> QED
      BY <3>1, <3>2
  <2> QED
    BY <1>1, <2>2 DEF Snapshot, ReportsOfType
<1>2. CASE CycleFails
  <2>1. failures' \in 0 .. MaxFailures
    BY <1>2, ReportsAssumption DEF CycleFails, ReportsOfType
  <2> QED
    BY <1>2, <2>1 DEF CycleFails, ReportsOfType
<1>3. CASE ~Snapshot /\ ~CycleFails
  <2>1. UNCHANGED <<failures, snapshots>>
    BY <1>3 DEF ReportsNext, reportsVars, NextHour, BeginCycle, FindPrevious, QueryItems, InsertReport,
       PushReport, Occur, Join
  <2> QED
    BY <2>1 DEF ReportsOfType
<1> QED
  BY <1>1, <1>2, <1>3

LEMMA ReportsInvSkips == ReportsInv => NothingIsSkipped
<1> SUFFICES ASSUME ReportsInv, NEW i \in Items \ late, NEW r \in reports,
                    r.site = site[i], r.end > occurred[i],
                    NEW q \in reports, q.site = r.site, q.start <= occurred[i]
             PROVE  \E p \in reports : p.site = r.site /\ i \in p.items
  BY DEF NothingIsSkipped
<1>1. r.site \in Sites /\ site[i] # Unlinked
  BY ReportsAssumption DEF ReportsInv, ReportsTyped
<1>2. occurred[i] \in Hours /\ occurred[i] # 0
  BY <1>1 DEF ReportsInv, ReportsTyped, Hours
<1>3. PICK p \in reports : p.site = r.site /\ p.start <= occurred[i] /\ occurred[i] < p.end
  BY <1>2 DEF ReportsInv, ReportsCover, OfSite, ReportsTyped
<1> QED
  BY <1>2, <1>3 DEF ReportsInv, ReportsAreComplete, ListsAll

LEMMA ReportsInvTwice == ReportsInv => TwiceOnlyAtTheBorder
<1> SUFFICES ASSUME ReportsInv, NEW i \in Items, NEW q \in reports, NEW r \in reports,
                    q.site = r.site, q.end < r.end, i \in q.items, i \in r.items
             PROVE  /\ r.start = q.end /\ occurred[i] >= q.end
                    /\ \A t \in reports : t.site = r.site /\ i \in t.items => t.end \in {q.end, r.end}
  BY DEF TwiceOnlyAtTheBorder
<1>0. /\ \A t \in reports : t.start \in Int /\ t.end \in Nat
      /\ occurred[i] \in Nat
  BY DEF ReportsInv, ReportsTyped, Hours
\* Two reports that list i are next to each other.
<1>1. ASSUME NEW t \in reports, NEW u \in reports, t.site = u.site, t.end < u.end,
             i \in t.items, i \in u.items
      PROVE  u.start = t.end /\ occurred[i] >= t.end /\ occurred[i] < u.end
  <2>1. occurred[i] >= u.start /\ occurred[i] < u.end
    BY <1>1 DEF ReportsInv, ListedIsPast, OfSite
  <2>2. t.end <= u.start
    BY <1>1 DEF ReportsInv, ReportsAreChained
  <2>3. PICK p \in reports : p.site = u.site /\ p.end = u.start
    BY <1>1 DEF ReportsInv, ReportsAreChained, OfSite
  <2>4. t.end < p.end => occurred[i] < p.end
    BY <1>1, <2>3 DEF ReportsInv, ListedIsPast, OfSite
  <2> QED
    BY <1>0, <2>1, <2>2, <2>3, <2>4
<1>2. r.start = q.end /\ occurred[i] >= q.end /\ occurred[i] < r.end
  BY <1>1
<1>3. ASSUME NEW t \in reports, t.site = r.site, i \in t.items PROVE t.end \in {q.end, r.end}
  <2>1. CASE t.end < q.end
    BY <1>0, <1>1, <1>2, <1>3, <2>1
  <2>2. CASE q.end < t.end /\ t.end < r.end
    BY <1>0, <1>1, <1>2, <1>3, <2>2
  <2>3. CASE r.end < t.end
    BY <1>0, <1>1, <1>2, <1>3, <2>3
  <2> QED
    BY <1>0, <2>1, <2>2, <2>3
<1> QED
  BY <1>2, <1>3

\* Consecutive daily reports of a site neither skip an item nor repeat it away from the border.
THEOREM ReportsAreConsecutive == ReportsSpec => []NothingIsLostOrRepeated
<1>1. ReportsInv => NothingIsLostOrRepeated
  BY ReportsInvSkips, ReportsInvTwice DEF NothingIsLostOrRepeated
<1> QED
  BY <1>1, ReportsInitInv, ReportsNextInv, PTL DEF ReportsSpec

-----------------------------------------------------------------------------
(* Accounts.                                                               *)

\* A handler has what its kind carries; a plain text is upgraded only when it was one.
LoginRequests == [op : {"login"}, step : {"upgrade", "write"}, id : Users, text : Texts,
                  plain : BOOLEAN, role : Roles]
PasswordRequests == [op : {"password"}, step : {"upgrade", "write"}, id : Users, text : Texts,
                     plain : BOOLEAN, new : Texts]
RoleRequests == [op : {"role"}, step : {"count", "write"}, id : Users, role : Roles]
DeleteRequests == [op : {"delete"}, step : {"count", "write"}, id : Users]

RequestsAreTyped ==
  request \in [Requests -> {NoRequest} \cup LoginRequests \cup PasswordRequests
                           \cup RoleRequests \cup DeleteRequests]

UpgradesArePlain ==
  \A h \in Requests : request[h] # NoRequest /\ request[h].step = "upgrade" => request[h].plain

\* The row that a request about roles has decided to write leaves another administrator.
Harmless(h) ==
  \/ request[h].op = "role" /\ request[h].role = "admin"
  \/ Admins \ {request[h].id} # {}

\* As long as such requests did not overlap there is one of them at most.
OneGuardedRequest ==
  /\ Admins # {}
  /\ \A g, h \in Requests : RoleRequest(g) /\ RoleRequest(h) => g = h
  /\ \A h \in Requests : RoleRequest(h) /\ request[h].step = "write" => Harmless(h)

RolesAreGuarded == ~overlapped => OneGuardedRequest

AccountsTyped ==
  /\ users \in [Users -> UserRows] /\ tokens \in SUBSET [id : Users, role : Roles]
  /\ chosen \in [Users -> Texts] /\ undone \in SUBSET Users /\ overlapped \in BOOLEAN
  /\ RequestsAreTyped

AccountsInv ==
  /\ AccountsTyped
  /\ UpgradesArePlain
  /\ ChosenPasswordStands
  /\ RolesAreGuarded

LEMMA NoRequestIsNone ==
  /\ NoRequest \notin LoginRequests \cup PasswordRequests \cup RoleRequests \cup DeleteRequests
  /\ NoRequest.op \notin {"login", "password", "role", "delete"}
BY DEF NoRequest, LoginRequests, PasswordRequests, RoleRequests, DeleteRequests

LEMMA AccountsInitInv == AccountsInit => AccountsInv
<1> SUFFICES ASSUME AccountsInit PROVE AccountsInv
  OBVIOUS
<1>1. AccountsTyped
  BY AccountsAssumption DEF AccountsInit, AccountsTyped, RequestsAreTyped, UserRows
<1>2. Root \in Admins
  BY AccountsAssumption DEF AccountsInit, Admins, Exists
<1> QED
  BY <1>1, <1>2 DEF AccountsInit, AccountsInv, UpgradesArePlain, ChosenPasswordStands,
     RolesAreGuarded, OneGuardedRequest, RoleRequest

LEMMA AccountsNextTyped == AccountsTyped /\ [AccountsNext]_accountVars => AccountsTyped'
<1> SUFFICES ASSUME AccountsTyped, [AccountsNext]_accountVars PROVE AccountsTyped'
  OBVIOUS
<1> USE DEF AccountsTyped, RequestsAreTyped, Begin, End, UserRows, Roles
<1>1. CASE UNCHANGED accountVars
  BY <1>1 DEF accountVars
<1>2. ASSUME NEW t \in tokens, NEW u \in Users, NEW text \in Texts, NEW role \in Roles,
             CreateUser(t, u, text, role)
      PROVE  AccountsTyped'
  BY <1>2 DEF CreateUser
<1>3. ASSUME NEW h \in Requests, Upgrade(h) PROVE AccountsTyped'
  <2>1. request[h] \in LoginRequests \cup PasswordRequests
    BY <1>3, NoRequestIsNone DEF Upgrade, Doing, LoginRequests, PasswordRequests, RoleRequests,
       DeleteRequests
  <2>2. request' \in [Requests -> {NoRequest} \cup LoginRequests \cup PasswordRequests
                                  \cup RoleRequests \cup DeleteRequests]
    BY <1>3, <2>1 DEF Upgrade, Proceed, LoginRequests, PasswordRequests
  <2>3. request[h].id \in Users /\ request[h].text \in Texts
    BY <2>1 DEF LoginRequests, PasswordRequests
  <2> QED
    BY <1>3, <2>2, <2>3 DEF Upgrade, SetPassword
<1>4. ASSUME NEW h \in Requests, FinishLogin(h) PROVE AccountsTyped'
  <2>1. request[h] \in LoginRequests
    BY <1>4, NoRequestIsNone DEF FinishLogin, Doing, LoginRequests, PasswordRequests, RoleRequests,
       DeleteRequests
  <2> QED
    BY <1>4, <2>1 DEF FinishLogin, LoginRequests
<1>5. ASSUME NEW h \in Requests, FinishChange(h) PROVE AccountsTyped'
  <2>1. request[h] \in PasswordRequests
    BY <1>5, NoRequestIsNone DEF FinishChange, Doing, LoginRequests, PasswordRequests, RoleRequests,
       DeleteRequests
  <2> QED
    BY <1>5, <2>1 DEF FinishChange, PasswordRequests, SetPassword
<1>6. ASSUME NEW h \in Requests, CountAdmins(h) PROVE AccountsTyped'
  <2>1. request[h] \in RoleRequests \cup DeleteRequests
    BY <1>6, NoRequestIsNone DEF CountAdmins, RoleRequest, LoginRequests, PasswordRequests,
       RoleRequests, DeleteRequests
  <2> QED
    BY <1>6, <2>1 DEF CountAdmins, Proceed, RoleRequests, DeleteRequests
<1>7. ASSUME NEW h \in Requests, SetRole(h) PROVE AccountsTyped'
  <2>1. request[h] \in RoleRequests
    BY <1>7, NoRequestIsNone DEF SetRole, Doing, LoginRequests, PasswordRequests, RoleRequests,
       DeleteRequests
  <2> QED
    BY <1>7, <2>1 DEF SetRole, RoleRequests
<1>8. ASSUME NEW h \in Requests, DeleteUser(h) PROVE AccountsTyped'
  <2>1. request[h] \in DeleteRequests
    BY <1>8, NoRequestIsNone DEF DeleteUser, Doing, LoginRequests, PasswordRequests, RoleRequests,
       DeleteRequests
  <2>2. Texts # {}
    BY <2>1 DEF DeleteRequests
  <2>3. [NoRow EXCEPT !.row = "deleted"] \in UserRows
    BY <2>2 DEF NoRow
  <2> QED
    BY <1>8, <2>1, <2>3 DEF DeleteUser, DeleteRequests
<1>9. ASSUME NEW h \in Requests, NEW u \in Users, BeginLogin(h, u) PROVE AccountsTyped'
  BY <1>9 DEF BeginLogin, LoginRequests, AfterMatch
<1>10. ASSUME NEW h \in Requests, NEW t \in tokens, NEW new \in Texts, BeginChange(h, t, new)
       PROVE  AccountsTyped'
  BY <1>10 DEF BeginChange, PasswordRequests, AfterMatch
<1>11. ASSUME NEW h \in Requests, NEW t \in tokens, NEW u \in Users, BeginDelete(h, t, u)
       PROVE  AccountsTyped'
  BY <1>11 DEF BeginDelete, DeleteRequests, Overlap
<1>12. ASSUME NEW h \in Requests, NEW t \in tokens, NEW u \in Users, NEW role \in Roles,
              BeginSetRole(h, t, u, role)
       PROVE  AccountsTyped'
  BY <1>12 DEF BeginSetRole, RoleRequests, Overlap
<1> QED
  BY <1>1, <1>2, <1>3, <1>4, <1>5, <1>6, <1>7, <1>8, <1>9, <1>10, <1>11, <1>12 DEF AccountsNext

LEMMA AccountsNextUpgrades ==
  AccountsTyped /\ UpgradesArePlain /\ [AccountsNext]_accountVars => UpgradesArePlain'
<1> SUFFICES ASSUME AccountsTyped, UpgradesArePlain, [AccountsNext]_accountVars,
                    NEW g \in Requests, request'[g] # NoRequest, request'[g].step = "upgrade"
             PROVE  request'[g].plain
  BY DEF UpgradesArePlain
<1>1. CASE request'[g] = request[g]
  BY <1>1 DEF UpgradesArePlain
<1>2. ASSUME NEW h \in Requests, NEW u \in Users, BeginLogin(h, u) PROVE request'[g].plain
  BY <1>1, <1>2 DEF BeginLogin, Begin, AfterMatch, NeedsUpgrade, AccountsTyped, RequestsAreTyped,
     UserRows
<1>3. ASSUME NEW h \in Requests, NEW t \in tokens, NEW new \in Texts, BeginChange(h, t, new)
      PROVE  request'[g].plain
  BY <1>1, <1>3 DEF BeginChange, Begin, AfterMatch, NeedsUpgrade, AccountsTyped, RequestsAreTyped,
     UserRows
<1>4. ASSUME NEW h \in Requests, Upgrade(h) \/ CountAdmins(h) PROVE request'[g].plain
  <2>1. CASE End(h)
    BY <1>1, <2>1 DEF End, AccountsTyped, RequestsAreTyped
  <2>2. CASE Proceed(h)
    <3>1. CASE g # h
      BY <1>1, <2>2, <3>1 DEF Proceed, AccountsTyped, RequestsAreTyped
    <3>2. request[h] \in LoginRequests \cup PasswordRequests \cup RoleRequests \cup DeleteRequests
      BY <1>4, <2>2, NoRequestIsNone DEF Upgrade, CountAdmins, Doing, RoleRequest, AccountsTyped,
         RequestsAreTyped
    <3>3. request'[h].step = "write"
      BY <2>2, <3>2 DEF Proceed, AccountsTyped, RequestsAreTyped, LoginRequests,
         PasswordRequests, RoleRequests, DeleteRequests
    <3> QED
      BY <3>1, <3>3
  <2> QED
    BY <1>4, <2>1, <2>2 DEF Upgrade, CountAdmins
<1>5. ASSUME NEW h \in Requests, FinishLogin(h) \/ FinishChange(h) \/ SetRole(h) \/ DeleteUser(h)
      PROVE  request'[g].plain
  BY <1>1, <1>5 DEF FinishLogin, FinishChange, SetRole, DeleteUser, End, AccountsTyped, RequestsAreTyped
<1>6. ASSUME NEW h \in Requests, NEW t \in tokens, NEW u \in Users, BeginDelete(h, t, u)
      PROVE  request'[g].plain
  BY <1>1, <1>6 DEF BeginDelete, Begin, AccountsTyped, RequestsAreTyped
<1>7. ASSUME NEW h \in Requests, NEW t \in tokens, NEW u \in Users, NEW role \in Roles,
             BeginSetRole(h, t, u, role)
      PROVE  request'[g].plain
  BY <1>1, <1>7 DEF BeginSetRole, Begin, AccountsTyped, RequestsAreTyped
<1> QED
  BY <1>1, <1>2, <1>3, <1>4, <1>5, <1>6, <1>7 DEF AccountsNext, CreateUser, accountVars

\* Only three statements write a password, and a deletion removes what it was compared with.
LEMMA AccountsNextPasswords ==
  AccountsTyped /\ UpgradesArePlain /\ ChosenPasswordStands /\ [AccountsNext]_accountVars
  => ChosenPasswordStands'
<1> SUFFICES ASSUME AccountsTyped, UpgradesArePlain, ChosenPasswordStands,
                    [AccountsNext]_accountVars,
                    NEW v \in Users, users'[v].row = "present"
             PROVE  users'[v].text = chosen'[v] \/ v \in undone'
  BY DEF ChosenPasswordStands, Exists
<1> USE DEF AccountsTyped, UserRows, Exists
<1>1. CASE UNCHANGED <<users, chosen, undone>>
  BY <1>1 DEF ChosenPasswordStands
<1>2. ASSUME NEW t \in tokens, NEW u \in Users, NEW text \in Texts, NEW role \in Roles,
             CreateUser(t, u, text, role)
      PROVE  users'[v].text = chosen'[v] \/ v \in undone'
  BY <1>2 DEF CreateUser, ChosenPasswordStands
<1>3. ASSUME NEW h \in Requests, Upgrade(h)
      PROVE  users'[v].text = chosen'[v] \/ v \in undone'
  <2>1. request[h] \in LoginRequests \cup PasswordRequests
    BY <1>3, NoRequestIsNone DEF Upgrade, Doing, LoginRequests, PasswordRequests, RoleRequests,
       DeleteRequests, RequestsAreTyped
  <2>2. request[h].plain /\ request[h].id \in Users /\ request[h].text \in Texts
    BY <1>3, <2>1 DEF UpgradesArePlain, Upgrade, Doing, LoginRequests, PasswordRequests
  <2> QED
    BY <1>3, <2>2 DEF Upgrade, SetPassword, ChosenPasswordStands
<1>4. ASSUME NEW h \in Requests, FinishChange(h)
      PROVE  users'[v].text = chosen'[v] \/ v \in undone'
  <2>1. request[h] \in PasswordRequests
    BY <1>4, NoRequestIsNone DEF FinishChange, Doing, LoginRequests, PasswordRequests, RoleRequests,
       DeleteRequests, RequestsAreTyped
  <2>2. request[h].id \in Users /\ request[h].new \in Texts
    BY <2>1 DEF PasswordRequests
  <2> QED
    BY <1>4, <2>2 DEF FinishChange, SetPassword, ChosenPasswordStands
<1>5. ASSUME NEW h \in Requests, SetRole(h)
      PROVE  users'[v].text = chosen'[v] \/ v \in undone'
  BY <1>5 DEF SetRole, ChosenPasswordStands
<1>6. ASSUME NEW h \in Requests, DeleteUser(h)
      PROVE  users'[v].text = chosen'[v] \/ v \in undone'
  <2>1. users'[v] = users[v]
    BY <1>6 DEF DeleteUser, NoRow
  <2> QED
    BY <1>6, <2>1 DEF DeleteUser, ChosenPasswordStands
<1> QED
  BY <1>1, <1>2, <1>3, <1>4, <1>5, <1>6 DEF AccountsNext, FinishLogin, CountAdmins, BeginLogin,
     BeginChange, BeginDelete, BeginSetRole, accountVars

\* More than one administrator means another one than u.
LEMMA MoreThanOne == ASSUME AnotherAdmin, NEW u PROVE Admins \ {u} # {}
<1>1. IsFiniteSet(Admins)
  BY AccountsAssumption, FS_Subset DEF Admins
<1>2. Admins \ {u} = {} => Cardinality(Admins) <= 1
  <2> SUFFICES ASSUME Admins \ {u} = {} PROVE Cardinality(Admins) <= 1
    OBVIOUS
  <2>1. Admins \subseteq {u}
    OBVIOUS
  <2>2. IsFiniteSet({u}) /\ Cardinality({u}) = 1
    BY FS_Singleton
  <2> QED
    BY <2>1, <2>2, FS_Subset
<1>3. Cardinality(Admins) \in Nat
  BY <1>1, FS_CardinalityType
<1> QED
  BY <1>2, <1>3 DEF AnotherAdmin

\* A request about roles changes the roles of one account; every other step only adds some.
LEMMA AccountsNextRoles ==
  AccountsTyped /\ RolesAreGuarded /\ [AccountsNext]_accountVars => RolesAreGuarded'
<1> SUFFICES ASSUME AccountsTyped, RolesAreGuarded, [AccountsNext]_accountVars, ~overlapped'
             PROVE  OneGuardedRequest'
  BY DEF RolesAreGuarded
<1>1. ~overlapped
  BY DEF AccountsNext, accountVars, CreateUser, Upgrade, FinishLogin, FinishChange, CountAdmins,
     SetRole, DeleteUser, BeginLogin, BeginChange, BeginDelete, BeginSetRole, Overlap
<1>2. OneGuardedRequest
  BY <1>1 DEF RolesAreGuarded
<1> USE DEF OneGuardedRequest
<1>3. ASSUME Admins \subseteq Admins',
             \A h \in Requests : RoleRequest(h)' => request'[h] = request[h]
      PROVE  OneGuardedRequest'
  BY <1>2, <1>3 DEF RoleRequest, Harmless
<1>4. CASE UNCHANGED accountVars
  BY <1>3, <1>4 DEF accountVars, Admins, Exists
<1>5. ASSUME NEW t \in tokens, NEW u \in Users, NEW text \in Texts, NEW role \in Roles,
             CreateUser(t, u, text, role)
      PROVE  OneGuardedRequest'
  <2>1. Admins \subseteq Admins'
    BY <1>5 DEF CreateUser, Admins, Exists, AccountsTyped, UserRows
  <2> QED
    BY <1>3, <1>5, <2>1 DEF CreateUser
<1>6. ASSUME NEW h \in Requests, Upgrade(h) PROVE OneGuardedRequest'
  <2>1. request[h] \in LoginRequests \cup PasswordRequests
    BY <1>6, NoRequestIsNone DEF Upgrade, Doing, LoginRequests, PasswordRequests, RoleRequests,
       DeleteRequests, AccountsTyped, RequestsAreTyped
  <2>2. request[h].id \in Users /\ request'[h].op = request[h].op /\ request[h].op \in {"login", "password"}
    BY <1>6, <2>1 DEF Upgrade, Proceed, LoginRequests, PasswordRequests, AccountsTyped, RequestsAreTyped
  <2>3. Admins \subseteq Admins'
    BY <1>6, <2>2 DEF Upgrade, SetPassword, Admins, Exists, AccountsTyped, UserRows
  <2>4. \A g \in Requests : RoleRequest(g)' => request'[g] = request[g]
    BY <1>6, <2>2 DEF Upgrade, Proceed, RoleRequest, AccountsTyped, RequestsAreTyped
  <2> QED
    BY <1>3, <2>3, <2>4
<1>7. ASSUME NEW h \in Requests, FinishLogin(h) PROVE OneGuardedRequest'
  <2>1. \A g \in Requests : RoleRequest(g)' => request'[g] = request[g]
    BY <1>7 DEF FinishLogin, End, RoleRequest, AccountsTyped, RequestsAreTyped
  <2> QED
    BY <1>3, <1>7, <2>1 DEF FinishLogin, Admins, Exists
<1>8. ASSUME NEW h \in Requests, FinishChange(h) PROVE OneGuardedRequest'
  <2>1. \A g \in Requests : RoleRequest(g)' => request'[g] = request[g]
    BY <1>8 DEF FinishChange, End, RoleRequest, AccountsTyped, RequestsAreTyped
  <2>2. Admins \subseteq Admins'
    BY <1>8 DEF FinishChange, SetPassword, Admins, Exists, AccountsTyped, UserRows
  <2> QED
    BY <1>3, <2>1, <2>2
<1>9. ASSUME NEW h \in Requests, CountAdmins(h) PROVE OneGuardedRequest'
  <2>1. request[h] \in RoleRequests \cup DeleteRequests
    BY <1>9, NoRequestIsNone DEF CountAdmins, RoleRequest, LoginRequests, PasswordRequests,
       RoleRequests, DeleteRequests, AccountsTyped, RequestsAreTyped
  <2>2. Admins' = Admins
    BY <1>9 DEF CountAdmins, Admins, Exists
  <2>3. CASE AnotherAdmin
    <3>1. request'[h].id = request[h].id /\ RoleRequest(h)
      BY <1>9, <2>1, <2>3 DEF CountAdmins, Proceed, RoleRequests, DeleteRequests, AccountsTyped,
         RequestsAreTyped
    <3>2. \A g \in Requests : g # h => ~RoleRequest(g)'
      BY <1>2, <1>9, <2>3, <3>1 DEF CountAdmins, Proceed, RoleRequest, AccountsTyped, RequestsAreTyped
    <3>3. Harmless(h)'
      BY <2>2, <2>3, <3>1, MoreThanOne DEF Harmless
    <3> QED
      BY <1>2, <2>2, <3>2, <3>3
  <2>4. CASE ~AnotherAdmin
    <3>1. \A g \in Requests : RoleRequest(g)' => request'[g] = request[g]
      BY <1>9, <2>4 DEF CountAdmins, End, RoleRequest, AccountsTyped, RequestsAreTyped
    <3> QED
      BY <1>3, <2>2, <3>1
  <2> QED
    BY <2>3, <2>4
<1>10. ASSUME NEW h \in Requests, SetRole(h) \/ DeleteUser(h) PROVE OneGuardedRequest'
  <2>1. request[h] \in RoleRequests \cup DeleteRequests
    BY <1>10, NoRequestIsNone DEF SetRole, DeleteUser, Doing, LoginRequests, PasswordRequests,
       RoleRequests, DeleteRequests, AccountsTyped, RequestsAreTyped
  <2>2. RoleRequest(h) /\ Harmless(h)
    BY <1>2, <1>10 DEF SetRole, DeleteUser, Doing, RoleRequest
  <2>3. \A g \in Requests : ~RoleRequest(g)'
    BY <1>2, <1>10, <2>2 DEF SetRole, DeleteUser, End, RoleRequest, AccountsTyped, RequestsAreTyped
  <2>4. Admins \ {request[h].id} \subseteq Admins'
    BY <1>10, <2>1 DEF SetRole, DeleteUser, Admins, Exists, AccountsTyped, UserRows, RoleRequests,
       DeleteRequests
  <2>5. CASE SetRole(h) /\ request[h].role = "admin"
    <3>1. Admins \subseteq Admins'
      BY <2>1, <2>5 DEF SetRole, Admins, Exists, AccountsTyped, UserRows, RoleRequests, DeleteRequests
    <3> QED
      BY <1>2, <2>3, <3>1
  <2>6. CASE ~(SetRole(h) /\ request[h].role = "admin")
    <3>1. Admins \ {request[h].id} # {}
      BY <1>10, <2>2, <2>6 DEF Harmless, DeleteUser, Doing
    <3> QED
      BY <2>3, <2>4, <3>1
  <2> QED
    BY <2>5, <2>6
<1>11. ASSUME NEW h \in Requests, NEW u \in Users, BeginLogin(h, u) PROVE OneGuardedRequest'
  <2>1. \A g \in Requests : RoleRequest(g)' => request'[g] = request[g]
    BY <1>11 DEF BeginLogin, Begin, RoleRequest, AccountsTyped, RequestsAreTyped
  <2> QED
    BY <1>3, <1>11, <2>1 DEF BeginLogin, Admins, Exists
<1>12. ASSUME NEW h \in Requests, NEW t \in tokens, NEW new \in Texts, BeginChange(h, t, new)
       PROVE  OneGuardedRequest'
  <2>1. \A g \in Requests : RoleRequest(g)' => request'[g] = request[g]
    BY <1>12 DEF BeginChange, Begin, RoleRequest, AccountsTyped, RequestsAreTyped
  <2> QED
    BY <1>3, <1>12, <2>1 DEF BeginChange, Admins, Exists
<1>13. ASSUME NEW h \in Requests, NEW t \in tokens, NEW u \in Users,
              \/ BeginDelete(h, t, u)
              \/ \E role \in Roles : BeginSetRole(h, t, u, role)
       PROVE  OneGuardedRequest'
  <2>1. Admins' = Admins
    BY <1>13 DEF BeginDelete, BeginSetRole, Admins, Exists
  <2>2. \A g \in Requests : g # h => ~RoleRequest(g)'
    BY <1>13 DEF BeginDelete, BeginSetRole, Begin, Overlap, RoleRequest, AccountsTyped, RequestsAreTyped
  <2>3. request'[h].step = "write" => Harmless(h)'
    <3>1. u \notin Admins => Admins \ {u} # {}
      BY <1>2
    <3> QED
      BY <1>13, <2>1, <3>1 DEF BeginDelete, BeginSetRole, Begin, Harmless, Admins, AccountsTyped,
         RequestsAreTyped
  <2> QED
    BY <1>2, <2>1, <2>2, <2>3
<1> HIDE DEF OneGuardedRequest
<1> QED
  BY <1>4, <1>5, <1>6, <1>7, <1>8, <1>9, <1>10, <1>11, <1>12, <1>13 DEF AccountsNext

LEMMA AccountsNextInv == AccountsInv /\ [AccountsNext]_accountVars => AccountsInv'
BY AccountsNextTyped, AccountsNextUpgrades, AccountsNextPasswords, AccountsNextRoles DEF AccountsInv

LEMMA AccountsInvariance == AccountsSpec => []AccountsInv
BY AccountsInitInv, AccountsNextInv, PTL DEF AccountsSpec

\* An administrator remains for every number of accounts and requests: the count of countAdmins and
\* the statement after it are of no avail only when two requests about roles overlap.
THEOREM AdminsRemain == AccountsSpec => []AnAdminRemains
<1>1. AccountsInv => AnAdminRemains
  BY DEF AccountsInv, RolesAreGuarded, OneGuardedRequest, AnAdminRemains
<1> QED
  BY <1>1, AccountsInvariance, PTL

\* The password that was chosen last is stored, whatever logins and changes overlap.
THEOREM PasswordsStand == AccountsSpec => []ChosenPasswordStands
<1>1. AccountsInv => ChosenPasswordStands
  BY DEF AccountsInv
<1> QED
  BY <1>1, AccountsInvariance, PTL

-----------------------------------------------------------------------------
(* Numbers, orders and pages.                                              *)

LEMMA NumbersUpTo ==
  ASSUME NEW n \in Nat
  PROVE  IsFiniteSet(1 .. n) /\ Cardinality(1 .. n) = n
<1>1. IsFiniteSet(1 .. n) /\ Cardinality(1 .. n) = IF 1 > n THEN 0 ELSE n - 1 + 1
  BY FS_Interval
<1> QED
  BY <1>1

\* A set of numbers up to a bound has a least one, as the strict subsets of a finite set are
\* well-founded.
LEMMA LeastNumber ==
  ASSUME NEW bound \in Nat, NEW T \in SUBSET (0 .. bound), T # {}
  PROVE  \E n \in T : \A m \in T : n <= m
<1> DEFINE S == 0 .. bound
            F == {0 .. n : n \in T}
<1>1. IsFiniteSet(S)
  BY FS_Interval
<1>2. IsWellFoundedOn(StrictSubsetOrdering(S), SUBSET S)
  BY <1>1, FS_FiniteSubsetsOfFinite, FS_StrictSubsetOrderingWellFounded
<1>3. \A n \in T : 0 .. n \subseteq S /\ 0 .. n \in F
  OBVIOUS
<1>4. PICK x \in F : \A y \in F : ~(<<y, x>> \in StrictSubsetOrdering(S))
  <2>1. F \subseteq SUBSET S /\ F # {}
    BY <1>3
  <2> HIDE DEF F
  <2> QED
    BY <1>2, <2>1, WFMin
<1>5. PICK n \in T : x = 0 .. n
  OBVIOUS
<1>6. ASSUME NEW m \in T, m < n PROVE FALSE
  <2>1. m \in Nat /\ n \in Nat
    OBVIOUS
  <2>2. n \in 0 .. n /\ n \notin 0 .. m /\ 0 .. m \subseteq 0 .. n
    BY <2>1, <1>6
  <2>3. 0 .. m \in F /\ 0 .. m \in SUBSET S /\ 0 .. n \in SUBSET S /\ 0 .. m # 0 .. n
    BY <1>3, <2>2
  <2>4. <<0 .. m, 0 .. n>> \in StrictSubsetOrdering(S)
    <3> HIDE DEF S
    <3>1. \A a, b \in SUBSET S : a \subseteq b /\ a # b => <<a, b>> \in StrictSubsetOrdering(S)
      BY DEF StrictSubsetOrdering
    <3> QED
      BY <3>1, <2>3, <2>2
  <2> HIDE DEF S, F
  <2> QED
    BY <2>3, <2>4, <1>4, <1>5
<1>7. \A m \in T : m \in Nat /\ n \in Nat
  OBVIOUS
<1> QED
  BY <1>6, <1>7

StrictOrder(S, R) ==
  /\ \A x \in S : <<x, x>> \notin R
  /\ \A x, y, z \in S : <<x, y>> \in R /\ <<y, z>> \in R => <<x, z>> \in R
  /\ \A x, y \in S : x = y \/ <<x, y>> \in R \/ <<y, x>> \in R

LEMMA RanksAreAll ==
  ASSUME NEW S, IsFiniteSet(S), NEW R, StrictOrder(S, R)
  PROVE  /\ \A x \in S : Cardinality({y \in S : <<y, x>> \in R}) \in 0 .. Cardinality(S) - 1
         /\ \A k \in 0 .. Cardinality(S) - 1 : \E x \in S : Cardinality({y \in S : <<y, x>> \in R}) = k
<1> DEFINE Below(x) == {y \in S : <<y, x>> \in R}
           n == Cardinality(S)
           rank == [x \in S |-> Cardinality(Below(x))]
<1>1. n \in Nat
  BY FS_CardinalityType
<1>2. \A x \in S : IsFiniteSet(Below(x)) /\ Cardinality(Below(x)) \in Nat
  <2> SUFFICES ASSUME NEW x \in S PROVE IsFiniteSet(Below(x)) /\ Cardinality(Below(x)) \in Nat
    OBVIOUS
  <2>1. IsFiniteSet(Below(x))
    BY FS_Subset
  <2> HIDE DEF Below
  <2> QED
    BY <2>1, FS_CardinalityType
<1>3. \A x \in S : Cardinality(Below(x)) \in 0 .. n - 1
  <2> SUFFICES ASSUME NEW x \in S PROVE Cardinality(Below(x)) \in 0 .. n - 1
    OBVIOUS
  <2>1. Below(x) \in SUBSET S /\ Below(x) # S
    BY DEF StrictOrder
  <2> HIDE DEF Below
  <2>2. Cardinality(Below(x)) <= n /\ Cardinality(Below(x)) # n
    BY <2>1, FS_Subset
  <2> QED
    BY <2>2, <1>1, <1>2
<1>4. \A x, y \in S : <<x, y>> \in R => Cardinality(Below(x)) < Cardinality(Below(y))
  <2> SUFFICES ASSUME NEW x \in S, NEW y \in S, <<x, y>> \in R
               PROVE  Cardinality(Below(x)) < Cardinality(Below(y))
    OBVIOUS
  <2>1. Below(x) \in SUBSET Below(y) /\ Below(x) # Below(y)
    <3>1. x \in Below(y) /\ x \notin Below(x)
      BY DEF StrictOrder
    <3>2. ASSUME NEW z \in Below(x) PROVE z \in Below(y)
      BY DEF StrictOrder
    <3> QED
      BY <3>1, <3>2
  <2> HIDE DEF Below
  <2>2. Cardinality(Below(x)) <= Cardinality(Below(y)) /\ Cardinality(Below(x)) # Cardinality(Below(y))
    BY <2>1, <1>2, FS_Subset
  <2> QED
    BY <2>2, <1>2
<1>5. \A x, y \in S : Cardinality(Below(x)) = Cardinality(Below(y)) => x = y
  <2> SUFFICES ASSUME NEW x \in S, NEW y \in S, Cardinality(Below(x)) = Cardinality(Below(y)), x # y
               PROVE  FALSE
    OBVIOUS
  <2> HIDE DEF Below
  <2>1. <<x, y>> \in R \/ <<y, x>> \in R
    BY DEF StrictOrder
  <2> QED
    BY <2>1, <1>2, <1>4
<1> HIDE DEF Below
<1>6. IsFiniteSet(0 .. n - 1) /\ Cardinality(0 .. n - 1) = n
  BY <1>1, FS_Interval
<1>7. rank \in Injection(S, 0 .. n - 1)
  <2>1. rank \in [S -> 0 .. n - 1]
    BY <1>3
  <2>2. \A x, y \in S : rank[x] = rank[y] => x = y
    BY <1>5
  <2> QED
    BY <2>1, <2>2 DEF Injection, IsInjective
<1>8. rank \in Surjection(S, 0 .. n - 1)
  BY <1>6, <1>7, FS_Injection
<1>9. \A k \in 0 .. n - 1 : \E x \in S : rank[x] = k
  BY <1>8 DEF Surjection
<1> QED
  BY <1>3, <1>9 DEF Below

\* The n-th of the pages that a list of S in the order R is cut into, and their number.
PageIn(S, R, limit, n) ==
  {x \in S : Cardinality({y \in S : <<y, x>> \in R}) \in (n - 1) * limit .. n * limit - 1}
PagesOf(S, limit) == (Cardinality(S) + limit - 1) \div limit

LEMMA DivisionIs ==
  ASSUME NEW a \in Nat, NEW b \in Nat \ {0}
  PROVE  a \div b \in Nat /\ (a \div b) * b <= a /\ a < (a \div b) * b + b
BY SMT

LEMMA ProductsGrow ==
  ASSUME NEW a \in Nat, NEW b \in Nat, NEW c \in Nat, a <= b
  PROVE  a * c <= b * c /\ a * c \in Nat /\ b * c \in Nat
BY SMT

LEMMA PagesAreAll ==
  ASSUME NEW S, IsFiniteSet(S), NEW R, StrictOrder(S, R), NEW limit \in Nat \ {0}
  PROVE  /\ PagesOf(S, limit) \in Nat
         /\ \A n \in 1 .. PagesOf(S, limit) : PageIn(S, R, limit, n) # {}
         /\ \A x \in S : \E n \in 1 .. PagesOf(S, limit) : x \in PageIn(S, R, limit, n)
         /\ \A m, n \in Nat : m < n => PageIn(S, R, limit, m) \cap PageIn(S, R, limit, n) = {}
<1> DEFINE Rank(x) == Cardinality({y \in S : <<y, x>> \in R})
           size == Cardinality(S)
           last == PagesOf(S, limit)
<1>1. size \in Nat
  BY FS_CardinalityType
<1>2. /\ \A x \in S : Rank(x) \in 0 .. size - 1
      /\ \A k \in 0 .. size - 1 : \E x \in S : Rank(x) = k
  BY RanksAreAll
<1>3. \A x, n : x \in PageIn(S, R, limit, n) <=> x \in S /\ Rank(x) \in (n - 1) * limit .. n * limit - 1
  BY DEF PageIn
<1>4. last \in Nat /\ last * limit <= size + limit - 1 /\ size + limit - 1 < last * limit + limit
  <2>1. size + limit - 1 \in Nat
    BY <1>1
  <2> QED
    BY <2>1, DivisionIs DEF PagesOf
<1> HIDE DEF Rank, size, last
<1>5. ASSUME NEW n \in 1 .. last PROVE \E x \in S : x \in PageIn(S, R, limit, n)
  <2>1. n \in Nat /\ n <= last /\ n - 1 \in Nat
    BY <1>4
  <2>2. n * limit <= size + limit - 1 /\ n * limit \in Nat
    <3>1. n * limit <= last * limit /\ n * limit \in Nat /\ last * limit \in Nat
      BY <1>4, <2>1, ProductsGrow
    <3> QED
      BY <1>1, <1>4, <3>1
  <2>3. (n - 1) * limit = n * limit - limit /\ (n - 1) * limit \in Nat
    BY <2>1
  <2>4. (n - 1) * limit \in 0 .. size - 1
    BY <1>1, <2>2, <2>3
  <2>5. PICK x \in S : Rank(x) = (n - 1) * limit
    BY <1>2, <2>4
  <2>6. Rank(x) \in (n - 1) * limit .. n * limit - 1
    BY <2>2, <2>3, <2>5
  <2> QED
    BY <1>3, <2>6
<1>6. ASSUME NEW x \in S PROVE \E n \in 1 .. last : x \in PageIn(S, R, limit, n)
  <2> DEFINE k == Rank(x)
             m == k \div limit
  <2>1. k \in Nat /\ k <= size - 1
    BY <1>1, <1>2
  <2>2. m \in Nat /\ m * limit <= k /\ k < m * limit + limit
    BY <2>1, DivisionIs
  <2> HIDE DEF m, k
  <2>3. (m + 1) * limit = m * limit + limit /\ (m + 1 - 1) * limit = m * limit /\ m * limit \in Nat
    BY <2>2
  <2>4. m + 1 <= last
    <3>1. SUFFICES ASSUME last <= m PROVE FALSE
      BY <1>4, <2>2
    <3>2. last * limit <= m * limit /\ last * limit \in Nat
      BY <1>4, <2>2, <3>1, ProductsGrow
    <3> QED
      BY <1>1, <1>4, <2>1, <2>2, <2>3, <3>2
  <2>5. PICK n \in Nat : n = m + 1
    BY <2>2
  <2>6. (n - 1) * limit = m * limit /\ n * limit = m * limit + limit
    BY <2>2, <2>3, <2>5
  <2>7. Rank(x) \in (n - 1) * limit .. n * limit - 1
    BY <2>1, <2>2, <2>3, <2>6 DEF k
  <2>8. n \in 1 .. last
    BY <1>4, <2>2, <2>4, <2>5
  <2> QED
    BY <1>3, <2>7, <2>8
<1>7. ASSUME NEW m \in Nat, NEW n \in Nat, m < n
      PROVE  PageIn(S, R, limit, m) \cap PageIn(S, R, limit, n) = {}
  <2>1. m * limit <= (n - 1) * limit /\ m * limit \in Nat /\ (n - 1) * limit \in Nat
    <3>1. n - 1 \in Nat /\ m <= n - 1
      BY <1>7
    <3> QED
      BY <3>1, ProductsGrow
  <2>2. ASSUME NEW x \in S, Rank(x) \in (m - 1) * limit .. m * limit - 1,
               Rank(x) \in (n - 1) * limit .. n * limit - 1
        PROVE  FALSE
    <3>1. Rank(x) \in Int /\ Rank(x) <= m * limit - 1 /\ (n - 1) * limit <= Rank(x)
      BY <1>1, <1>2, <2>2
    <3> QED
      BY <2>1, <3>1
  <2> QED
    BY <1>3, <2>2
<1> QED
  BY <1>4, <1>5, <1>6, <1>7 DEF last

LEMMA OneAtMost ==
  ASSUME NEW M, IsFiniteSet(M), Cardinality(M) < 2
  PROVE  \A u, v \in M : u = v
<1>1. Cardinality(M) \in Nat
  BY FS_CardinalityType
<1>2. Cardinality(M) = 0 \/ Cardinality(M) = 1
  BY <1>1
<1>3. CASE Cardinality(M) = 0
  BY <1>3, FS_EmptySet
<1>4. CASE Cardinality(M) = 1
  BY <1>4, FS_Singleton
<1> QED
  BY <1>2, <1>3, <1>4

-----------------------------------------------------------------------------
(* The register of printers.                                               *)

\* The foreign keys.
ConnectionsAreOfRows == \A x \in connections : x[1] \in DOMAIN printers /\ x[2] \in entryIds

\* A request knows its printer and computer, and only a disconnection counts.
HandlersAreSound ==
  \A r \in Handlers :
    LET h == handling[r] IN
    /\ h.at # "idle" => h.printer \in PrinterIds /\ h.computer \in ComputerIds
    /\ h.at \in {"count", "flag"} => h.op \in {"connect", "disconnect"}
    /\ h.at = "count" => h.op = "disconnect"
    /\ h.op = "connect" => h.shared

\* A disconnection that has counted nothing finds nothing connected when it resets the flag.
CountsStand ==
  \A r \in Handlers :
    LET h == handling[r] IN
    h.at = "flag" /\ ~h.shared /\ h.printer \notin unsure => Connected(h.printer) = {}

\* A connection that is still to set the flag.
FlagIsComing(p) ==
  \E r \in Handlers : handling[r].at = "flag" /\ handling[r].op = "connect" /\ handling[r].printer = p
SharedOrComing ==
  \A p \in DOMAIN printers \ unsure : Connected(p) # {} => printers[p].shared \/ FlagIsComing(p)

PrintersInv == PrintersTypeOK /\ ConnectionsAreOfRows /\ HandlersAreSound /\ CountsStand /\ SharedOrComing

LEMMA PrintersInitInv == PrintersInit => PrintersInv
<1> SUFFICES ASSUME PrintersInit PROVE PrintersInv
  OBVIOUS
<1>1. PICK S \in SUBSET PrinterIds, place \in PrinterSites :
        printers = [p \in S |-> [site |-> place, shared |-> FALSE, host |-> 0]]
  BY DEF PrintersInit
<1>2. PrintersTypeOK
  BY <1>1, PrintersAssumption DEF PrintersInit, PrintersTypeOK, NoHandling
<1>3. ConnectionsAreOfRows /\ HandlersAreSound /\ CountsStand /\ SharedOrComing
  BY DEF PrintersInit, ConnectionsAreOfRows, HandlersAreSound, CountsStand, SharedOrComing, NoHandling, Connected
<1> QED
  BY <1>2, <1>3 DEF PrintersInv

PrinterRows == [site : PrinterSites, shared : BOOLEAN, host : ComputerIds \cup {0}]
HandlingRows ==
  [at : {"idle", "write", "count", "flag"}, op : {"connect", "disconnect", "host"},
   printer : PrinterIds \cup {0}, computer : ComputerIds \cup {0}, shared : BOOLEAN]

\* One row of the register is new, and the others stay.
Written(p, new) ==
  /\ DOMAIN printers' = DOMAIN printers \cup {p} /\ printers'[p] = new
  /\ \A q \in DOMAIN printers \ {p} : printers'[q] = printers[q]
  /\ DOMAIN printers' \subseteq PrinterIds
  /\ \A q \in DOMAIN printers' : printers'[q] \in PrinterRows

\* What a statement that writes a row leaves of the table.
LEMMA WriteTypes ==
  ASSUME PrintersTypeOK, NEW p \in PrinterIds, NEW new \in PrinterRows, Write(p, new)
  PROVE  Written(p, new)
BY DEF Write, Written, PrintersTypeOK, PrinterRows

LEMMA PrintersRowsInv ==
  ASSUME PrintersInv, NEW p \in PrinterIds, NEW place \in PrinterSites, NEW shared \in BOOLEAN,
         CreatePrinter(p, place, shared) \/ UpdatePrinter(p, place, shared) \/ DeletePrinter(p) \/ UnsetHost(p)
  PROVE  PrintersInv'
<1>0. /\ PrintersTypeOK /\ ConnectionsAreOfRows /\ HandlersAreSound /\ CountsStand /\ SharedOrComing
      /\ entryIds' = entryIds /\ handling' = handling /\ handled' \in 0 .. MaxHandled
  BY PrintersAssumption DEF PrintersInv, CreatePrinter, UpdatePrinter, DeletePrinter, UnsetHost, Handle, PrintersTypeOK
<1>1. HandlersAreSound'
  BY <1>0 DEF HandlersAreSound
<1>2. CASE CreatePrinter(p, place, shared)
  <2>1. [site |-> place, shared |-> shared, host |-> 0] \in PrinterRows
    BY DEF PrinterRows
  <2>2. connections' = connections /\ unsure' = unsure \ {p} /\ p \notin DOMAIN printers
        /\ \A r \in Handlers : handling[r].printer # p
    BY <1>2 DEF CreatePrinter
  <2>3. /\ DOMAIN printers' = DOMAIN printers \cup {p}
        /\ \A q \in DOMAIN printers \ {p} : printers'[q] = printers[q]
        /\ DOMAIN printers' \subseteq PrinterIds
        /\ \A q \in DOMAIN printers' : printers'[q] \in PrinterRows
    BY <1>0, <1>2, <2>1, WriteTypes DEF CreatePrinter, Written
  <2>4. PrintersTypeOK'
    BY <1>0, <2>2, <2>3 DEF PrintersTypeOK, PrinterRows
  <2>5. Connected(p) = {} /\ \A q : Connected(q)' = Connected(q)
    BY <1>0, <2>2 DEF ConnectionsAreOfRows, Connected
  <2>6. CountsStand'
    BY <1>0, <2>2, <2>5 DEF CountsStand
  <2>7. SharedOrComing'
    BY <1>0, <2>2, <2>3, <2>5 DEF SharedOrComing, FlagIsComing
  <2> QED
    BY <1>0, <1>1, <2>2, <2>3, <2>4, <2>6, <2>7 DEF PrintersInv, ConnectionsAreOfRows
<1>3. CASE UpdatePrinter(p, place, shared)
  <2> DEFINE new == [printers[p] EXCEPT !.site = place, !.shared = shared]
  <2>1. new \in PrinterRows /\ new.shared = shared
    BY <1>0, <1>3 DEF PrinterRows, PrintersTypeOK, UpdatePrinter
  <2>2. connections' = connections /\ p \in DOMAIN printers
        /\ unsure' = IF shared THEN unsure ELSE unsure \cup {p}
    BY <1>3 DEF UpdatePrinter
  <2>3. /\ DOMAIN printers' = DOMAIN printers /\ printers'[p].shared = shared
        /\ \A q \in DOMAIN printers \ {p} : printers'[q] = printers[q]
        /\ \A q \in DOMAIN printers' : printers'[q] \in PrinterRows
    <3>1. Write(p, new)
      BY <1>3 DEF UpdatePrinter
    <3> HIDE DEF new
    <3>2. Written(p, new)
      BY <1>0, <2>1, <3>1, WriteTypes
    <3> QED
      BY <2>1, <2>2, <3>2 DEF Written
  <2>4. PrintersTypeOK'
    BY <1>0, <2>2, <2>3 DEF PrintersTypeOK, PrinterRows
  <2>5. \A q : Connected(q)' = Connected(q)
    BY <2>2 DEF Connected
  <2>6. CountsStand'
    BY <1>0, <2>2, <2>5 DEF CountsStand
  <2>7. SharedOrComing'
    BY <1>0, <2>2, <2>3, <2>5 DEF SharedOrComing, FlagIsComing
  <2> QED
    BY <1>0, <1>1, <2>2, <2>3, <2>4, <2>6, <2>7 DEF PrintersInv, ConnectionsAreOfRows
<1>4. CASE DeletePrinter(p)
  <2>1. /\ printers' = [q \in DOMAIN printers \ {p} |-> printers[q]] /\ unsure' = unsure
        /\ connections' = {x \in connections : x[1] # p}
    BY <1>4 DEF DeletePrinter
  <2>2. PrintersTypeOK'
    BY <1>0, <2>1 DEF PrintersTypeOK
  <2>3. ConnectionsAreOfRows'
    BY <1>0, <2>1 DEF ConnectionsAreOfRows
  <2>4. \A q : Connected(q)' \subseteq Connected(q)
    BY <2>1 DEF Connected
  <2>5. CountsStand'
    BY <1>0, <2>1, <2>4 DEF CountsStand
  <2>6. SharedOrComing'
    BY <1>0, <2>1, <2>4 DEF SharedOrComing, FlagIsComing
  <2> QED
    BY <1>1, <2>2, <2>3, <2>5, <2>6 DEF PrintersInv
<1>5. CASE UnsetHost(p)
  <2> DEFINE new == [printers[p] EXCEPT !.host = 0]
  <2>1. new \in PrinterRows /\ new.shared = printers[p].shared
    BY <1>0, <1>5 DEF PrinterRows, PrintersTypeOK, UnsetHost
  <2>2. connections' = connections /\ p \in DOMAIN printers /\ unsure' = unsure
    BY <1>5 DEF UnsetHost
  <2>3. /\ DOMAIN printers' = DOMAIN printers /\ printers'[p].shared = printers[p].shared
        /\ \A q \in DOMAIN printers \ {p} : printers'[q] = printers[q]
        /\ \A q \in DOMAIN printers' : printers'[q] \in PrinterRows
    <3>1. Write(p, new)
      BY <1>5 DEF UnsetHost
    <3> HIDE DEF new
    <3>2. Written(p, new)
      BY <1>0, <2>1, <3>1, WriteTypes
    <3> QED
      BY <2>1, <2>2, <3>2 DEF Written
  <2>4. PrintersTypeOK'
    BY <1>0, <2>2, <2>3 DEF PrintersTypeOK, PrinterRows
  <2>5. \A q : Connected(q)' = Connected(q)
    BY <2>2 DEF Connected
  <2>6. CountsStand'
    BY <1>0, <2>2, <2>5 DEF CountsStand
  <2>7. SharedOrComing'
    BY <1>0, <2>2, <2>3, <2>5 DEF SharedOrComing, FlagIsComing
  <2> QED
    BY <1>0, <1>1, <2>2, <2>3, <2>4, <2>6, <2>7 DEF PrintersInv, ConnectionsAreOfRows
<1> QED
  BY <1>2, <1>3, <1>4, <1>5

LEMMA DeleteComputerInv ==
  ASSUME PrintersInv, NEW c \in ComputerIds, DeleteComputer(c) PROVE PrintersInv'
<1>0. /\ PrintersTypeOK /\ ConnectionsAreOfRows /\ HandlersAreSound /\ CountsStand /\ SharedOrComing
      /\ entryIds' = entryIds \ {c} /\ handling' = handling /\ handled' = handled /\ unsure' = unsure
      /\ connections' = {x \in connections : x[2] # c}
      /\ printers' = [p \in DOMAIN printers |->
           IF printers[p].host = c THEN [printers[p] EXCEPT !.host = 0] ELSE printers[p]]
  BY DEF PrintersInv, DeleteComputer
<1>1. PrintersTypeOK'
  BY <1>0 DEF PrintersTypeOK
<1>2. \A p \in DOMAIN printers : p \in DOMAIN printers' /\ printers'[p].shared = printers[p].shared
  BY <1>0 DEF PrintersTypeOK
<1>3. \A q : Connected(q)' \subseteq Connected(q)
  BY <1>0 DEF Connected
<1>4. ConnectionsAreOfRows'
  BY <1>0 DEF ConnectionsAreOfRows
<1>5. HandlersAreSound' /\ CountsStand'
  BY <1>0, <1>3 DEF HandlersAreSound, CountsStand
<1>6. SharedOrComing'
  BY <1>0, <1>2, <1>3 DEF SharedOrComing, FlagIsComing
<1> QED
  BY <1>1, <1>4, <1>5, <1>6 DEF PrintersInv

LEMMA HandlersInv ==
  ASSUME PrintersInv, NEW r \in Handlers,
         \/ \E op \in {"connect", "disconnect", "host"}, p \in PrinterIds, c \in ComputerIds :
              FindComputer(r, op, p, c)
         \/ SetHost(r) \/ Connect(r) \/ Disconnect(r) \/ CountConnections(r) \/ SetShared(r) \/ HandlerFails(r)
  PROVE  PrintersInv'
<1>0. /\ PrintersTypeOK /\ ConnectionsAreOfRows /\ HandlersAreSound /\ CountsStand /\ SharedOrComing
      /\ handling \in [Handlers -> HandlingRows]
  BY DEF PrintersInv, PrintersTypeOK, HandlingRows
<1>h. handling[r] \in HandlingRows
  BY <1>0
<1>n. NoHandling \in HandlingRows
  BY DEF NoHandling, HandlingRows
<1>1. ASSUME NEW op \in {"connect", "disconnect", "host"}, NEW p \in PrinterIds, NEW c \in ComputerIds,
             FindComputer(r, op, p, c)
      PROVE  PrintersInv'
  <2>1. /\ handling[r].at = "idle"
        /\ handling' = [handling EXCEPT ![r] =
             [at |-> "write", op |-> op, printer |-> p, computer |-> c, shared |-> op = "connect"]]
        /\ printers' = printers /\ connections' = connections /\ entryIds' = entryIds /\ unsure' = unsure
        /\ handled' \in 0 .. MaxHandled
    BY <1>0, <1>1, PrintersAssumption DEF FindComputer, Handle, PrintersTypeOK
  <2>2. PrintersTypeOK'
    BY <1>0, <2>1 DEF PrintersTypeOK, HandlingRows
  <2>3. HandlersAreSound'
    BY <1>0, <2>1 DEF HandlersAreSound, HandlingRows
  <2>4. CountsStand'
    BY <1>0, <2>1 DEF CountsStand, HandlingRows, Connected
  <2>5. SharedOrComing'
    BY <1>0, <2>1 DEF SharedOrComing, FlagIsComing, HandlingRows, Connected
  <2> QED
    BY <1>0, <2>1, <2>2, <2>3, <2>4, <2>5 DEF PrintersInv, ConnectionsAreOfRows
<1>2. CASE SetHost(r)
  <2> DEFINE p == handling[r].printer
  <2>1. /\ handling' = [handling EXCEPT ![r] = NoHandling] /\ handling[r].at = "write"
        /\ connections' = connections /\ entryIds' = entryIds /\ handled' = handled /\ unsure' = unsure
    BY <1>2 DEF SetHost
  <2>2. /\ DOMAIN printers' = DOMAIN printers
        /\ \A q \in DOMAIN printers : printers'[q].shared = printers[q].shared
        /\ \A q \in DOMAIN printers' : printers'[q] \in PrinterRows
    <3>1. CASE p \in DOMAIN printers /\ handling[r].computer \in entryIds
      <4> DEFINE new == [printers[p] EXCEPT !.host = handling[r].computer]
      <4>1. new \in PrinterRows /\ new.shared = printers[p].shared /\ p \in PrinterIds
        BY <1>0, <3>1 DEF PrinterRows, PrintersTypeOK
      <4>2. Write(p, new)
        BY <1>2, <3>1 DEF SetHost
      <4> HIDE DEF new, p
      <4>3. Written(p, new)
        BY <1>0, <4>1, <4>2, WriteTypes
      <4> QED
        BY <3>1, <4>1, <4>3 DEF Written
    <3>2. CASE ~(p \in DOMAIN printers /\ handling[r].computer \in entryIds)
      BY <1>0, <1>2, <3>2 DEF SetHost, PrintersTypeOK, PrinterRows
    <3> QED
      BY <3>1, <3>2
  <2>3. PrintersTypeOK'
    BY <1>0, <1>n, <2>1, <2>2 DEF PrintersTypeOK, PrinterRows, HandlingRows
  <2>4. HandlersAreSound' /\ CountsStand'
    BY <1>0, <2>1 DEF HandlersAreSound, CountsStand, NoHandling, Connected
  <2>5. SharedOrComing'
    BY <1>0, <2>1, <2>2 DEF SharedOrComing, FlagIsComing, Connected
  <2> QED
    BY <1>0, <2>1, <2>2, <2>3, <2>4, <2>5 DEF PrintersInv, ConnectionsAreOfRows
<1>3. CASE Connect(r)
  <2> DEFINE h == handling[r]
  <2>1. /\ handling' = [handling EXCEPT ![r].at = "flag"] /\ h.at = "write" /\ h.op = "connect"
        /\ printers' = printers /\ entryIds' = entryIds /\ handled' = handled
    BY <1>3 DEF Connect, ThenDo
  <2>2. /\ h.printer \in PrinterIds /\ h.computer \in ComputerIds /\ h.shared
        /\ unsure \subseteq unsure' /\ unsure' \subseteq PrinterIds
        /\ connections' \subseteq connections \cup {<<h.printer, h.computer>>}
        /\ connections' # connections => h.printer \in DOMAIN printers /\ h.computer \in entryIds
    BY <1>0, <1>3, <2>1 DEF Connect, HandlersAreSound, PrintersTypeOK
  <2>3. PrintersTypeOK'
    BY <1>0, <2>1, <2>2 DEF PrintersTypeOK, HandlingRows
  <2>4. HandlersAreSound'
    BY <1>0, <2>1 DEF HandlersAreSound, HandlingRows
  <2>5. CountsStand'
    <3> SUFFICES ASSUME NEW o \in Handlers, handling'[o].at = "flag", ~handling'[o].shared,
                        handling'[o].printer \notin unsure'
                 PROVE  Connected(handling[o].printer)' = {}
      BY DEF CountsStand
    <3>1. o # r /\ handling'[o] = handling[o] /\ handling[o].op = "disconnect"
      BY <1>0, <2>1, <2>2 DEF HandlersAreSound, HandlingRows
    <3>2. Connected(handling[o].printer) = {}
      BY <1>0, <2>2, <3>1 DEF CountsStand
    <3>3. CASE h.printer \in DOMAIN printers /\ h.computer \in entryIds
      <4>1. h.printer # handling[o].printer
        BY <1>3, <2>2, <3>1, <3>3 DEF Connect
      <4> QED
        BY <2>2, <3>1, <3>2, <4>1 DEF Connected
    <3>4. CASE ~(h.printer \in DOMAIN printers /\ h.computer \in entryIds)
      BY <2>2, <3>1, <3>2, <3>4 DEF Connected
    <3> QED
      BY <3>3, <3>4
  <2>6. FlagIsComing(h.printer)' /\ \A q : FlagIsComing(q) => FlagIsComing(q)'
    BY <1>0, <2>1 DEF FlagIsComing, HandlingRows
  <2>7. SharedOrComing'
    BY <1>0, <2>1, <2>2, <2>6 DEF SharedOrComing, Connected
  <2> QED
    BY <1>0, <2>1, <2>2, <2>3, <2>4, <2>5, <2>7 DEF PrintersInv, ConnectionsAreOfRows
<1>4. CASE Disconnect(r)
  <2>1. /\ handling' = [handling EXCEPT ![r].at = "count"]
        /\ handling[r].at = "write" /\ handling[r].op = "disconnect"
        /\ connections' = connections \ {<<handling[r].printer, handling[r].computer>>}
        /\ printers' = printers /\ entryIds' = entryIds /\ handled' = handled /\ unsure' = unsure
    BY <1>4 DEF Disconnect, ThenDo
  <2>2. PrintersTypeOK'
    BY <1>0, <2>1 DEF PrintersTypeOK, HandlingRows
  <2>3. HandlersAreSound'
    BY <1>0, <2>1 DEF HandlersAreSound, HandlingRows
  <2>4. \A q : Connected(q)' \subseteq Connected(q)
    BY <2>1 DEF Connected
  <2>5. CountsStand'
    BY <1>0, <2>1, <2>4 DEF CountsStand, HandlingRows
  <2>6. SharedOrComing'
    BY <1>0, <2>1, <2>4 DEF SharedOrComing, FlagIsComing, HandlingRows
  <2> QED
    BY <1>0, <2>1, <2>2, <2>3, <2>5, <2>6 DEF PrintersInv, ConnectionsAreOfRows
<1>5. CASE CountConnections(r)
  <2>1. /\ handling' = [handling EXCEPT ![r].at = "flag", ![r].shared = Connected(handling[r].printer) # {}]
        /\ handling[r].at = "count" /\ handling[r].op = "disconnect" /\ connections' = connections
        /\ printers' = printers /\ entryIds' = entryIds /\ handled' = handled /\ unsure' = unsure
    BY <1>0, <1>5 DEF CountConnections, HandlersAreSound
  <2>2. PrintersTypeOK'
    <3>1. (Connected(handling[r].printer) # {}) \in BOOLEAN
      OBVIOUS
    <3>2. PICK b \in BOOLEAN : handling' = [handling EXCEPT ![r].at = "flag", ![r].shared = b]
      BY <2>1, <3>1
    <3>3. [handling[r] EXCEPT !.at = "flag", !.shared = b] \in HandlingRows
      BY <1>h DEF HandlingRows
    <3>4. handling' = [handling EXCEPT ![r] = [handling[r] EXCEPT !.at = "flag", !.shared = b]]
      BY <1>0, <3>2
    <3>5. handling' \in [Handlers -> HandlingRows]
      BY <1>0, <3>3, <3>4
    <3> QED
      BY <1>0, <2>1, <3>5 DEF PrintersTypeOK, HandlingRows
  <2>3. HandlersAreSound'
    BY <1>0, <2>1 DEF HandlersAreSound, HandlingRows
  <2>4. \A q : Connected(q)' = Connected(q)
    BY <2>1 DEF Connected
  <2>5. CountsStand'
    BY <1>0, <2>1, <2>4 DEF CountsStand, HandlingRows
  <2>6. SharedOrComing'
    BY <1>0, <2>1, <2>4 DEF SharedOrComing, FlagIsComing, HandlingRows
  <2> QED
    BY <1>0, <2>1, <2>2, <2>3, <2>5, <2>6 DEF PrintersInv, ConnectionsAreOfRows
<1>6. CASE SetShared(r)
  <2> DEFINE h == handling[r]
  <2>1. /\ handling' = [handling EXCEPT ![r] = NoHandling] /\ h.at = "flag"
        /\ connections' = connections /\ entryIds' = entryIds /\ handled' = handled /\ unsure' = unsure
    BY <1>6 DEF SetShared
  <2>2. /\ DOMAIN printers' = DOMAIN printers
        /\ h.printer \in DOMAIN printers => printers'[h.printer].shared = h.shared
        /\ \A q \in DOMAIN printers \ {h.printer} : printers'[q] = printers[q]
        /\ \A q \in DOMAIN printers' : printers'[q] \in PrinterRows
    <3>1. CASE h.printer \in DOMAIN printers
      <4> DEFINE new == [printers[h.printer] EXCEPT !.shared = h.shared]
      <4>1. new \in PrinterRows /\ new.shared = h.shared /\ h.printer \in PrinterIds
        BY <1>0, <1>h, <3>1 DEF PrinterRows, PrintersTypeOK, HandlingRows
      <4>2. Write(h.printer, new)
        BY <1>6, <3>1 DEF SetShared
      <4> HIDE DEF new, h
      <4>3. Written(h.printer, new)
        BY <1>0, <4>1, <4>2, WriteTypes
      <4> QED
        BY <3>1, <4>1, <4>3 DEF Written
    <3>2. CASE h.printer \notin DOMAIN printers
      BY <1>0, <1>6, <3>2 DEF SetShared, PrintersTypeOK, PrinterRows
    <3> QED
      BY <3>1, <3>2
  <2>3. PrintersTypeOK'
    BY <1>0, <1>n, <2>1, <2>2 DEF PrintersTypeOK, PrinterRows, HandlingRows
  <2>4. HandlersAreSound' /\ CountsStand'
    BY <1>0, <2>1 DEF HandlersAreSound, CountsStand, NoHandling, Connected
  <2>5. SharedOrComing'
    <3> SUFFICES ASSUME NEW p \in DOMAIN printers', p \notin unsure', Connected(p)' # {}
                 PROVE  printers'[p].shared \/ FlagIsComing(p)'
      BY DEF SharedOrComing
    <3>1. p \in DOMAIN printers \ unsure /\ Connected(p) # {}
      BY <2>1, <2>2 DEF Connected
    <3>2. CASE p = h.printer
      BY <1>0, <2>1, <2>2, <3>1, <3>2 DEF CountsStand
    <3>3. CASE p # h.printer
      <4>1. printers[p].shared \/ FlagIsComing(p)
        BY <1>0, <3>1 DEF SharedOrComing
      <4> QED
        BY <1>0, <2>1, <2>2, <3>1, <3>3, <4>1 DEF FlagIsComing
    <3> QED
      BY <3>2, <3>3
  <2> QED
    BY <1>0, <2>1, <2>2, <2>3, <2>4, <2>5 DEF PrintersInv, ConnectionsAreOfRows
<1>7. CASE HandlerFails(r)
  <2> DEFINE h == handling[r]
  <2>1. /\ handling' = [handling EXCEPT ![r] = NoHandling] /\ h.at # "idle"
        /\ unsure' = IF h.op = "connect" /\ h.at = "flag" THEN unsure \cup {h.printer} ELSE unsure
        /\ printers' = printers /\ connections' = connections /\ entryIds' = entryIds /\ handled' = handled
    BY <1>7 DEF HandlerFails
  <2>2. h.printer \in PrinterIds
    BY <1>0, <2>1 DEF HandlersAreSound
  <2>3. PrintersTypeOK'
    BY <1>0, <1>n, <2>1, <2>2 DEF PrintersTypeOK, HandlingRows
  <2>4. HandlersAreSound' /\ CountsStand'
    BY <1>0, <2>1 DEF HandlersAreSound, CountsStand, NoHandling, Connected
  <2>5. SharedOrComing'
    BY <1>0, <2>1 DEF SharedOrComing, FlagIsComing, Connected
  <2> QED
    BY <1>0, <2>1, <2>3, <2>4, <2>5 DEF PrintersInv, ConnectionsAreOfRows
<1> QED
  BY <1>1, <1>2, <1>3, <1>4, <1>5, <1>6, <1>7

LEMMA PrintersNextInv == PrintersInv /\ [PrintersNext]_printersVars => PrintersInv'
<1> SUFFICES ASSUME PrintersInv, [PrintersNext]_printersVars PROVE PrintersInv'
  OBVIOUS
<1>1. CASE UNCHANGED printersVars
  <2>1. /\ printers' = printers /\ connections' = connections /\ entryIds' = entryIds
        /\ handling' = handling /\ handled' = handled /\ unsure' = unsure
    BY <1>1 DEF printersVars
  <2>2. PrintersTypeOK'
    BY <2>1 DEF PrintersInv, PrintersTypeOK
  <2>3. ConnectionsAreOfRows' /\ HandlersAreSound'
    BY <2>1 DEF PrintersInv, ConnectionsAreOfRows, HandlersAreSound
  <2>4. CountsStand' /\ SharedOrComing'
    BY <2>1 DEF PrintersInv, CountsStand, SharedOrComing, FlagIsComing, Connected
  <2> QED
    BY <2>2, <2>3, <2>4 DEF PrintersInv
<1>2. ASSUME NEW p \in PrinterIds, DeletePrinter(p) \/ UnsetHost(p) PROVE PrintersInv'
  <2>1. CASE PrinterSites = {}
    <3>1. DOMAIN printers = {}
      BY <2>1 DEF PrintersInv, PrintersTypeOK
    <3> QED
      BY <1>2, <3>1 DEF DeletePrinter, UnsetHost
  <2>2. CASE PrinterSites # {}
    BY <1>2, <2>2, PrintersRowsInv
  <2> QED
    BY <2>1, <2>2
<1>3. CASE \E p \in PrinterIds, place \in PrinterSites, shared \in BOOLEAN :
             CreatePrinter(p, place, shared) \/ UpdatePrinter(p, place, shared)
  BY <1>3, PrintersRowsInv
<1>4. CASE \E c \in ComputerIds : DeleteComputer(c)
  BY <1>4, DeleteComputerInv
<1> QED
  BY <1>1, <1>2, <1>3, <1>4, HandlersInv DEF PrintersNext

\* The register and its export, from what the rows are.
LEMMA RegisterIsOne == ASSUME PrintersTypeOK, ConnectionsAreOfRows PROVE RegisterAgrees
<1> SUFFICES ASSUME NEW place \in PrinterSites, NEW p \in PrintersAt(place)
             PROVE
      /\ ListPrinters(place)[p] = Cardinality(GetPrinterById(p).connected)
      /\ {x.computer : x \in {y \in ExportPrinters(place) : y.printer = p /\ y.role = "HOST"}} =
           GetPrinterById(p).host
      /\ {x.computer : x \in {y \in ExportPrinters(place) : y.printer = p /\ y.role = "CONNECTED"}} =
           GetPrinterById(p).connected
  BY DEF RegisterAgrees, ListPrinters
<1>1. GetPrinterById(p).connected = Connected(p) /\ GetPrinterById(p).host = {printers[p].host} \cap entryIds
  BY DEF GetPrinterById, Connected, ConnectionsAreOfRows, PrintersTypeOK
<1>2. ListPrinters(place)[p] = Cardinality(Connected(p))
  BY DEF ListPrinters
<1> DEFINE hosted == {y \in PrintersAt(place) \X entryIds : printers[y[1]].host = y[2]}
           joined == {y \in connections : y[1] \in PrintersAt(place) /\ y[2] \in entryIds}
           sheet == ExportPrinters(place)
<1>3. sheet = {[role |-> "HOST", printer |-> x[1], computer |-> x[2]] : x \in hosted} \cup
              {[role |-> "CONNECTED", printer |-> x[1], computer |-> x[2]] : x \in joined}
  BY DEF ExportPrinters
<1>4. \A c : c \in entryIds /\ printers[p].host = c <=> <<p, c>> \in hosted
  OBVIOUS
<1>5. \A c : c \in Connected(p) <=> <<p, c>> \in joined
  BY DEF Connected, ConnectionsAreOfRows, PrintersTypeOK
<1>6. {x.computer : x \in {y \in sheet : y.printer = p /\ y.role = "HOST"}} = {printers[p].host} \cap entryIds
  <2> HIDE DEF sheet, joined
  <2>1. ASSUME NEW y \in sheet, y.printer = p, y.role = "HOST" PROVE y.computer \in {printers[p].host} \cap entryIds
    <3>1. PICK x \in hosted : y = [role |-> "HOST", printer |-> x[1], computer |-> x[2]]
      BY <1>3, <2>1
    <3> QED
      BY <2>1, <3>1
  <2>2. ASSUME NEW c \in {printers[p].host} \cap entryIds
        PROVE  \E y \in sheet : y.printer = p /\ y.role = "HOST" /\ y.computer = c
    <3>1. <<p, c>> \in hosted
      BY <1>4
    <3> HIDE DEF hosted
    <3>2. [role |-> "HOST", printer |-> <<p, c>>[1], computer |-> <<p, c>>[2]] \in sheet
      BY <1>3, <3>1
    <3> QED
      BY <3>2
  <2> QED
    BY <2>1, <2>2
<1>7. {x.computer : x \in {y \in sheet : y.printer = p /\ y.role = "CONNECTED"}} = Connected(p)
  <2> HIDE DEF sheet, hosted
  <2>1. ASSUME NEW y \in sheet, y.printer = p, y.role = "CONNECTED" PROVE y.computer \in Connected(p)
    <3>1. PICK x \in joined : y = [role |-> "CONNECTED", printer |-> x[1], computer |-> x[2]]
      BY <1>3, <2>1
    <3>2. x[1] = p /\ y.computer = x[2] /\ x = <<x[1], x[2]>>
      BY <2>1, <3>1 DEF PrintersTypeOK
    <3> QED
      BY <1>5, <3>1, <3>2
  <2>2. ASSUME NEW c \in Connected(p)
        PROVE  \E y \in sheet : y.printer = p /\ y.role = "CONNECTED" /\ y.computer = c
    <3>1. <<p, c>> \in joined
      BY <1>5
    <3> HIDE DEF joined
    <3>2. [role |-> "CONNECTED", printer |-> <<p, c>>[1], computer |-> <<p, c>>[2]] \in sheet
      BY <1>3, <3>1
    <3> QED
      BY <3>2
  <2> QED
    BY <2>1, <2>2
<1> QED
  BY <1>1, <1>2, <1>6, <1>7

LEMMA ConnectedAreShared == PrintersInv => ConnectedIsShared
<1> SUFFICES ASSUME PrintersInv PROVE ConnectedIsShared
  OBVIOUS
<1>1. ASSUME NEW r \in Handlers, NEW p, handling[r].at = "flag", handling[r].op = "connect", handling[r].printer = p
      PROVE  handling[r] = [at |-> "flag", op |-> "connect", printer |-> p,
                            computer |-> handling[r].computer, shared |-> TRUE]
  BY <1>1 DEF PrintersInv, PrintersTypeOK, HandlersAreSound
<1> QED
  BY <1>1 DEF PrintersInv, SharedOrComing, FlagIsComing, ConnectedIsShared

\* printers.repo.js:236-269 and the queries beside it: a connected printer is shared, and the list, the details and
\* both sheets of the export tell the same, for any printers, computers and requests at once.
THEOREM RegisterStands == PrintersSpec => [](RegisterAgrees /\ ConnectedIsShared)
<1>1. PrintersInv => RegisterAgrees /\ ConnectedIsShared
  BY RegisterIsOne, ConnectedAreShared DEF PrintersInv
<1> QED
  BY PrintersInitInv, PrintersNextInv, <1>1, PTL DEF PrintersSpec

-----------------------------------------------------------------------------
(* Unwanted programs, services and drivers.                                *)

RuleKey(r) == <<r.kind, r.name, r.maker>>

\* The requests under way have their rules to come.
AddingIsCounted == IsFiniteSet(adding) /\ added + Cardinality(adding) <= MaxRules

\* A request that is alone has found no rule that is the same as its own.
AddedIsNew ==
  ~raced => /\ \A a, b \in adding : a = b
            /\ \A a \in adding, r \in rules : RuleKey(a) # RuleKey(r)

ExceptionsHaveRules == \A x \in exceptions : \E r \in rules : r.id = x.rule

FlaggedInv ==
  FlaggedTypeOK /\ IsFiniteSet(rules) /\ AddingIsCounted /\ AddedIsNew /\ ExceptionsHaveRules /\ RulesAreDistinct

LEMMA FlaggedInitInv == FlaggedInit => FlaggedInv
<1> SUFFICES ASSUME FlaggedInit PROVE FlaggedInv
  OBVIOUS
<1>1. FlaggedTypeOK
  <2>0. MaxRules \in Nat /\ added = 0
    BY FlaggedAssumption DEF FlaggedInit
  <2>1. added \in 0 .. MaxRules
    BY <2>0
  <2>3. raced \in BOOLEAN
    BY DEF FlaggedInit
  <2>2. rules = {} /\ adding = {} /\ exceptions = {} /\ installed = Detected
    BY DEF FlaggedInit
  <2> QED
    BY <2>1, <2>2, <2>3 DEF FlaggedTypeOK
<1>2. IsFiniteSet(rules) /\ AddingIsCounted
  BY FS_EmptySet, FlaggedAssumption DEF FlaggedInit, AddingIsCounted
<1> QED
  BY <1>1, <1>2 DEF FlaggedInit, FlaggedInv, AddedIsNew, ExceptionsHaveRules, RulesAreDistinct

LEMMA BeginAddInv ==
  ASSUME FlaggedInv, NEW i \in Detected, NEW number \in {1, 2}, BeginAdd(i, number) PROVE FlaggedInv'
<1> DEFINE new == [number |-> number, kind |-> i.kind, name |-> i.name, maker |-> i.maker]
<1>1. /\ Match(i.kind, i.name, i.maker) = {} /\ added + Cardinality(adding) < MaxRules
      /\ adding' = adding \cup {new} /\ raced' = (raced \/ adding # {})
      /\ rules' = rules /\ added' = added /\ exceptions' = exceptions /\ installed' = installed
  BY DEF BeginAdd
<1>2. FlaggedTypeOK /\ IsFiniteSet(rules) /\ AddingIsCounted /\ AddedIsNew /\ ExceptionsHaveRules /\ RulesAreDistinct
  BY DEF FlaggedInv
<1>3. i.kind \in Kinds /\ i.name \in Labels /\ i.maker \in Makers \cup {AnyMaker}
  BY FlaggedAssumption
<1>4. FlaggedTypeOK'
  BY <1>1, <1>2, <1>3 DEF FlaggedTypeOK
<1>5. AddingIsCounted'
  <2>1. IsFiniteSet(adding) /\ Cardinality(adding) \in Nat /\ added \in Nat /\ MaxRules \in Nat
    BY <1>2, FS_CardinalityType, FlaggedAssumption DEF AddingIsCounted, FlaggedTypeOK
  <2>2. IsFiniteSet(adding \cup {new})
        /\ Cardinality(adding \cup {new}) = IF new \in adding THEN Cardinality(adding) ELSE Cardinality(adding) + 1
    BY <2>1, FS_AddElement
  <2> HIDE DEF new
  <2> QED
    BY <1>1, <2>1, <2>2 DEF AddingIsCounted
<1>6. AddedIsNew'
  <2>1. \A r \in rules : RuleKey(new) # RuleKey(r)
    BY <1>1 DEF Match, RuleKey
  <2> QED
    BY <1>1, <2>1 DEF AddedIsNew
<1>7. ExceptionsHaveRules' /\ RulesAreDistinct'
  BY <1>1, <1>2 DEF ExceptionsHaveRules, RulesAreDistinct
<1> QED
  BY <1>1, <1>2, <1>4, <1>5, <1>6, <1>7 DEF FlaggedInv

LEMMA InsertRuleInv == ASSUME FlaggedInv, NEW a \in adding, InsertRule(a) PROVE FlaggedInv'
<1> DEFINE new == [id |-> added + 1, kind |-> a.kind, name |-> a.name, maker |-> a.maker]
<1>1. /\ adding' = adding \ {a} /\ added' = added + 1 /\ rules' = rules \cup {new}
      /\ raced' = raced /\ exceptions' = exceptions /\ installed' = installed
  BY DEF InsertRule
<1>2. FlaggedTypeOK /\ IsFiniteSet(rules) /\ AddingIsCounted /\ AddedIsNew /\ ExceptionsHaveRules /\ RulesAreDistinct
  BY DEF FlaggedInv
<1>3. AddingIsCounted' /\ added + 1 \in 0 .. MaxRules
  <2>1. IsFiniteSet(adding) /\ Cardinality(adding) \in Nat /\ added \in Nat /\ MaxRules \in Nat
    BY <1>2, FS_CardinalityType, FlaggedAssumption DEF AddingIsCounted, FlaggedTypeOK
  <2>2. IsFiniteSet(adding \ {a}) /\ Cardinality(adding \ {a}) = Cardinality(adding) - 1
        /\ Cardinality(adding \ {a}) \in Nat
    BY <2>1, FS_RemoveElement, FS_CardinalityType
  <2> QED
    BY <1>1, <1>2, <2>1, <2>2 DEF AddingIsCounted
<1>4. FlaggedTypeOK'
  <2>1. a.kind \in Kinds /\ a.name \in Labels /\ a.maker \in Makers \cup {AnyMaker}
    BY <1>2 DEF FlaggedTypeOK
  <2>2. added \in Nat /\ 1 .. added \subseteq 1 .. added' /\ added + 1 \in 1 .. added'
    BY <1>1, <1>2 DEF FlaggedTypeOK
  <2>3. rules' \subseteq [id : 1 .. added', kind : Kinds, name : Labels, maker : Makers \cup {AnyMaker}]
    <3>1. new \in [id : 1 .. added', kind : Kinds, name : Labels, maker : Makers \cup {AnyMaker}]
      BY <2>1, <2>2
    <3>2. rules \subseteq [id : 1 .. added', kind : Kinds, name : Labels, maker : Makers \cup {AnyMaker}]
      BY <1>2, <2>2 DEF FlaggedTypeOK
    <3> QED
      BY <1>1, <3>1, <3>2
  <2>4. exceptions' \subseteq [rule : 1 .. added', machine : Machines]
    BY <1>1, <1>2, <2>2 DEF FlaggedTypeOK
  <2> QED
    BY <1>1, <1>2, <1>3, <2>3, <2>4 DEF FlaggedTypeOK
<1>5. IsFiniteSet(rules')
  BY <1>1, <1>2, FS_AddElement
<1>6. AddedIsNew'
  BY <1>1, <1>2 DEF AddedIsNew
<1>7. ExceptionsHaveRules'
  BY <1>1, <1>2 DEF ExceptionsHaveRules
<1>8. RulesAreDistinct'
  <2>1. CASE raced
    BY <1>1, <2>1 DEF RulesAreDistinct
  <2>2. CASE ~raced
    <3>1. \A r \in rules : RuleKey(new) # RuleKey(r)
      BY <1>2, <2>2 DEF AddedIsNew, RuleKey
    <3>2. \A r, q \in rules : r # q => RuleKey(r) # RuleKey(q)
      BY <1>2, <2>2 DEF RulesAreDistinct, RuleKey
    <3> HIDE DEF new
    <3>3. \A r, q \in rules' : r # q => RuleKey(r) # RuleKey(q)
      BY <1>1, <3>1, <3>2
    <3> QED
      BY <3>3 DEF RulesAreDistinct, RuleKey
  <2> QED
    BY <2>1, <2>2
<1> QED
  BY <1>3, <1>4, <1>5, <1>6, <1>7, <1>8 DEF FlaggedInv

LEMMA FlaggedNextInv == FlaggedInv /\ [FlaggedNext]_flaggedVars => FlaggedInv'
<1> SUFFICES ASSUME FlaggedInv, [FlaggedNext]_flaggedVars PROVE FlaggedInv'
  OBVIOUS
<1>0. FlaggedTypeOK /\ IsFiniteSet(rules) /\ AddingIsCounted /\ AddedIsNew /\ ExceptionsHaveRules /\ RulesAreDistinct
  BY DEF FlaggedInv
<1>1. ASSUME UNCHANGED <<rules, added, adding, raced>>, exceptions' \subseteq [rule : 1 .. added, machine : Machines],
             ExceptionsHaveRules', installed' \subseteq Detected
      PROVE  FlaggedInv'
  BY <1>0, <1>1 DEF FlaggedInv, FlaggedTypeOK, AddingIsCounted, AddedIsNew, RulesAreDistinct
<1>2. CASE UNCHANGED flaggedVars
  BY <1>0, <1>1, <1>2 DEF flaggedVars, ExceptionsHaveRules, FlaggedTypeOK
<1>3. ASSUME NEW i \in Detected, Sync(i) PROVE FlaggedInv'
  BY <1>0, <1>1, <1>3 DEF Sync, ExceptionsHaveRules, FlaggedTypeOK
<1>4. ASSUME NEW r \in rules, RemoveRule(r) PROVE FlaggedInv'
  <2>1. /\ rules' = rules \ {r} /\ exceptions' = {x \in exceptions : x.rule # r.id}
        /\ added' = added /\ adding' = adding /\ raced' = raced /\ installed' = installed
    BY <1>4 DEF RemoveRule, WithoutRule
  <2>2. FlaggedTypeOK' /\ AddingIsCounted' /\ AddedIsNew' /\ RulesAreDistinct'
    BY <1>0, <2>1 DEF FlaggedTypeOK, AddingIsCounted, AddedIsNew, RulesAreDistinct
  <2>3. IsFiniteSet(rules')
    BY <1>0, <2>1, FS_RemoveElement
  <2>4. ExceptionsHaveRules'
    BY <1>0, <2>1 DEF ExceptionsHaveRules
  <2> QED
    BY <2>2, <2>3, <2>4 DEF FlaggedInv
<1>5. ASSUME NEW id \in 1 .. added, NEW m \in Machines, AddException(id, m) PROVE FlaggedInv'
  <2>1. CASE \E r \in rules : r.id = id
    BY <1>0, <1>1, <1>5, <2>1 DEF AddException, ExceptionsHaveRules, FlaggedTypeOK
  <2>2. CASE ~\E r \in rules : r.id = id
    BY <1>0, <1>1, <1>5, <2>2 DEF AddException, ExceptionsHaveRules, FlaggedTypeOK
  <2> QED
    BY <2>1, <2>2
<1>6. ASSUME NEW x \in exceptions, RemoveException(x) PROVE FlaggedInv'
  BY <1>0, <1>1, <1>6 DEF RemoveException, ExceptionsHaveRules, FlaggedTypeOK
<1> QED
  BY <1>2, <1>3, <1>4, <1>5, <1>6, BeginAddInv, InsertRuleInv DEF FlaggedNext

\* The least of the rules that apply, if there is one.
LEMMA MatchedIsRule ==
  ASSUME FlaggedTypeOK, NEW i
  PROVE  MatchedFlaggedId(i) # 0 <=> \E r \in rules : Applies(r, i) /\ ~Excepted(r, i.machine)
<1> DEFINE ids == {r.id : r \in {q \in rules : Applies(q, i) /\ ~Excepted(q, i.machine)}}
<1>1. ids \subseteq 1 .. added /\ added \in Nat
  BY DEF FlaggedTypeOK
<1>2. ids = {} <=> ~\E r \in rules : Applies(r, i) /\ ~Excepted(r, i.machine)
  OBVIOUS
<1>3. MatchedFlaggedId(i) = IF ids = {} THEN 0 ELSE Least(ids)
  BY DEF MatchedFlaggedId
<1>4. ids # {} => Least(ids) \in ids
  <2> HIDE DEF ids
  <2> SUFFICES ASSUME ids # {} PROVE Least(ids) \in ids
    OBVIOUS
  <2>1. ids \in SUBSET (0 .. added)
    BY <1>1
  <2> QED
    BY <1>1, <2>1, LeastNumber DEF Least
<1> HIDE DEF ids
<1> QED
  BY <1>1, <1>2, <1>3, <1>4

LEMMA FlagsAreOne ==
  ASSUME FlaggedTypeOK, IsFiniteSet(rules), ExceptionsHaveRules PROVE FlagsAgree
<1> SUFFICES ASSUME NEW kind \in Kinds, NEW m \in Machines
             PROVE  LET selecting == {r \in rules : r.kind = kind /\ AgentsOn[m] \cap AgentIdsFor(r) # {}} IN
                    /\ (Marked(kind, m) # {}) <=> (FlaggedCount(kind, m) > 0)
                    /\ AgentsOn[m] # {} => ((Marked(kind, m) # {}) <=> (selecting # {}))
                    /\ \A i \in installed :
                         i.kind = kind /\ i.machine = m /\ ShownAsFlagged(i) =>
                           i \in Marked(kind, m) \/ \E r \in ExceptionsOf(kind, m) : Applies(r, i)
  BY DEF FlagsAgree, ExceptionsHaveRules
<1> DEFINE Hits(i, r) == i.kind = kind /\ i.machine = m /\ Applies(r, i) /\ ~Excepted(r, m)
           pairs == {x \in installed \X rules : Hits(x[1], x[2])}
           selecting == {r \in rules : r.kind = kind /\ AgentsOn[m] \cap AgentIdsFor(r) # {}}
<1>0. installed \subseteq Detected
  BY DEF FlaggedTypeOK
<1>1. \A i \in installed : i \in Marked(kind, m) <=> \E r \in rules : Hits(i, r)
  BY MatchedIsRule DEF Marked
<1>2. FlaggedCount(kind, m) = Cardinality(pairs)
  BY DEF FlaggedCount
<1>3. IsFiniteSet(pairs)
  <2>1. IsFiniteSet(installed)
    BY <1>0, FlaggedAssumption, FS_Subset
  <2>2. IsFiniteSet(installed \X rules)
    BY <2>1, FS_Product
  <2> QED
    BY <2>2, FS_Subset
<1>4. (Marked(kind, m) # {}) <=> \E i \in installed, r \in rules : Hits(i, r)
  BY <1>1 DEF Marked
<1>5. (pairs # {}) <=> \E i \in installed, r \in rules : Hits(i, r)
  <2>1. ASSUME NEW i \in installed, NEW r \in rules, Hits(i, r) PROVE <<i, r>> \in pairs
    BY <2>1
  <2>2. \A x \in pairs : x[1] \in installed /\ x[2] \in rules /\ Hits(x[1], x[2])
    OBVIOUS
  <2> HIDE DEF pairs
  <2> QED
    BY <2>1, <2>2
<1>6. (Marked(kind, m) # {}) <=> (FlaggedCount(kind, m) > 0)
  <2> HIDE DEF pairs, Hits
  <2>1. Cardinality(pairs) \in Nat /\ (Cardinality(pairs) = 0 <=> pairs = {})
    BY <1>3, FS_CardinalityType, FS_EmptySet
  <2> QED
    BY <1>2, <1>4, <1>5, <2>1
<1>7. ASSUME AgentsOn[m] # {} PROVE (Marked(kind, m) # {}) <=> (selecting # {})
  <2>1. ASSUME NEW i \in installed, NEW r \in rules, Hits(i, r) PROVE r \in selecting
    <3>1. r.kind = kind
      BY <2>1 DEF Applies
    <3>2. AgentsOn[m] \subseteq AgentIdsFor(r)
      BY <2>1 DEF AgentIdsFor
    <3> QED
      BY <1>7, <3>1, <3>2
  <2>2. ASSUME NEW r \in selecting PROVE \E i \in installed : Hits(i, r)
    <3>1. PICK id \in AgentsOn[m] : id \in AgentIdsFor(r)
      OBVIOUS
    <3>2. PICK i \in installed : Applies(r, i) /\ ~Excepted(r, i.machine) /\ id \in AgentsOn[i.machine]
      BY <3>1 DEF AgentIdsFor
    <3>3. i.machine = m
      BY <1>0, <3>1, <3>2, FlaggedAssumption
    <3>4. i.kind = kind
      BY <3>2 DEF Applies
    <3> QED
      BY <3>2, <3>3, <3>4
  <2> HIDE DEF Hits
  <2> QED
    BY <1>4, <2>1, <2>2
<1>8. ASSUME NEW i \in installed, i.kind = kind, i.machine = m, ShownAsFlagged(i)
      PROVE  i \in Marked(kind, m) \/ \E r \in ExceptionsOf(kind, m) : Applies(r, i)
  <2>1. PICK r \in rules : r.kind = i.kind /\ r.name = i.name /\ r.maker = i.maker
    BY <1>8 DEF ShownAsFlagged
  <2>2. Applies(r, i)
    BY <1>0, <2>1, FlaggedAssumption DEF Applies
  <2> QED
    BY <1>1, <1>8, <2>1, <2>2 DEF ExceptionsOf
<1> HIDE DEF Hits, pairs
<1> QED
  BY <1>6, <1>7, <1>8

\* Whatever rules, exceptions and inventories come and go, all that applies the rules agrees, and no rule is added
\* twice by requests of which one follows the other.
THEOREM FlagsStand == FlaggedSpec => [](FlagsAgree /\ RulesAreDistinct)
<1>1. FlaggedInv => FlagsAgree /\ RulesAreDistinct
  BY FlagsAreOne DEF FlaggedInv
<1> QED
  BY FlaggedInitInv, FlaggedNextInv, <1>1, PTL DEF FlaggedSpec

-----------------------------------------------------------------------------
(* The list of agents.                                                     *)

FleetInv ==
  /\ FleetTypeOK
  /\ IsFiniteSet(DOMAIN fleet)
  /\ \A h \in Hosts : IsFiniteSet(hosts[h].managers)

LEMMA OlderIsAge == ASSUME NEW age \in Ages \cup {Never} PROVE Older(age) \in Ages \cup {Never}
<1> USE AgentTableAssumption
<1>1. CASE \A b \in Ages : age = Never \/ b <= age
  BY <1>1 DEF Older
<1>2. CASE ~\A b \in Ages : age = Never \/ b <= age
  <2>1. PICK b \in Ages : age # Never /\ ~(b <= age)
    BY <1>2
  <2>2. age \in Nat /\ b \in Nat /\ b > age
    BY <2>1
  <2> DEFINE T == {c \in Ages : c > age /\ c <= b}
  <2>3. T \in SUBSET (0 .. b) /\ T # {}
    <3>1. \A c \in T : c \in 0 .. b
      BY <2>2
    <3>2. b \in T
      BY <2>2
    <3> HIDE DEF T
    <3> QED
      BY <3>1, <3>2
  <2>4. PICK n \in T : \A m \in T : n <= m
    <3> HIDE DEF T
    <3> QED
      BY <2>2, <2>3, LeastNumber
  <2>5. n \in Ages /\ n > age /\ \A c \in Ages : c > age => n <= c
    BY <2>2, <2>4
  <2>6. \E d \in Ages : d > age /\ \A c \in Ages : c > age => d <= c
    BY <2>5
  <2>7. Older(age) = CHOOSE d \in Ages : d > age /\ \A c \in Ages : c > age => d <= c
    BY <1>2 DEF Older
  <2> QED
    BY <2>6, <2>7
<1> QED
  BY <1>1, <1>2

LEMMA FleetInitInv == FleetInit => FleetInv
<1> SUFFICES ASSUME FleetInit PROVE FleetInv
  OBVIOUS
<1>1. FleetTypeOK /\ IsFiniteSet(DOMAIN fleet)
  BY AgentTableAssumption DEF FleetInit, FleetTypeOK
<1>2. \A h \in Hosts : IsFiniteSet(hosts[h].managers)
  <2>1. \A h \in Hosts : hosts[h].managers = {}
    BY DEF FleetInit
  <2> QED
    BY <2>1, FS_EmptySet
<1> QED
  BY <1>1, <1>2 DEF FleetInv

\* A change of the fleet whose rows are of their type and finitely many.
LEMMA FleetChanges ==
  ASSUME FleetInv, NEW new, ChangeFleet(new), UNCHANGED hosts,
         DOMAIN new \subseteq AgentIds, IsFiniteSet(DOMAIN new),
         \A a \in DOMAIN new : new[a] \in FleetRows
  PROVE  FleetInv'
<1>1. FleetTypeOK'
  BY AgentTableAssumption DEF FleetInv, FleetTypeOK, ChangeFleet
<1> QED
  BY <1>1 DEF FleetInv, ChangeFleet

LEMMA FleetNextInv == FleetInv /\ [FleetNext]_fleetVars => FleetInv'
<1> SUFFICES ASSUME FleetInv, [FleetNext]_fleetVars PROVE FleetInv'
  OBVIOUS
<1> USE AgentTableAssumption
<1>0. /\ DOMAIN fleet \subseteq AgentIds /\ changes \in 0 .. MaxChanges /\ IsFiniteSet(DOMAIN fleet)
      /\ \A a \in DOMAIN fleet : fleet[a] \in FleetRows
      /\ hosts \in [Hosts -> [online : BOOLEAN, managers : SUBSET (Versions \cup {NoVersion})]]
      /\ \A h \in Hosts : IsFiniteSet(hosts[h].managers)
  BY DEF FleetInv, FleetTypeOK
<1>1. ASSUME NEW a \in AgentIds, NEW v \in Versions \cup {NoVersion}, InsertAgent(a, v) PROVE FleetInv'
  <2> DEFINE new == [b \in DOMAIN fleet \cup {a} |-> IF b = a THEN NewRow(v) ELSE fleet[b]]
  <2>1. NewRow(v) \in FleetRows
    BY DEF NewRow, FleetRows, Antivirus
  <2>2. IsFiniteSet(DOMAIN new) /\ DOMAIN new \subseteq AgentIds
    BY <1>0, FS_AddElement
  <2>3. \A b \in DOMAIN new : new[b] \in FleetRows
    BY <1>0, <2>1
  <2>4. ChangeFleet(new) /\ UNCHANGED hosts
    BY <1>1 DEF InsertAgent
  <2> HIDE DEF new
  <2> QED
    BY <2>2, <2>3, <2>4, FleetChanges
<1>2. ASSUME NEW a \in DOMAIN fleet, NEW r \in FleetRows, ChangeFleet([fleet EXCEPT ![a] = r]), UNCHANGED hosts
      PROVE  FleetInv'
  <2> DEFINE new == [fleet EXCEPT ![a] = r]
  <2>1. DOMAIN new = DOMAIN fleet /\ \A b \in DOMAIN new : new[b] \in FleetRows
    BY <1>0
  <2> HIDE DEF new
  <2>2. IsFiniteSet(DOMAIN new) /\ DOMAIN new \subseteq AgentIds
    BY <1>0, <2>1
  <2>3. ChangeFleet(new)
    BY <1>2 DEF new
  <2> QED
    BY <1>2, <2>1, <2>2, <2>3, FleetChanges
<1>3. ASSUME NEW a \in DOMAIN fleet, NEW v \in Versions, NEW s \in Antivirus, HeartbeatOf(a, v, s) PROVE FleetInv'
  <2>1. [fleet[a] EXCEPT !.age = 0, !.version = v, !.antivirus = s] \in FleetRows
    BY <1>0 DEF FleetRows
  <2>2. /\ ChangeFleet([fleet EXCEPT ![a] = [fleet[a] EXCEPT !.age = 0, !.version = v, !.antivirus = s]])
        /\ UNCHANGED hosts
    BY <1>3 DEF HeartbeatOf, ChangeFleet
  <2> QED
    BY <1>2, <2>1, <2>2
<1>4. ASSUME NEW a \in DOMAIN fleet, NEW h \in Hosts, LinkToHost(a, h) PROVE FleetInv'
  <2>1. [fleet[a] EXCEPT !.host = h] \in FleetRows
    BY <1>0 DEF FleetRows
  <2> QED
    BY <1>2, <1>4, <2>1 DEF LinkToHost
<1>5. ASSUME NEW a \in DOMAIN fleet, RevokeRow(a) PROVE FleetInv'
  <2>1. [fleet[a] EXCEPT !.active = FALSE] \in FleetRows
    BY <1>0 DEF FleetRows
  <2> QED
    BY <1>2, <1>5, <2>1 DEF RevokeRow
<1>6. ASSUME NEW a \in DOMAIN fleet, DeleteAgentRow(a) PROVE FleetInv'
  <2> DEFINE new == [b \in DOMAIN fleet \ {a} |-> fleet[b]]
  <2>1. IsFiniteSet(DOMAIN new) /\ DOMAIN new \subseteq AgentIds /\ \A b \in DOMAIN new : new[b] \in FleetRows
    BY <1>0, FS_RemoveElement
  <2>2. ChangeFleet(new) /\ UNCHANGED hosts
    BY <1>6 DEF DeleteAgentRow
  <2> HIDE DEF new
  <2> QED
    BY <2>1, <2>2, FleetChanges
<1>7. ASSUME NEW a \in DOMAIN fleet, NEW g \in GroupNames, RemoveGroup(a, g) PROVE FleetInv'
  <2>1. [fleet[a] EXCEPT !.groups = @ \ {g}] \in FleetRows
    BY <1>0 DEF FleetRows
  <2> QED
    BY <1>2, <1>7, <2>1 DEF RemoveGroup
<1>8. ASSUME NEW ids \in SUBSET AgentIds, NEW g \in GroupNames, AddGroup(ids, g) PROVE FleetInv'
  <2> DEFINE new == [a \in DOMAIN fleet |->
                       IF a \in ids THEN [fleet[a] EXCEPT !.groups = @ \cup {g}] ELSE fleet[a]]
  <2>1. \A a \in DOMAIN fleet : [fleet[a] EXCEPT !.groups = @ \cup {g}] \in FleetRows
    BY <1>0 DEF FleetRows
  <2>2. IsFiniteSet(DOMAIN new) /\ DOMAIN new \subseteq AgentIds /\ \A b \in DOMAIN new : new[b] \in FleetRows
    BY <1>0, <2>1
  <2>3. ChangeFleet(new) /\ UNCHANGED hosts
    BY <1>8 DEF AddGroup
  <2> HIDE DEF new
  <2> QED
    BY <2>2, <2>3, FleetChanges
<1>9. ASSUME NEW h \in Hosts, OtherWriters(h) PROVE FleetInv'
  <2>1. fleet' = fleet /\ changes' \in 0 .. MaxChanges
    BY <1>0, <1>9 DEF OtherWriters, ChangeFleet
  <2>2. CASE hosts' = [hosts EXCEPT ![h].online = ~@]
    <3>1. hosts' \in [Hosts -> [online : BOOLEAN, managers : SUBSET (Versions \cup {NoVersion})]]
      BY <1>0, <2>2
    <3>2. \A k \in Hosts : hosts'[k].managers = hosts[k].managers
      BY <1>0, <2>2
    <3>3. FleetTypeOK'
      BY <1>0, <2>1, <3>1 DEF FleetTypeOK
    <3> QED
      BY <1>0, <2>1, <3>2, <3>3 DEF FleetInv
  <2>3. ASSUME NEW v \in Versions \cup {NoVersion},
               hosts' = [hosts EXCEPT ![h].managers = (@ \cup {v}) \ (@ \cap {v})]
        PROVE  FleetInv'
    <3> DEFINE M == hosts[h].managers
    <3>1. hosts' \in [Hosts -> [online : BOOLEAN, managers : SUBSET (Versions \cup {NoVersion})]]
      BY <1>0, <2>3
    <3>2. \A k \in Hosts : hosts'[k].managers = IF k = h THEN (M \cup {v}) \ (M \cap {v}) ELSE hosts[k].managers
      BY <1>0, <2>3
    <3>3. IsFiniteSet((M \cup {v}) \ (M \cap {v}))
      <4>1. IsFiniteSet(M)
        BY <1>0
      <4> HIDE DEF M
      <4>2. IsFiniteSet(M \cup {v})
        BY <4>1, FS_AddElement
      <4> QED
        BY <4>2, FS_Subset
    <3>4. \A k \in Hosts : IsFiniteSet(hosts'[k].managers)
      BY <1>0, <3>2, <3>3
    <3>5. FleetTypeOK'
      BY <1>0, <2>1, <3>1 DEF FleetTypeOK
    <3> QED
      BY <1>0, <2>1, <3>4, <3>5 DEF FleetInv
  <2> QED
    BY <1>9, <2>2, <2>3 DEF OtherWriters
<1>10. CASE Wait
  <2>1. \A a \in DOMAIN fleet : [fleet[a] EXCEPT !.age = Older(@)] \in FleetRows
    <3> SUFFICES ASSUME NEW a \in DOMAIN fleet PROVE [fleet[a] EXCEPT !.age = Older(@)] \in FleetRows
      OBVIOUS
    <3>1. fleet[a] \in FleetRows /\ Older(fleet[a].age) \in Ages \cup {Never}
      BY <1>0, OlderIsAge DEF FleetRows
    <3> QED
      BY <3>1 DEF FleetRows
  <2>2. DOMAIN fleet' = DOMAIN fleet /\ \A a \in DOMAIN fleet : fleet'[a] \in FleetRows
    BY <1>10, <2>1 DEF Wait
  <2> QED
    BY <1>0, <1>10, <2>2 DEF Wait, FleetInv, FleetTypeOK
<1>11. CASE UNCHANGED fleetVars
  BY <1>11 DEF fleetVars, FleetInv, FleetTypeOK
<1> QED
  BY <1>1, <1>3, <1>4, <1>5, <1>6, <1>7, <1>8, <1>9, <1>10, <1>11 DEF FleetNext

\* The filters of one place with one of them set.
AtSiteOnly(place) == [AnyAgent EXCEPT !.site = place]

LEMMA AgentsAreTyped ==
  ASSUME FleetInv, NEW place
  PROVE  /\ IsFiniteSet(DOMAIN fleet)
         /\ \A a \in AtPlace(place) :
              /\ a \in DOMAIN fleet /\ a \in Nat
              /\ fleet[a].active \in BOOLEAN /\ fleet[a].age \in Ages \cup {Never}
              /\ fleet[a].host \in Hosts \cup {NoHost}
              /\ fleet[a].groups \in SUBSET GroupNames /\ fleet[a].version \in Versions \cup {NoVersion}
              /\ fleet[a].antivirus \in Antivirus
              /\ ManagersOn(a) \in SUBSET (Versions \cup {NoVersion})
              /\ IsFiniteSet(ManagersOn(a))
<1> SUFFICES ASSUME NEW a \in AtPlace(place)
             PROVE  /\ a \in DOMAIN fleet /\ a \in Nat
                    /\ fleet[a].active \in BOOLEAN /\ fleet[a].age \in Ages \cup {Never}
                    /\ fleet[a].host \in Hosts \cup {NoHost}
                    /\ fleet[a].groups \in SUBSET GroupNames /\ fleet[a].version \in Versions \cup {NoVersion}
                    /\ fleet[a].antivirus \in Antivirus
                    /\ ManagersOn(a) \in SUBSET (Versions \cup {NoVersion})
                    /\ IsFiniteSet(ManagersOn(a))
  BY DEF FleetInv
<1>1. a \in DOMAIN fleet /\ a \in Nat /\ fleet[a] \in FleetRows
  BY AgentTableAssumption DEF AtPlace, FleetInv, FleetTypeOK
<1>2. /\ fleet[a].active \in BOOLEAN /\ fleet[a].age \in Ages \cup {Never}
      /\ fleet[a].host \in Hosts \cup {NoHost}
      /\ fleet[a].groups \in SUBSET GroupNames /\ fleet[a].version \in Versions \cup {NoVersion}
      /\ fleet[a].antivirus \in Antivirus
  BY <1>1 DEF FleetRows
<1>3. ManagersOn(a) \in SUBSET (Versions \cup {NoVersion}) /\ IsFiniteSet(ManagersOn(a))
  <2>1. CASE Linked(a)
    <3>1. fleet[a].host \in Hosts /\ ManagersOn(a) = hosts[fleet[a].host].managers
      BY <1>2, <2>1 DEF Linked, ManagersOn
    <3> QED
      BY <3>1 DEF FleetInv, FleetTypeOK
  <2>2. CASE ~Linked(a)
    BY <2>2, FS_EmptySet DEF ManagersOn
  <2> QED
    BY <2>1, <2>2
<1> QED
  BY <1>1, <1>2, <1>3

LEMMA OptionsFind == ASSUME FleetInv, NEW place PROVE OptionsAgree(place)
<1> DEFINE base == AtSiteOnly(place)
<1>0. \A a \in AtPlace(place) : /\ fleet[a].groups \in SUBSET GroupNames
                                /\ fleet[a].version \in Versions \cup {NoVersion}
                                /\ ManagersOn(a) \in SUBSET (Versions \cup {NoVersion})
  BY AgentsAreTyped
<1>1. ASSUME NEW v \in Versions
      PROVE  /\ v \in DistinctVersions(place) <=> AgentsWhere([base EXCEPT !.version = {v}]) # {}
             /\ v \in DistinctManagerVersions(place) <=> AgentsWhere([base EXCEPT !.managerVersion = {v}]) # {}
             /\ Splits(place, [base EXCEPT !.version = {v}], [base EXCEPT !.versionNot = {v}])
             /\ Splits(place, [base EXCEPT !.managerVersion = {v}], [base EXCEPT !.managerVersionNot = {v}])
             /\ AgentsWhere([base EXCEPT !.managerVersion = {v}])
                  \subseteq AgentsWhere([base EXCEPT !.managerChannel = "true"])
  <2>1. v # NoVersion
    BY AgentTableAssumption
  <2>2. AgentsWhere([base EXCEPT !.version = {v}]) = {a \in AtPlace(place) : fleet[a].version = v}
    BY DEF AgentsWhere, AnyAgent, AtSiteOnly
  <2>3. AgentsWhere([base EXCEPT !.versionNot = {v}]) = {a \in AtPlace(place) : fleet[a].version # v}
    BY DEF AgentsWhere, AnyAgent, AtSiteOnly
  <2>4. AgentsWhere([base EXCEPT !.managerVersion = {v}]) = {a \in AtPlace(place) : v \in ManagersOn(a)}
    BY DEF AgentsWhere, AnyAgent, AtSiteOnly
  <2>5. AgentsWhere([base EXCEPT !.managerVersionNot = {v}]) = {a \in AtPlace(place) : v \notin ManagersOn(a)}
    BY DEF AgentsWhere, AnyAgent, AtSiteOnly
  <2>6. AgentsWhere([base EXCEPT !.managerChannel = "true"]) = {a \in AtPlace(place) : ManagersOn(a) # {}}
    BY DEF AgentsWhere, AnyAgent, AtSiteOnly
  <2> HIDE DEF base
  <2>7. v \in DistinctVersions(place) <=> AgentsWhere([base EXCEPT !.version = {v}]) # {}
    BY <2>1, <2>2 DEF DistinctVersions
  <2>8. v \in DistinctManagerVersions(place) <=> AgentsWhere([base EXCEPT !.managerVersion = {v}]) # {}
    BY <2>1, <2>4 DEF DistinctManagerVersions
  <2>9. Splits(place, [base EXCEPT !.version = {v}], [base EXCEPT !.versionNot = {v}])
    BY <2>2, <2>3 DEF Splits
  <2>10. Splits(place, [base EXCEPT !.managerVersion = {v}], [base EXCEPT !.managerVersionNot = {v}])
    BY <2>4, <2>5 DEF Splits
  <2>11. AgentsWhere([base EXCEPT !.managerVersion = {v}])
           \subseteq AgentsWhere([base EXCEPT !.managerChannel = "true"])
    BY <2>4, <2>6
  <2> QED
    BY <2>7, <2>8, <2>9, <2>10, <2>11
<1>2. Splits(place, [base EXCEPT !.managerChannel = "true"], [base EXCEPT !.managerChannel = "false"])
  <2>1. AgentsWhere([base EXCEPT !.managerChannel = "true"]) = {a \in AtPlace(place) : ManagersOn(a) # {}}
    BY DEF AgentsWhere, AnyAgent, AtSiteOnly
  <2>2. AgentsWhere([base EXCEPT !.managerChannel = "false"]) = {a \in AtPlace(place) : ManagersOn(a) = {}}
    BY DEF AgentsWhere, AnyAgent, AtSiteOnly
  <2> HIDE DEF base
  <2> QED
    BY <2>1, <2>2 DEF Splits
<1>3. ASSUME GroupNames # {}
      PROVE  Splits(place, [base EXCEPT !.noGroup = TRUE], [base EXCEPT !.groups = GroupNames])
  <2>1. AgentsWhere([base EXCEPT !.noGroup = TRUE]) = {a \in AtPlace(place) : fleet[a].groups = {}}
    BY DEF AgentsWhere, AnyAgent, AtSiteOnly
  <2>2. AgentsWhere([base EXCEPT !.groups = GroupNames]) =
          {a \in AtPlace(place) : fleet[a].groups \cap GroupNames # {}}
    BY <1>3 DEF AgentsWhere, AnyAgent, AtSiteOnly
  <2> HIDE DEF base
  <2>3. \A a \in AtPlace(place) : fleet[a].groups \cap GroupNames = fleet[a].groups
    BY <1>0
  <2> QED
    BY <2>1, <2>2, <2>3 DEF Splits
<1>4. ASSUME NEW g \in GroupNames
      PROVE  g \in DistinctDeploymentGroups(place) <=> AgentsWhere([base EXCEPT !.groups = {g}]) # {}
  <2>1. AgentsWhere([base EXCEPT !.groups = {g}]) = {a \in AtPlace(place) : g \in fleet[a].groups}
    BY DEF AgentsWhere, AnyAgent, AtSiteOnly
  <2> HIDE DEF base
  <2> QED
    BY <2>1 DEF DistinctDeploymentGroups
<1> QED
  BY <1>1, <1>2, <1>3, <1>4, Zenon DEF OptionsAgree, AtSiteOnly

LEMMA ClassIsShown == ASSUME FleetInv PROVE ShownClassAgrees
<1> SUFFICES ASSUME NEW a \in DOMAIN fleet
             PROVE  ComputedConnectivity(a) = Connectivity(a) \/ fleet[a].age \in {601, 3601}
  BY DEF ShownClassAgrees
<1> DEFINE age == fleet[a].age
<1>1. age \in Ages \cup {Never}
  BY AgentsAreTyped DEF AtPlace
<1>2. CASE age = Never
  BY <1>2 DEF Connectivity, ComputedConnectivity
<1>3. CASE age # Never /\ age \in Nat
  <2> HIDE DEF age
  <2>1. age \div 2 <= 300 <=> age <= 601
    BY <1>3
  <2>2. age \div 2 <= 1800 <=> age <= 3601
    BY <1>3
  <2>3. /\ ComputedConnectivity(a) = IF age <= 600 THEN "online" ELSE IF age <= 3600 THEN "stale" ELSE "offline"
        /\ Connectivity(a) = IF age <= 601 THEN "online" ELSE IF age <= 3601 THEN "stale" ELSE "offline"
    BY <1>3, <2>1, <2>2 DEF Connectivity, ComputedConnectivity, age
  <2>4. ComputedConnectivity(a) = Connectivity(a) \/ age \in {601, 3601}
    <3> HIDE DEF age
    <3> QED
      BY <1>3, <2>3
  <2> QED
    BY <2>4 DEF age
<1>4. age = Never \/ (age # Never /\ age \in Nat)
  <2> HIDE DEF age
  <2> QED
    BY <1>1, AgentTableAssumption
<1> QED
  BY <1>2, <1>3, <1>4

LEMMA CountsAreOne == ASSUME FleetInv, NEW place PROVE CountsAgree(place)
<1> DEFINE base == [AnyAgent EXCEPT !.site = place]
           active == [AnyAgent EXCEPT !.site = place, !.status = "active"]
           found == {a \in AtPlace(place) : fleet[a].active}
           Of(c) == AgentsWhere([active EXCEPT !.connectivity = c])
<1>1. AgentsWhere(active) = found
  <2>1. \A a \in AtPlace(place) : fleet[a].active \in BOOLEAN
    BY AgentsAreTyped
  <2> QED
    BY <2>1 DEF AgentsWhere, AnyAgent
<1>2. \A c \in Classes : Of(c) = {a \in found : Connectivity(a) = c}
  <2>1. \A a \in AtPlace(place) : fleet[a].active \in BOOLEAN
    BY AgentsAreTyped
  <2>2. ASSUME NEW c \in Classes PROVE Of(c) = {a \in found : Connectivity(a) = c}
    <3>1. c # "any"
      BY DEF Classes
    <3> QED
      BY <2>1, <3>1 DEF AgentsWhere, AnyAgent
  <2> HIDE DEF Of, found
  <2> QED
    BY <2>2
<1>3. UNION {Of(c) : c \in Classes} = AgentsWhere(active)
  <2>1. \A a \in found : Connectivity(a) \in Classes
    BY DEF Connectivity, Classes
  <2> HIDE DEF active, found, Of
  <2>2. \A c \in Classes : Of(c) \subseteq found
    BY <1>2
  <2>3. \A a \in found : a \in Of(Connectivity(a))
    BY <1>2, <2>1
  <2>4. UNION {Of(c) : c \in Classes} = found
    BY <2>1, <2>2, <2>3
  <2> QED
    BY <1>1, <2>4
<1>4. IsFiniteSet(found)
  <2>1. IsFiniteSet(DOMAIN fleet) /\ found \in SUBSET DOMAIN fleet
    BY AgentsAreTyped DEF AtPlace
  <2> HIDE DEF found
  <2> QED
    BY <2>1, FS_Subset
<1>5. Cardinality(found) \in Nat /\ (found = {} => Cardinality(found) = 0)
  <2> HIDE DEF found
  <2> QED
    BY <1>4, FS_CardinalityType, FS_EmptySet
\* All agents that are found stand under the class k of one of them.
<1>6. ASSUME NEW count \in CountsByConnectivity(place)
      PROVE  \E k \in Classes :
               /\ \A c \in Classes : count[c] = IF c = k THEN Cardinality(found) ELSE 0
               /\ found # {} => \E a \in found : Connectivity(a) = k
  <2> DEFINE zero == [c \in Classes |-> 0]
  <2>1. CASE found = {}
    <3>1. count = zero
      BY <1>6, <2>1 DEF CountsByConnectivity
    <3>2. Cardinality(found) = 0
      BY <1>5, <2>1
    <3>3. \A c \in Classes : count[c] = IF c = "unknown" THEN Cardinality(found) ELSE 0
      <4> HIDE DEF found
      <4> QED
        BY <3>1, <3>2
    <3> QED
      BY <2>1, <3>3 DEF Classes
  <2>2. CASE found # {}
    <3>1. PICK a \in found : count = [zero EXCEPT ![Connectivity(a)] = Cardinality(found)]
      BY <1>6, <2>2 DEF CountsByConnectivity
    <3>2. Connectivity(a) \in Classes
      BY DEF Connectivity, Classes
    <3> DEFINE n == Cardinality(found)
               k == Connectivity(a)
    <3>3. \A c \in Classes : count[c] = IF c = k THEN n ELSE 0
      <4> HIDE DEF n, k
      <4>1. count = [zero EXCEPT ![k] = n]
        BY <3>1 DEF n, k
      <4> QED
        BY <4>1
    <3> QED
      BY <3>2, <3>3
  <2> QED
    BY <2>1, <2>2
<1>7. ASSUME NEW count \in CountsByConnectivity(place)
      PROVE  count["online"] + count["stale"] + count["offline"] + count["unknown"] = Cardinality(found)
  <2> DEFINE n == Cardinality(found)
  <2>1. PICK k \in Classes : \A c \in Classes : count[c] = IF c = k THEN n ELSE 0
    BY <1>6
  <2>2. n \in Nat
    BY <1>5
  <2> HIDE DEF found, n
  <2>3. k \in {"online", "stale", "offline", "unknown"}
    BY DEF Classes
  <2>4. /\ count["online"] = IF k = "online" THEN n ELSE 0
        /\ count["stale"] = IF k = "stale" THEN n ELSE 0
        /\ count["offline"] = IF k = "offline" THEN n ELSE 0
        /\ count["unknown"] = IF k = "unknown" THEN n ELSE 0
    BY <2>1 DEF Classes
  <2>5. count["online"] + count["stale"] + count["offline"] + count["unknown"] = n
    BY <2>2, <2>3, <2>4
  <2> QED
    BY <2>5 DEF n
\* When that is the class of all of them, the figures of the classes are right.
<1>8. ASSUME NEW count \in CountsByConnectivity(place), NEW d \in Classes, Of(d) = found, NEW c \in Classes
      PROVE  count[c] = Cardinality(Of(c))
  <2>1. PICK k \in Classes : /\ \A e \in Classes : count[e] = IF e = k THEN Cardinality(found) ELSE 0
                             /\ found # {} => \E a \in found : Connectivity(a) = k
    BY <1>6
  <2> HIDE DEF found, Of
  <2>2. \A a \in found : Connectivity(a) = d
    BY <1>2, <1>8
  <2>3. found # {} => k = d
    BY <2>1, <2>2
  <2>4. c # d => Of(c) = {}
    BY <1>2, <2>2
  <2>5. CASE found = {}
    <3>1. Of(c) = {}
      BY <1>8, <2>4, <2>5
    <3> QED
      BY <1>5, <2>1, <2>5, <3>1
  <2>6. CASE found # {} /\ c = d
    BY <1>8, <2>1, <2>3, <2>6
  <2>7. CASE found # {} /\ c # d
    BY <2>1, <2>3, <2>4, <2>7, FS_EmptySet
  <2> QED
    BY <2>5, <2>6, <2>7
<1>9. AgentOfflineButIpOnline(place) =
        {a \in AgentsWhere([base EXCEPT !.offlineIpOnline = TRUE]) : fleet[a].active}
  <2>1. AgentsWhere([base EXCEPT !.offlineIpOnline = TRUE]) =
          {a \in AtPlace(place) : Connectivity(a) # "online" /\ Linked(a) /\ hosts[fleet[a].host].online}
    BY DEF AgentsWhere, AnyAgent
  <2> HIDE DEF base
  <2> QED
    BY <2>1 DEF AgentOfflineButIpOnline
<1>10. AntivirusInactiveAgents(place) =
         {a \in AgentsWhere([base EXCEPT !.antivirusInactive = TRUE]) : fleet[a].antivirus # "unknown"}
  <2>1. AgentsWhere([base EXCEPT !.antivirusInactive = TRUE]) =
          {a \in AtPlace(place) : fleet[a].antivirus # "enabled"}
    BY DEF AgentsWhere, AnyAgent
  <2>2. \A a \in AtPlace(place) : fleet[a].antivirus \in {"enabled", "disabled", "unknown"}
    BY AgentsAreTyped DEF FleetRows, Antivirus, AtPlace
  <2> HIDE DEF base
  <2> QED
    BY <2>1, <2>2 DEF AntivirusInactiveAgents
<1>11. \A count \in CountsByConnectivity(place) :
         count["online"] + count["stale"] + count["offline"] + count["unknown"] = Cardinality(AgentsWhere(active))
  <2> HIDE DEF active, found
  <2> QED
    BY <1>1, <1>7
<1>12. \A count \in CountsByConnectivity(place) :
         (\E c \in Classes : Of(c) = AgentsWhere(active)) => \A c \in Classes : count[c] = Cardinality(Of(c))
  <2> HIDE DEF active, found, Of
  <2> QED
    BY <1>1, <1>8
<1> QED
  BY <1>3, <1>9, <1>10, <1>11, <1>12, Zenon DEF CountsAgree

\* With one Manager at most, an agent is in the list once, so that the list is as long as its total.
LEMMA JoinedOnce ==
  ASSUME FleetInv, \A h \in Hosts : Cardinality(hosts[h].managers) < 2, NEW f
  PROVE  /\ IsFiniteSet(AgentsWhere(f)) /\ IsFiniteSet(WithManagers(AgentsWhere(f)))
         /\ Cardinality(WithManagers(AgentsWhere(f))) = Cardinality(AgentsWhere(f))
         /\ \A x \in WithManagers(AgentsWhere(f)) : x[1] \in AgentsWhere(f)
         /\ \A a \in AgentsWhere(f) : \E x \in WithManagers(AgentsWhere(f)) : x[1] = a
         /\ \A x, y \in WithManagers(AgentsWhere(f)) : x[1] = y[1] => x = y
<1> DEFINE S == AgentsWhere(f)
           J == WithManagers(S)
<1>1. S \in SUBSET AtPlace(f.site) /\ S \in SUBSET DOMAIN fleet
  BY DEF AgentsWhere, AtPlace
<1>2. IsFiniteSet(S)
  BY <1>1, FS_Subset DEF FleetInv
<1>3. \A a \in S : /\ ManagersOn(a) \in SUBSET (Versions \cup {NoVersion})
                   /\ \A u, v \in ManagersOn(a) : u = v
  <2> SUFFICES ASSUME NEW a \in S
               PROVE  /\ ManagersOn(a) \in SUBSET (Versions \cup {NoVersion})
                      /\ \A u, v \in ManagersOn(a) : u = v
    OBVIOUS
  <2>0. a \in AtPlace(f.site)
    BY <1>1
  <2>1. /\ ManagersOn(a) \in SUBSET (Versions \cup {NoVersion}) /\ IsFiniteSet(ManagersOn(a))
        /\ fleet[a].host \in Hosts \cup {NoHost}
    BY <2>0, AgentsAreTyped
  <2>2. CASE Linked(a)
    <3>1. ManagersOn(a) = hosts[fleet[a].host].managers /\ fleet[a].host \in Hosts
      BY <2>1, <2>2 DEF Linked, ManagersOn
    <3>2. Cardinality(ManagersOn(a)) < 2
      BY <3>1
    <3> QED
      BY <2>1, <3>2, OneAtMost
  <2>3. CASE ~Linked(a)
    BY <2>1, <2>3 DEF ManagersOn
  <2> QED
    BY <2>2, <2>3
<1> HIDE DEF S
<1>4. \A x \in J : /\ x \in S \X (Versions \cup {NoVersion})
                   /\ x[2] \in ManagersOn(x[1]) \/ (x[2] = NoVersion /\ ManagersOn(x[1]) = {})
  BY DEF WithManagers
<1>5. \A a \in S : \E x \in J : x[1] = a
  <2> SUFFICES ASSUME NEW a \in S PROVE \E x \in J : x[1] = a
    OBVIOUS
  <2>1. CASE ManagersOn(a) = {}
    <3>1. <<a, NoVersion>> \in J
      BY <2>1 DEF WithManagers
    <3> HIDE DEF J
    <3> QED
      BY <3>1
  <2>2. CASE ManagersOn(a) # {}
    <3>1. PICK v \in ManagersOn(a) : TRUE
      BY <2>2
    <3>2. <<a, v>> \in J
      BY <1>3, <3>1 DEF WithManagers
    <3> HIDE DEF J
    <3> QED
      BY <3>2
  <2> QED
    BY <2>1, <2>2
<1> HIDE DEF J
<1>6. \A x, y \in J : x[1] = y[1] => x = y
  <2> SUFFICES ASSUME NEW x \in J, NEW y \in J, x[1] = y[1] PROVE x = y
    OBVIOUS
  <2>1. x \in S \X (Versions \cup {NoVersion}) /\ y \in S \X (Versions \cup {NoVersion})
    BY <1>4
  <2>2. x[2] = y[2]
    BY <1>3, <1>4, <2>1
  <2> QED
    BY <2>1, <2>2
<1>7. \A x \in J : x[1] \in S
  BY <1>4
<1>8. IsFiniteSet(J) /\ Cardinality(J) = Cardinality(S)
  <2> DEFINE agent == [x \in J |-> x[1]]
  <2>1. agent \in [J -> S]
    BY <1>7
  <2>2. \A x, y \in J : agent[x] = agent[y] => x = y
    BY <1>6
  <2>3. \A a \in S : \E x \in J : agent[x] = a
    BY <1>5
  <2> HIDE DEF agent
  <2>4. agent \in Injection(J, S) /\ agent \in Surjection(J, S)
    BY <2>1, <2>2, <2>3 DEF Injection, IsInjective, Surjection
  <2> QED
    BY <1>2, <2>4, FS_Injection
<1> QED
  BY <1>2, <1>5, <1>6, <1>7, <1>8 DEF S, J

LEMMA PagesAreOne ==
  ASSUME FleetInv, \A h \in Hosts : Cardinality(hosts[h].managers) < 2,
         NEW f, NEW limit \in Nat \ {0}
  PROVE  PagesAgree(f, limit)
<1> DEFINE S == AgentsWhere(f)
           J == WithManagers(S)
           R == {p \in J \X J : Later(p[1], p[2])}
<1>1. S \subseteq Nat
  BY AgentTableAssumption DEF AgentsWhere, AtPlace, FleetInv, FleetTypeOK
<1>2. /\ IsFiniteSet(S) /\ IsFiniteSet(J) /\ Cardinality(J) = Cardinality(S)
      /\ \A x \in J : x[1] \in S
      /\ \A a \in S : \E x \in J : x[1] = a
      /\ \A x, y \in J : x[1] = y[1] => x = y
  BY JoinedOnce
<1> HIDE DEF S, J
<1>3. \A x, y \in J : Later(x, y) <=> x[1] > y[1]
  <2> SUFFICES ASSUME NEW x \in J, NEW y \in J PROVE Later(x, y) <=> x[1] > y[1]
    OBVIOUS
  <2>1. CASE x[1] = y[1]
    <3>1. x = y /\ x[1] \in Nat
      BY <1>1, <1>2, <2>1
    <3> QED
      BY <3>1 DEF Later
  <2>2. CASE x[1] # y[1]
    BY <2>2 DEF Later
  <2> QED
    BY <2>1, <2>2
<1>4. \A x, y \in J : <<x, y>> \in R <=> x[1] > y[1]
  BY <1>3
<1>5. StrictOrder(J, R)
  <2> HIDE DEF R
  <2>0. \A x \in J : x[1] \in Nat
    BY <1>1, <1>2
  <2>1. \A x \in J : <<x, x>> \notin R
    BY <1>4, <2>0
  <2>2. \A x, y, z \in J : <<x, y>> \in R /\ <<y, z>> \in R => <<x, z>> \in R
    BY <1>4, <2>0
  <2>3. \A x, y \in J : x = y \/ <<x, y>> \in R \/ <<y, x>> \in R
    <3> SUFFICES ASSUME NEW x \in J, NEW y \in J, x # y PROVE <<x, y>> \in R \/ <<y, x>> \in R
      OBVIOUS
    <3>1. x[1] # y[1] /\ x[1] \in Nat /\ y[1] \in Nat
      BY <1>2, <2>0
    <3>2. x[1] > y[1] \/ y[1] > x[1]
      BY <3>1
    <3> QED
      BY <1>4, <3>2
  <2> QED
    BY <2>1, <2>2, <2>3 DEF StrictOrder
<1> DEFINE last == PagesOf(J, limit)
           RowsTo(n) == PageIn(J, R, limit, n)
<1>6. \A n : ListAgents(f, n, limit).items = RowsTo(n)
  <2>1. \A x \in J : {y \in J : Later(y, x)} = {y \in J : <<y, x>> \in R}
    OBVIOUS
  <2> SUFFICES ASSUME NEW n PROVE ListAgents(f, n, limit).items = RowsTo(n)
    OBVIOUS
  <2>2. ListAgents(f, n, limit).items =
          {x \in J : Cardinality({y \in J : Later(y, x)}) \in (n - 1) * limit .. n * limit - 1}
    BY DEF ListAgents, S, J
  <2> HIDE DEF R
  <2> QED
    BY <2>1, <2>2 DEF PageIn
<1>7. ListAgents(f, 1, limit).totalPages = last
  <2>1. ListAgents(f, 1, limit).totalPages = (Cardinality(S) + limit - 1) \div limit
    BY DEF ListAgents, S
  <2> QED
    BY <1>2, <2>1 DEF PagesOf
<1> HIDE DEF R
<1>8. /\ last \in Nat
      /\ \A n \in 1 .. last : RowsTo(n) # {}
      /\ \A x \in J : \E n \in 1 .. last : x \in RowsTo(n)
  BY <1>2, <1>5, PagesAreAll
<1>9. \A n, x : x \in RowsTo(n) => x \in J
  BY DEF PageIn
<1> HIDE DEF last, RowsTo
<1> DEFINE pages == {ListAgents(f, n, limit).items : n \in 1 .. ListAgents(f, 1, limit).totalPages}
<1>10. \A p : p \in pages <=> \E n \in 1 .. last : p = RowsTo(n)
  BY <1>6, <1>7
<1> HIDE DEF pages
<1>11. \A p \in pages : p # {}
  BY <1>8, <1>10
<1>12. UNION {{x[1] : x \in p} : p \in pages} = S
  <2>1. \A p \in pages : \A x \in p : x[1] \in S
    BY <1>2, <1>9, <1>10
  <2>2. \A a \in S : \E p \in pages : \E x \in p : x[1] = a
    <3> SUFFICES ASSUME NEW a \in S PROVE \E p \in pages : \E x \in p : x[1] = a
      OBVIOUS
    <3>1. PICK x \in J : x[1] = a
      BY <1>2
    <3>2. PICK n \in 1 .. last : x \in RowsTo(n)
      BY <1>8
    <3>3. RowsTo(n) \in pages
      BY <1>10
    <3> QED
      BY <3>1, <3>2, <3>3
  <2> QED
    BY <2>1, <2>2
<1> QED
  BY <1>11, <1>12 DEF PagesAgree, pages, ListAgentIds, S

LEMMA FleetIsOne == FleetInv => FleetAgrees
<1> SUFFICES ASSUME FleetInv PROVE FleetAgrees
  OBVIOUS
<1>1. {1, 2} \subseteq Nat \ {0}
  OBVIOUS
<1> QED
  BY <1>1, ClassIsShown, OptionsFind, CountsAreOne, PagesAreOne DEF FleetAgrees

\* The list of agents, its filters with their options, "select all" and the notifications tell the same
\* of the table at every moment (agents.repo.js, notifications.repo.js), but for the differences that
\* CountsAgree names.  One is an error of the code: the figures of the daily report for the classes of
\* connectivity are those of the filter where the active agents are of one class, otherwise only their
\* sum is.
THEOREM FleetDescribesOneTable == FleetSpec => []FleetAgrees
<1>1. FleetInit => FleetInv
  BY FleetInitInv
<1>2. FleetInv /\ [FleetNext]_fleetVars => FleetInv'
  BY FleetNextInv
<1>3. FleetInv => FleetAgrees
  BY FleetIsOne
<1> QED
  BY <1>1, <1>2, <1>3, PTL DEF FleetSpec

-----------------------------------------------------------------------------
(* The list of entries.                                                    *)

\* The rows are finitely many, and no two have one address (a unique key).
EntriesInv ==
  /\ EntriesTypeOK
  /\ IsFiniteSet(DOMAIN rows)
  /\ \A i, j \in DOMAIN rows : rows[i].ip = rows[j].ip => i = j

LEMMA EntriesInitInv == EntriesInit => EntriesInv
  BY EntriesAssumption DEF EntriesInit, EntriesInv, EntriesTypeOK

\* A change of one row that leaves its address or gives it one that is free.
LEMMA SetKeepsInv ==
  ASSUME EntriesInv, Edit, NEW i \in DOMAIN rows, NEW r \in EntryRows, rows' = [rows EXCEPT ![i] = r],
         r.ip = rows[i].ip \/ r.ip \notin Taken
  PROVE  EntriesInv'
<1>1. edits' \in 0 .. MaxEdits
  BY EntriesAssumption DEF Edit, EntriesInv, EntriesTypeOK
<1>2. DOMAIN rows' = DOMAIN rows /\ \A j \in DOMAIN rows : rows'[j] = IF j = i THEN r ELSE rows[j]
  OBVIOUS
<1>3. EntriesTypeOK'
  BY <1>1, <1>2 DEF EntriesInv, EntriesTypeOK
<1>4. \A j \in DOMAIN rows : j # i => r.ip # rows[j].ip
  BY DEF EntriesInv, Taken
<1>5. \A j, k \in DOMAIN rows : rows'[j].ip = rows'[k].ip => j = k
  BY <1>2, <1>4 DEF EntriesInv
<1> QED
  BY <1>2, <1>3, <1>5 DEF EntriesInv

LEMMA EntriesNextInv == EntriesInv /\ [EntriesNext]_entriesVars => EntriesInv'
<1> SUFFICES ASSUME EntriesInv, [EntriesNext]_entriesVars PROVE EntriesInv'
  OBVIOUS
<1>0. /\ DOMAIN rows \subseteq Ids /\ edits \in 0 .. MaxEdits /\ IsFiniteSet(DOMAIN rows)
      /\ \A i \in DOMAIN rows : rows[i] \in EntryRows
      /\ \A i, j \in DOMAIN rows : rows[i].ip = rows[j].ip => i = j
  BY DEF EntriesInv, EntriesTypeOK
<1>1. ASSUME NEW ip \in Ips, NEW name \in ComputerNames, NEW place \in Locations, NEW kind \in EntryTypes,
             Create(ip, name, place, kind)
      PROVE  EntriesInv'
  <2> DEFINE i == CHOOSE i \in Ids : i \notin DOMAIN rows
             r == [ip |-> ip, name |-> name, department |-> NoText, site |-> place, type |-> kind,
                   online |-> FALSE, pending |-> FALSE, recent |-> FALSE, hardware |-> "unknown",
                   agents |-> 0]
  <2>1. i \in Ids /\ i \notin DOMAIN rows
    <3>1. \E j \in Ids : j \notin DOMAIN rows
      BY <1>0, <1>1 DEF Create
    <3> QED
      BY <3>1
  <2>2. r \in EntryRows /\ r.ip = ip
    BY DEF EntryRows, Hardware
  <2>3. rows' = [j \in DOMAIN rows \cup {i} |-> IF j \in DOMAIN rows THEN rows[j] ELSE r]
    BY <1>1 DEF Create
  <2>4. ip \notin Taken /\ edits' \in 0 .. MaxEdits
    BY <1>0, <1>1, EntriesAssumption DEF Create, Edit
  <2> HIDE DEF i, r
  <2>5. /\ DOMAIN rows' = DOMAIN rows \cup {i} /\ rows'[i] = r
        /\ \A j \in DOMAIN rows : rows'[j] = rows[j]
    BY <2>1, <2>3
  <2>6. EntriesTypeOK'
    BY <1>0, <2>1, <2>2, <2>4, <2>5 DEF EntriesTypeOK
  <2>7. \A j \in DOMAIN rows : rows[j].ip # ip
    BY <2>4 DEF Taken
  <2>8. \A j, k \in DOMAIN rows' : rows'[j].ip = rows'[k].ip => j = k
    BY <1>0, <2>2, <2>5, <2>7
  <2>9. IsFiniteSet(DOMAIN rows')
    BY <1>0, <2>5, FS_AddElement
  <2> QED
    BY <2>6, <2>8, <2>9 DEF EntriesInv
<1>2. ASSUME NEW i \in DOMAIN rows, UpdateEntry(i) PROVE EntriesInv'
  <2>0. rows[i] \in EntryRows
    BY <1>0
  <2>1. ASSUME NEW ip \in Ips \ Taken, Set(i, "ip", ip) PROVE EntriesInv'
    <3>1. [rows[i] EXCEPT !["ip"] = ip] \in EntryRows /\ [rows[i] EXCEPT !["ip"] = ip].ip = ip
      BY <2>0 DEF EntryRows
    <3>2. rows' = [rows EXCEPT ![i] = [rows[i] EXCEPT !["ip"] = ip]]
      BY <2>1 DEF Set
    <3> QED
      BY <2>1, <3>1, <3>2, SetKeepsInv DEF Set
  <2>2. ASSUME NEW name \in ComputerNames \cup {NoText}, Set(i, "name", name) PROVE EntriesInv'
    <3>1. [rows[i] EXCEPT !["name"] = name] \in EntryRows /\ [rows[i] EXCEPT !["name"] = name].ip = rows[i].ip
      BY <2>0 DEF EntryRows
    <3>2. rows' = [rows EXCEPT ![i] = [rows[i] EXCEPT !["name"] = name]]
      BY <2>2 DEF Set
    <3> QED
      BY <2>2, <3>1, <3>2, SetKeepsInv DEF Set
  <2>3. ASSUME NEW department \in Departments \cup {NoText}, Set(i, "department", department) PROVE EntriesInv'
    <3> DEFINE r == [rows[i] EXCEPT !["department"] = department]
    <3>1. r \in EntryRows /\ r.ip = rows[i].ip
      BY <2>0 DEF EntryRows
    <3>2. rows' = [rows EXCEPT ![i] = r]
      BY <2>3 DEF Set
    <3> QED
      BY <2>3, <3>1, <3>2, SetKeepsInv DEF Set
  <2>4. ASSUME NEW place \in Locations, Set(i, "site", place) PROVE EntriesInv'
    <3> DEFINE r == [rows[i] EXCEPT !["site"] = place]
    <3>1. r \in EntryRows /\ r.ip = rows[i].ip
      BY <2>0 DEF EntryRows
    <3>2. rows' = [rows EXCEPT ![i] = r]
      BY <2>4 DEF Set
    <3> QED
      BY <2>4, <3>1, <3>2, SetKeepsInv DEF Set
  <2>5. ASSUME NEW kind \in EntryTypes, Set(i, "type", kind) PROVE EntriesInv'
    <3> DEFINE r == [rows[i] EXCEPT !["type"] = kind]
    <3>1. r \in EntryRows /\ r.ip = rows[i].ip
      BY <2>0 DEF EntryRows
    <3>2. rows' = [rows EXCEPT ![i] = r]
      BY <2>5 DEF Set
    <3> QED
      BY <2>5, <3>1, <3>2, SetKeepsInv DEF Set
  <2> QED
    BY <1>2, <2>1, <2>2, <2>3, <2>4, <2>5 DEF UpdateEntry
<1>3. ASSUME NEW i \in DOMAIN rows, Delete(i) PROVE EntriesInv'
  <2>1. rows' = [j \in DOMAIN rows \ {i} |-> rows[j]] /\ edits' \in 0 .. MaxEdits
    BY <1>0, <1>3, EntriesAssumption DEF Delete, Edit
  <2>2. DOMAIN rows' = DOMAIN rows \ {i} /\ \A j \in DOMAIN rows' : rows'[j] = rows[j]
    BY <2>1
  <2>3. IsFiniteSet(DOMAIN rows')
    BY <1>0, <2>2, FS_RemoveElement
  <2>4. EntriesTypeOK'
    BY <1>0, <2>1, <2>2 DEF EntriesTypeOK
  <2> QED
    BY <1>0, <2>2, <2>3, <2>4 DEF EntriesInv
<1>4. ASSUME NEW i \in DOMAIN rows, SetPendingRepack(i) \/ Others(i) PROVE EntriesInv'
  <2>0. rows[i] \in EntryRows
    BY <1>0
  <2>1. CASE Set(i, "pending", ~rows[i].pending)
    <3> DEFINE r == [rows[i] EXCEPT !["pending"] = ~rows[i].pending]
    <3>1. r \in EntryRows /\ r.ip = rows[i].ip
      BY <2>0 DEF EntryRows
    <3>2. rows' = [rows EXCEPT ![i] = r]
      BY <2>1 DEF Set
    <3> QED
      BY <2>1, <3>1, <3>2, SetKeepsInv DEF Set
  <2>2. CASE Set(i, "online", ~rows[i].online)
    <3> DEFINE r == [rows[i] EXCEPT !["online"] = ~rows[i].online]
    <3>1. r \in EntryRows /\ r.ip = rows[i].ip
      BY <2>0 DEF EntryRows
    <3>2. rows' = [rows EXCEPT ![i] = r]
      BY <2>2 DEF Set
    <3> QED
      BY <2>2, <3>1, <3>2, SetKeepsInv DEF Set
  <2>3. ASSUME NEW n \in {rows[i].agents - 1, rows[i].agents + 1} \cap (0..2), Set(i, "agents", n) PROVE EntriesInv'
    <3> DEFINE r == [rows[i] EXCEPT !["agents"] = n]
    <3>1. r \in EntryRows /\ r.ip = rows[i].ip
      BY <2>0 DEF EntryRows
    <3>2. rows' = [rows EXCEPT ![i] = r]
      BY <2>3 DEF Set
    <3> QED
      BY <2>3, <3>1, <3>2, SetKeepsInv DEF Set
  <2>4. CASE Set(i, "recent", ~rows[i].recent)
    <3> DEFINE r == [rows[i] EXCEPT !["recent"] = ~rows[i].recent]
    <3>1. r \in EntryRows /\ r.ip = rows[i].ip
      BY <2>0 DEF EntryRows
    <3>2. rows' = [rows EXCEPT ![i] = r]
      BY <2>4 DEF Set
    <3> QED
      BY <2>4, <3>1, <3>2, SetKeepsInv DEF Set
  <2>5. ASSUME NEW h \in Hardware, Set(i, "hardware", h) PROVE EntriesInv'
    <3> DEFINE r == [rows[i] EXCEPT !["hardware"] = h]
    <3>1. r \in EntryRows /\ r.ip = rows[i].ip
      BY <2>0 DEF EntryRows
    <3>2. rows' = [rows EXCEPT ![i] = r]
      BY <2>5 DEF Set
    <3> QED
      BY <2>5, <3>1, <3>2, SetKeepsInv DEF Set
  <2> QED
    BY <1>4, <2>1, <2>2, <2>3, <2>4, <2>5 DEF SetPendingRepack, Others
<1>5. CASE UNCHANGED entriesVars
  BY <1>5 DEF entriesVars, EntriesInv, EntriesTypeOK
<1> QED
  BY <1>1, <1>2, <1>3, <1>4, <1>5 DEF EntriesNext

\* What an entry and a filter are made of.
LEMMA RowsAre ==
  ASSUME EntriesInv
  PROVE  /\ IsFiniteSet(DOMAIN rows)
         /\ \A i \in DOMAIN rows :
              /\ rows[i].ip \in Nat /\ rows[i].ip \in Ips
              /\ rows[i].name \in ComputerNames \cup {NoText}
              /\ rows[i].department \in Departments \cup {NoText}
              /\ rows[i].site \in Locations \cup {NoText} /\ rows[i].type \in EntryTypes
              /\ rows[i].online \in BOOLEAN /\ rows[i].pending \in BOOLEAN /\ rows[i].recent \in BOOLEAN
              /\ rows[i].agents \in 0 .. 2
         /\ \A i, j \in DOMAIN rows : rows[i].ip = rows[j].ip => i = j
<1>1. \A i \in DOMAIN rows : rows[i] \in EntryRows
  BY DEF EntriesInv, EntriesTypeOK
<1> QED
  BY <1>1, EntriesAssumption DEF EntriesInv, EntryRows

LEMMA EveryQueryIsFinite ==
  ASSUME EntriesInv, NEW S \in SUBSET DOMAIN rows
  PROVE  IsFiniteSet(S) /\ Cardinality(S) \in Nat
BY RowsAre, FS_Subset, FS_CardinalityType

LEMMA DisjointParts ==
  ASSUME NEW S, IsFiniteSet(S), NEW T
  PROVE  Cardinality(S \cap T) + Cardinality(S \ T) = Cardinality(S)
<1> DEFINE A == S \cap T
           B == S \ T
<1>1. A \in SUBSET S /\ B \in SUBSET S /\ A \cup B = S /\ A \cap B = {}
  OBVIOUS
<1> HIDE DEF A, B
<1>2. IsFiniteSet(A) /\ IsFiniteSet(B)
  BY <1>1, FS_Subset
<1>3. Cardinality(A \cup B) = Cardinality(A) + Cardinality(B) - Cardinality(A \cap B)
  BY <1>2, FS_Union
<1>4. Cardinality(A) \in Nat /\ Cardinality(B) \in Nat /\ Cardinality(A \cap B) = 0
  BY <1>1, <1>2, FS_CardinalityType, FS_EmptySet
<1> QED
  BY <1>1, <1>3, <1>4 DEF A, B

LEMMA CountersAreOne ==
  ASSUME EntriesInv, NEW f \in Filter, f.status = "all", ~f.pendingRepack
  PROVE  CountersAgree(f)
<1> DEFINE B == Base(f)
<1>1. B \in SUBSET DOMAIN rows
  BY DEF Base, AtSite
<1>2. ListedEntries(f) = B
  BY DEF ListedEntries, OfStatus
<1>3. ListedEntries([f EXCEPT !.status = "online"]) = B \cap Online
  <2>1. Base([f EXCEPT !.status = "online"]) = B
    BY DEF Base, Filter
  <2>2. [f EXCEPT !.status = "online"].status = "online" /\ ~[f EXCEPT !.status = "online"].pendingRepack
    BY DEF Filter
  <2> HIDE DEF B
  <2> QED
    BY <2>1, <2>2 DEF ListedEntries, OfStatus
<1>4. ListedEntries([f EXCEPT !.status = "offline"]) = B \ Online
  <2>1. Base([f EXCEPT !.status = "offline"]) = B
    BY DEF Base, Filter
  <2>2. [f EXCEPT !.status = "offline"].status = "offline" /\ ~[f EXCEPT !.status = "offline"].pendingRepack
    BY DEF Filter
  <2> HIDE DEF B
  <2> QED
    BY <2>1, <2>2 DEF ListedEntries, OfStatus
<1>5. ListedEntries([f EXCEPT !.pendingRepack = TRUE]) = B \cap PendingRepack
  <2>1. Base([f EXCEPT !.pendingRepack = TRUE]) = B
    BY DEF Base, Filter
  <2>2. [f EXCEPT !.pendingRepack = TRUE].status = "all" /\ [f EXCEPT !.pendingRepack = TRUE].pendingRepack
    BY DEF Filter
  <2> HIDE DEF B
  <2> QED
    BY <2>1, <2>2 DEF ListedEntries, OfStatus
<1>6. Cardinality(B \cap Online) + Cardinality(B \ Online) = Cardinality(B)
  <2>1. IsFiniteSet(B)
    BY <1>1, EveryQueryIsFinite
  <2> HIDE DEF B
  <2> QED
    BY <2>1, DisjointParts
<1> QED
  BY <1>2, <1>3, <1>4, <1>5, <1>6, Zenon DEF CountersAgree, Counts, Total

\* Entries in the order of their addresses, each once.
LEMMA PagesOfEntries ==
  ASSUME EntriesInv, NEW S \in SUBSET DOMAIN rows, NEW limit \in Limits,
         NEW J, \A x \in J : x[1] \in S /\ x = <<x[1], 0>>, \A i \in S : <<i, 0>> \in J, NEW last, last = Ceiling(Cardinality(S), limit)
  PROVE  /\ last \in Nat /\ Cardinality(S) \in Nat /\ (last = 0 => S = {})
         /\ \A n \in 1 .. last : PageOf(J, n, limit) # {}
         /\ \A i \in S : \E n \in 1 .. last : <<i, 0>> \in PageOf(J, n, limit)
         /\ \A m, n \in Nat : m < n => PageOf(J, m, limit) \cap PageOf(J, n, limit) = {}
         /\ \A n : PageOf(J, n, limit) \subseteq J
<1> DEFINE R == {p \in J \X J : Before(p[1], p[2])}
<1>1. IsFiniteSet(S) /\ Cardinality(S) \in Nat
  BY EveryQueryIsFinite
<1>2. IsFiniteSet(J) /\ Cardinality(J) = Cardinality(S)
  <2> DEFINE pair == [i \in S |-> <<i, 0>>]
  <2>1. pair \in [S -> J] /\ (\A i, j \in S : pair[i] = pair[j] => i = j) /\ (\A x \in J : \E i \in S : pair[i] = x)
    OBVIOUS
  <2> HIDE DEF pair
  <2>2. pair \in Injection(S, J) /\ pair \in Surjection(S, J)
    BY <2>1 DEF Injection, IsInjective, Surjection
  <2> QED
    BY <1>1, <2>2, FS_Surjection
<1>3. \A x \in J : x[1] \in S /\ x[2] = 0 /\ x = <<x[1], 0>> /\ rows[x[1]].ip \in Nat
  BY RowsAre
<1>4. \A x, y \in J : <<x, y>> \in R <=> rows[x[1]].ip < rows[y[1]].ip
  BY <1>3 DEF Before
<1>5. \A x, y \in J : rows[x[1]].ip = rows[y[1]].ip => x = y
  BY <1>3, RowsAre
<1>6. \A x \in J : {y \in J : <<y, x>> \in R} = {y \in J : Before(y, x)}
  OBVIOUS
<1> HIDE DEF R
<1>7. StrictOrder(J, R)
  <2>1. \A x \in J : <<x, x>> \notin R
    BY <1>3, <1>4
  <2>2. \A x, y, z \in J : <<x, y>> \in R /\ <<y, z>> \in R => <<x, z>> \in R
    BY <1>3, <1>4
  <2>3. \A x, y \in J : x = y \/ <<x, y>> \in R \/ <<y, x>> \in R
    <3> SUFFICES ASSUME NEW x \in J, NEW y \in J, x # y PROVE <<x, y>> \in R \/ <<y, x>> \in R
      OBVIOUS
    <3>1. rows[x[1]].ip \in Nat /\ rows[y[1]].ip \in Nat /\ rows[x[1]].ip # rows[y[1]].ip
      BY <1>3, <1>5
    <3>2. rows[x[1]].ip < rows[y[1]].ip \/ rows[y[1]].ip < rows[x[1]].ip
      BY <3>1
    <3> QED
      BY <1>4, <3>2
  <2> QED
    BY <2>1, <2>2, <2>3 DEF StrictOrder
<1>8. limit \in Nat \ {0} /\ last = PagesOf(J, limit)
  BY <1>2, EntriesAssumption DEF PagesOf, Ceiling
<1>9. \A n : PageOf(J, n, limit) = PageIn(J, R, limit, n)
  BY <1>6 DEF PageOf, PageIn
<1>10. /\ last \in Nat
       /\ \A n \in 1 .. last : PageOf(J, n, limit) # {}
       /\ \A x \in J : \E n \in 1 .. last : x \in PageOf(J, n, limit)
       /\ \A m, n \in Nat : m < n => PageOf(J, m, limit) \cap PageOf(J, n, limit) = {}
  <2>1. /\ last \in Nat
        /\ \A n \in 1 .. last : PageIn(J, R, limit, n) # {}
        /\ \A x \in J : \E n \in 1 .. last : x \in PageIn(J, R, limit, n)
        /\ \A m, n \in Nat : m < n => PageIn(J, R, limit, m) \cap PageIn(J, R, limit, n) = {}
    <3>1. IsFiniteSet(J) /\ StrictOrder(J, R) /\ limit \in Nat \ {0} /\ last = PagesOf(J, limit)
      BY <1>2, <1>7, <1>8
    <3>2. /\ PagesOf(J, limit) \in Nat
          /\ \A n \in 1 .. PagesOf(J, limit) : PageIn(J, R, limit, n) # {}
          /\ \A x \in J : \E n \in 1 .. PagesOf(J, limit) : x \in PageIn(J, R, limit, n)
          /\ \A m, n \in Nat : m < n => PageIn(J, R, limit, m) \cap PageIn(J, R, limit, n) = {}
      BY <3>1, PagesAreAll
    <3> QED
      BY <3>1, <3>2
  <2>2. \A n \in 1 .. last : PageOf(J, n, limit) # {}
    BY <1>9, <2>1
  <2>3. ASSUME NEW x \in J PROVE \E n \in 1 .. last : x \in PageOf(J, n, limit)
    <3>1. PICK n \in 1 .. last : x \in PageIn(J, R, limit, n)
      BY <2>1
    <3>2. x \in PageOf(J, n, limit)
      BY <1>9, <3>1
    <3> QED
      BY <3>2
  <2>4. ASSUME NEW m \in Nat, NEW n \in Nat, m < n
        PROVE  PageOf(J, m, limit) \cap PageOf(J, n, limit) = {}
    <3>1. PageIn(J, R, limit, m) \cap PageIn(J, R, limit, n) = {}
      BY <2>1, <2>4
    <3>2. PageOf(J, m, limit) = PageIn(J, R, limit, m) /\ PageOf(J, n, limit) = PageIn(J, R, limit, n)
      BY <1>9
    <3> QED
      BY <3>1, <3>2
  <2> QED
    BY <2>1, <2>2, <2>3, <2>4
<1>11. \A i \in S : \E n \in 1 .. last : <<i, 0>> \in PageOf(J, n, limit)
  <2> SUFFICES ASSUME NEW i \in S PROVE \E n \in 1 .. last : <<i, 0>> \in PageOf(J, n, limit)
    OBVIOUS
  <2>1. <<i, 0>> \in J
    OBVIOUS
  <2> QED
    BY <1>10, <2>1, Zenon
<1>12. last = 0 => S = {}
  <2>1. last = 0 => 1 .. last = {}
    BY <1>10
  <2> QED
    BY <1>11, <2>1
<1>13. \A n : PageOf(J, n, limit) \subseteq J
  BY DEF PageOf
<1> QED
  BY <1>1, <1>10, <1>11, <1>12, <1>13

LEMMA SafePages ==
  ASSUME NEW last \in Nat
  PROVE  /\ \A n \in 1 .. last : last # 0 /\ Between(1, n, last) = n
         /\ last # 0 => Between(1, last + 1, last) = last /\ Between(1, last, last) = last
BY DEF Between

LEMMA PagesArePartition ==
  ASSUME EntriesInv, \A i \in DOMAIN rows : rows[i].agents < 2, NEW f, NEW limit \in Limits
  PROVE  PagesPartition(f, limit)
<1> DEFINE S == ListedEntries(f)
           J == Joined(S)
           last == Ceiling(Total(f), limit)
           Shown(n) == ListIpEntries(f, n, limit)
           Ids1(n) == {a[1] : a \in Shown(n).entries}
           pages == {Ids1(n) : n \in 1 .. last}
<1>1. S \in SUBSET DOMAIN rows
  BY DEF ListedEntries, OfStatus, Base, AtSite
<1> HIDE DEF S
<1>2. (\A x \in J : x[1] \in S /\ x = <<x[1], 0>>) /\ (\A i \in S : <<i, 0>> \in J)
  <2>1. \A i \in S : rows[i].agents \in {0, 1}
    BY <1>1, RowsAre
  <2>2. \A x \in J : x[1] \in S /\ x[2] = 0 /\ x = <<x[1], x[2]>>
    BY <2>1 DEF Joined
  <2>3. \A i \in S : <<i, 0>> \in J
    BY <2>1 DEF Joined
  <2> HIDE DEF J
  <2> QED
    BY <2>2, <2>3
<1>3. last = Ceiling(Cardinality(S), limit)
  BY DEF Total, S
<1> HIDE DEF J, last
<1>4. /\ last \in Nat /\ Cardinality(S) \in Nat
      /\ \A n \in 1 .. last : PageOf(J, n, limit) # {}
      /\ \A i \in S : \E n \in 1 .. last : <<i, 0>> \in PageOf(J, n, limit)
      /\ \A m, n \in Nat : m < n => PageOf(J, m, limit) \cap PageOf(J, n, limit) = {}
      /\ \A n : PageOf(J, n, limit) \subseteq J
  <2>1. \A x \in J : x[1] \in S /\ x = <<x[1], 0>>
    BY <1>2
  <2>2. \A i \in S : <<i, 0>> \in J
    BY <1>2
  <2> HIDE DEF Shown, Ids1, pages
  <2> QED
    BY <1>1, <2>1, <2>2, <1>3, PagesOfEntries
<1>5. \A n \in 1 .. last : Shown(n).entries = PageOf(J, n, limit)
  <2> SUFFICES ASSUME NEW n \in 1 .. last PROVE Shown(n).entries = PageOf(J, n, limit)
    OBVIOUS
  <2>1. last # 0 /\ Between(1, n, last) = n
    BY <1>4, SafePages
  <2> QED
    BY <2>1 DEF ListIpEntries, J, S, last
<1>6. Shown(last + 1) = Shown(last)
  <2>1. CASE last = 0
    BY <2>1 DEF ListIpEntries, last
  <2>2. CASE last # 0
    <3>1. Between(1, last + 1, last) = Between(1, last, last)
      BY <1>4, <2>2, SafePages
    <3> QED
      BY <2>2, <3>1 DEF ListIpEntries, last
  <2> QED
    BY <2>1, <2>2
<1> HIDE DEF Shown
<1>7. \A n \in 1 .. last : \A i : i \in Ids1(n) <=> <<i, 0>> \in PageOf(J, n, limit)
  <2> SUFFICES ASSUME NEW n \in 1 .. last, NEW i PROVE i \in Ids1(n) <=> <<i, 0>> \in PageOf(J, n, limit)
    OBVIOUS
  <2>1. \A x \in PageOf(J, n, limit) : x = <<x[1], 0>>
    BY <1>2, <1>4
  <2> QED
    BY <1>5, <2>1
<1>8. \A n \in 1 .. last : Ids1(n) # {}
  <2> SUFFICES ASSUME NEW n \in 1 .. last PROVE Ids1(n) # {}
    OBVIOUS
  <2>1. PICK x \in PageOf(J, n, limit) : TRUE
    BY <1>4
  <2> QED
    BY <1>5, <2>1
<1> HIDE DEF Ids1
<1>9. \A m, n \in 1 .. last : m # n => Ids1(m) \cap Ids1(n) = {}
  <2> SUFFICES ASSUME NEW m \in 1 .. last, NEW n \in 1 .. last, m # n PROVE Ids1(m) \cap Ids1(n) = {}
    OBVIOUS
  <2>1. m \in Nat /\ n \in Nat /\ (m < n \/ n < m)
    BY <1>4
  <2>2. PageOf(J, m, limit) \cap PageOf(J, n, limit) = {}
    BY <1>4, <2>1
  <2> QED
    BY <1>7, <2>2
<1>10. \A i \in S : \E n \in 1 .. last : i \in Ids1(n)
  BY <1>4, <1>7
<1>11. \A n \in 1 .. last : Ids1(n) \subseteq S
  <2> SUFFICES ASSUME NEW n \in 1 .. last, NEW i \in Ids1(n) PROVE i \in S
    OBVIOUS
  <2>1. <<i, 0>> \in J
    BY <1>4, <1>7
  <2> QED
    BY <1>2, <2>1
<1>12. UNION pages = S
  BY <1>10, <1>11
<1>13. {} \notin pages
  BY <1>8
<1>14. \A p, q \in pages : p = q \/ p \cap q = {}
  BY <1>9
<1>15. Cardinality(pages) = last
  <2> DEFINE page == [n \in 1 .. last |-> Ids1(n)]
  <2>1. page \in [1 .. last -> pages]
    OBVIOUS
  <2>2. \A m, n \in 1 .. last : page[m] = page[n] => m = n
    <3> SUFFICES ASSUME NEW m \in 1 .. last, NEW n \in 1 .. last, Ids1(m) = Ids1(n), m # n PROVE FALSE
      OBVIOUS
    <3>1. Ids1(m) \cap Ids1(n) = {} /\ Ids1(m) # {}
      BY <1>8, <1>9
    <3> QED
      BY <3>1
  <2>3. \A p \in pages : \E n \in 1 .. last : page[n] = p
    OBVIOUS
  <2> HIDE DEF page, pages
  <2>4. page \in Injection(1 .. last, pages) /\ page \in Surjection(1 .. last, pages)
    BY <2>1, <2>2, <2>3 DEF Injection, IsInjective, Surjection
  <2>5. IsFiniteSet(1 .. last) /\ Cardinality(1 .. last) = last
    BY <1>4, NumbersUpTo
  <2> QED
    BY <2>4, <2>5, FS_Surjection
<1> QED
  BY <1>6, <1>12, <1>13, <1>14, <1>15, Zenon DEF PagesPartition, S, last, Ids1, Shown

-----------------------------------------------------------------------------
(* The queries of one site.                                                *)

ScopeOf(place) == [All EXCEPT !.site = place]

LEMMA SearchedForNothing ==
  Searched(NoText) = DOMAIN rows /\ SearchedByName(NoText) = DOMAIN rows
BY DEF Searched, SearchedByName

LEMMA ScopesAre ==
  ASSUME NEW place \in Locations
  PROVE  /\ Base(ScopeOf(place)) = AtSite(place)
         /\ ListedEntries(ScopeOf(place)) = AtSite(place)
         /\ ListedEntries([ScopeOf(place) EXCEPT !.type = "unknown"])
              = {i \in AtSite(place) : rows[i].type = NoText}
         /\ ListedEntries([ScopeOf(place) EXCEPT !.type = "computer"])
              = {i \in AtSite(place) : rows[i].type = "computer"}
         /\ \A d : ListedEntries([ScopeOf(place) EXCEPT !.departments = {d}])
                     = {i \in AtSite(place) : rows[i].department = d}
<1>1. AtSite(place) \cap DOMAIN rows = AtSite(place)
  BY DEF AtSite
<1>2. Base(ScopeOf(place)) = AtSite(place) /\ ListedEntries(ScopeOf(place)) = AtSite(place)
  BY <1>1, SearchedForNothing DEF ListedEntries, OfStatus, Base, ScopeOf, All
<1>3. ListedEntries([ScopeOf(place) EXCEPT !.type = "unknown"])
        = {i \in AtSite(place) : rows[i].type = NoText}
  BY <1>1, SearchedForNothing DEF ListedEntries, OfStatus, Base, ScopeOf, All
<1>4. ListedEntries([ScopeOf(place) EXCEPT !.type = "computer"])
        = {i \in AtSite(place) : rows[i].type = "computer"}
  BY <1>1, SearchedForNothing DEF ListedEntries, OfStatus, Base, ScopeOf, All
<1>5. ASSUME NEW d
      PROVE  ListedEntries([ScopeOf(place) EXCEPT !.departments = {d}])
               = {i \in AtSite(place) : rows[i].department = d}
  BY <1>1, SearchedForNothing DEF ListedEntries, OfStatus, Base, ScopeOf, All
<1> QED
  BY <1>2, <1>3, <1>4, <1>5

\* The figures, the options and the recommendations of a site.
LEMMA FiguresAgree ==
  ASSUME EntriesInv, NEW place \in Locations
  PROVE  /\ CountIpEntriesTotal(place) = Cardinality(ExportEntries(NoText, place))
         /\ CountIpEntriesTotal(place) = Total(ScopeOf(place))
         /\ CountOfflineEntries(place) = Counts(ScopeOf(place)).offline
         /\ CountUnclassifiedEntries(place) = Total([ScopeOf(place) EXCEPT !.type = "unknown"])
         /\ \A d \in Departments : d \in FilterOptions(place)
              <=> ListedEntries([ScopeOf(place) EXCEPT !.departments = {d}]) # {}
         /\ RepackRecommendations(place)
              \subseteq ListedEntries([ScopeOf(place) EXCEPT !.type = "computer"])
<1>1. Searched(NoText) \cap AtSite(place) = AtSite(place)
  BY SearchedForNothing DEF AtSite
<1>2. {i \in AtSite(place) : ~rows[i].online} = AtSite(place) \ Online
  BY DEF Online, AtSite
<1>3. CountOfflineEntries(place) = Counts(ScopeOf(place)).offline
  BY <1>2, ScopesAre DEF CountOfflineEntries, Counts
<1>4. ASSUME NEW d \in Departments
      PROVE  d \in FilterOptions(place)
               <=> ListedEntries([ScopeOf(place) EXCEPT !.departments = {d}]) # {}
  <2>1. d # NoText
    BY EntriesAssumption
  <2>2. d \in FilterOptions(place) <=> \E i \in AtSite(place) : rows[i].department = d
    BY <2>1 DEF FilterOptions
  <2>3. ListedEntries([ScopeOf(place) EXCEPT !.departments = {d}])
          = {i \in AtSite(place) : rows[i].department = d}
    BY ScopesAre
  <2>4. {i \in AtSite(place) : rows[i].department = d} # {}
          <=> \E i \in AtSite(place) : rows[i].department = d
    OBVIOUS
  <2> QED
    BY <2>2, <2>3, <2>4
<1>5. RepackRecommendations(place) \subseteq {i \in AtSite(place) : rows[i].type = "computer"}
  BY DEF RepackRecommendations, OfType
<1> QED
  BY <1>1, <1>3, <1>4, <1>5, ScopesAre
     DEF CountIpEntriesTotal, ExportEntries, Total, CountUnclassifiedEntries

LEMMA FreeAgrees ==
  ASSUME EntriesInv, NEW place \in Locations
  PROVE  /\ FreeIpAddresses(place).freeIps \cap Taken = {}
         /\ FreeIpAddresses(place).total
              = Cardinality(FreeIpAddresses(place).freeIps) + FreeIpAddresses(place).occupiedCount
<1> DEFINE U == Usable[place]
           occupied == Taken \cap U
<1>1. IsFiniteSet(U)
  BY EntriesAssumption
<1>2. Cardinality(U \cap Taken) + Cardinality(U \ Taken) = Cardinality(U)
  BY <1>1, DisjointParts
<1>3. U \ occupied = U \ Taken /\ occupied = U \cap Taken
  OBVIOUS
<1>4. IsFiniteSet(U \cap Taken) /\ IsFiniteSet(U \ Taken)
  <2>1. U \cap Taken \in SUBSET U /\ U \ Taken \in SUBSET U
    OBVIOUS
  <2> QED
    BY <1>1, <2>1, FS_Subset
<1>5. Cardinality(U \cap Taken) \in Nat /\ Cardinality(U \ Taken) \in Nat
  BY <1>4, FS_CardinalityType
<1>6. Cardinality(U) = Cardinality(U \ Taken) + Cardinality(U \cap Taken)
  BY <1>2, <1>5
<1>7. FreeIpAddresses(place).total = Cardinality(U)
      /\ FreeIpAddresses(place).occupiedCount = Cardinality(occupied)
      /\ FreeIpAddresses(place).freeIps = U \ occupied
  BY DEF FreeIpAddresses
<1> QED
  BY <1>3, <1>6, <1>7

LEMMA WithoutAgentAgrees ==
  ASSUME EntriesInv, NEW place \in Locations, NEW limit \in Limits
  PROVE  UNION {WithoutAgent(NoText, place, n, limit).entries :
                  n \in 1 .. WithoutAgent(NoText, place, 1, limit).totalPages}
           = {i \in ListedEntries([ScopeOf(place) EXCEPT !.type = "computer"]) :
                rows[i].agents = 0}
<1> DEFINE S == AllWithoutAgent(NoText, place)
           J == S \X {0}
           last == Ceiling(Cardinality(S), limit)
           Shown(n) == WithoutAgent(NoText, place, n, limit)
<1>1. S \in SUBSET DOMAIN rows
  BY DEF AllWithoutAgent, OfType
<1>2. S = {i \in ListedEntries([ScopeOf(place) EXCEPT !.type = "computer"]) : rows[i].agents = 0}
  <2>1. S = {i \in {j \in AtSite(place) : rows[j].type = "computer"} : rows[i].agents = 0}
    BY SearchedForNothing DEF AllWithoutAgent, OfType, AtSite
  <2> QED
    BY <2>1, ScopesAre
<1>3. \A n : Shown(n).totalPages = last
  BY DEF WithoutAgent
<1>4. last # 0 => \A n : Shown(n).entries = {a[1] : a \in PageOf(J, Between(1, n, last), limit)}
  BY DEF WithoutAgent
<1> HIDE DEF S, Shown
<1>5. (\A x \in J : x[1] \in S /\ x = <<x[1], 0>>) /\ (\A i \in S : <<i, 0>> \in J)
  OBVIOUS
<1>6. last = Ceiling(Cardinality(S), limit)
  OBVIOUS
<1> HIDE DEF J, last
<1>7. /\ last \in Nat
      /\ \A i \in S : \E n \in 1 .. last : <<i, 0>> \in PageOf(J, n, limit)
      /\ \A n : PageOf(J, n, limit) \subseteq J
  <2>1. \A x \in J : x[1] \in S /\ x = <<x[1], 0>>
    BY <1>5
  <2>2. \A i \in S : <<i, 0>> \in J
    BY <1>5
  <2> QED
    BY <1>1, <2>1, <2>2, <1>6, PagesOfEntries
<1>8. \A n \in 1 .. last : \A i : i \in Shown(n).entries <=> <<i, 0>> \in PageOf(J, n, limit)
  <2> SUFFICES ASSUME NEW n \in 1 .. last, NEW i
               PROVE  i \in Shown(n).entries <=> <<i, 0>> \in PageOf(J, n, limit)
    OBVIOUS
  <2>1. last # 0 /\ Between(1, n, last) = n
    BY <1>7, SafePages
  <2>2. \A x \in PageOf(J, n, limit) : x = <<x[1], 0>>
    BY <1>5, <1>7
  <2>3. Shown(n).entries = {a[1] : a \in PageOf(J, n, limit)}
    BY <1>4, <2>1
  <2> QED
    BY <2>2, <2>3
<1>9. ASSUME NEW i
      PROVE  i \in S <=> \E n \in 1 .. last : i \in Shown(n).entries
  <2>1. ASSUME NEW n \in 1 .. last, i \in Shown(n).entries PROVE i \in S
    <3>1. <<i, 0>> \in J
      BY <1>7, <1>8, <2>1
    <3> QED
      BY <1>5, <3>1
  <2> QED
    BY <1>7, <1>8, <2>1
<1>10. UNION {Shown(n).entries : n \in 1 .. last} = S
  BY <1>9
<1> QED
  BY <1>2, <1>3, <1>10 DEF Shown

\* The rows that Duplicates counts under a key, of all the rows of the site that have it.
Called(k, place) == {i \in AtSite(place) : rows[i].name # NoText /\ Key[rows[i].name] = k}
CalledAnd(k, text, status, place) ==
  {i \in Called(k, place) : /\ i \in Searched(text)
                            /\ status = "online" => rows[i].online
                            /\ status = "offline" => ~rows[i].online}

LEMMA CalledAreFinite ==
  ASSUME EntriesInv, NEW k, NEW text, NEW status, NEW place
  PROVE  /\ IsFiniteSet(Called(k, place)) /\ Cardinality(Called(k, place)) \in Nat
         /\ Cardinality(CalledAnd(k, text, status, place)) \in Nat
         /\ Cardinality(CalledAnd(k, text, status, place)) <= Cardinality(Called(k, place))
<1>1. Called(k, place) \in SUBSET DOMAIN rows
  BY DEF Called, AtSite
<1>2. IsFiniteSet(Called(k, place)) /\ Cardinality(Called(k, place)) \in Nat
  BY <1>1, EveryQueryIsFinite
<1>3. CalledAnd(k, text, status, place) \in SUBSET Called(k, place)
  BY DEF CalledAnd
<1> QED
  BY <1>2, <1>3, FS_Subset, FS_CardinalityType

LEMMA DuplicatesAre ==
  ASSUME NEW text, NEW status, NEW place
  PROVE  /\ \A k : k \in DOMAIN Duplicates(text, status, place)
                <=> /\ \E i \in CalledAnd(k, text, status, place) : TRUE
                    /\ Cardinality(CalledAnd(k, text, status, place)) > 1
         /\ \A k \in DOMAIN Duplicates(text, status, place) :
              /\ Duplicates(text, status, place)[k].count
                   = Cardinality(CalledAnd(k, text, status, place))
              /\ Duplicates(text, status, place)[k].items = Called(k, place)
<1> DEFINE counted == {i \in Searched(text) \cap AtSite(place) :
                         /\ rows[i].name # NoText
                         /\ status = "online" => rows[i].online
                         /\ status = "offline" => ~rows[i].online}
           Of(k, S) == {i \in S : rows[i].name # NoText /\ Key[rows[i].name] = k}
           keys == {k \in {Key[rows[i].name] : i \in counted} : Cardinality(Of(k, counted)) > 1}
<1>1. Duplicates(text, status, place)
        = [k \in keys |-> [count |-> Cardinality(Of(k, counted)), items |-> Of(k, AtSite(place))]]
  BY DEF Duplicates
<1>2. \A k : Of(k, counted) = CalledAnd(k, text, status, place)
  BY DEF CalledAnd, Called
<1>3. \A k : Of(k, AtSite(place)) = Called(k, place)
  BY DEF Called
<1>4. \A k : k \in {Key[rows[i].name] : i \in counted}
               <=> \E i \in CalledAnd(k, text, status, place) : TRUE
  BY DEF CalledAnd, Called
<1> HIDE DEF Of, counted
<1>5. \A k : k \in keys <=> /\ \E i \in CalledAnd(k, text, status, place) : TRUE
                            /\ Cardinality(CalledAnd(k, text, status, place)) > 1
  BY <1>2, <1>4
<1> HIDE DEF keys
<1> QED
  BY <1>1, <1>2, <1>3, <1>5

LEMMA DuplicatesAgree ==
  ASSUME EntriesInv, NEW place \in Locations
  PROVE  LET duplicates == Duplicates(NoText, "all", place) IN
         /\ CountDuplicateNameGroups(place) = Cardinality(DOMAIN duplicates)
         /\ \A k \in DOMAIN duplicates :
              /\ duplicates[k].count = Cardinality(duplicates[k].items)
              /\ \A status \in {"online", "offline"}, name \in ComputerNames \cup {NoText} :
                   LET narrowed == Duplicates(name, status, place) IN
                   k \in DOMAIN narrowed => /\ narrowed[k].count <= duplicates[k].count
                                            /\ narrowed[k].items = duplicates[k].items
         /\ \A i, j \in AtSite(place) :
              /\ i # j /\ rows[i].name # NoText /\ rows[j].name # NoText
              /\ Key[rows[i].name] = Key[rows[j].name]
              => \E k \in DOMAIN duplicates : {i, j} \subseteq duplicates[k].items
<1> DEFINE duplicates == Duplicates(NoText, "all", place)
<1>1. \A k : CalledAnd(k, NoText, "all", place) = Called(k, place)
  BY SearchedForNothing DEF CalledAnd, Called, AtSite
<1>2. \A k : Cardinality(Called(k, place)) > 1 => \E i \in Called(k, place) : TRUE
  <2> SUFFICES ASSUME NEW k, Cardinality(Called(k, place)) > 1 PROVE \E i \in Called(k, place) : TRUE
    OBVIOUS
  <2>1. Called(k, place) = {} => Cardinality(Called(k, place)) = 0
    BY FS_EmptySet
  <2> QED
    BY <2>1
<1>3. \A k : k \in DOMAIN duplicates <=> Cardinality(Called(k, place)) > 1
  BY <1>1, <1>2, DuplicatesAre
<1>4. \A k \in DOMAIN duplicates : /\ duplicates[k].count = Cardinality(Called(k, place))
                                   /\ duplicates[k].items = Called(k, place)
  BY <1>1, DuplicatesAre
<1> HIDE DEF duplicates
<1>5. CountDuplicateNameGroups(place) = Cardinality(DOMAIN duplicates)
  <2> DEFINE K == {k \in {Key[n] : n \in ComputerNames} : Cardinality(Called(k, place)) > 1}
  <2>1. CountDuplicateNameGroups(place) = Cardinality(K)
    BY DEF CountDuplicateNameGroups, Called
  <2>2. ASSUME NEW k, Cardinality(Called(k, place)) > 1 PROVE k \in {Key[n] : n \in ComputerNames}
    <3>1. PICK i \in Called(k, place) : TRUE
      BY <1>2, <2>2
    <3>2. i \in DOMAIN rows /\ rows[i].name # NoText /\ Key[rows[i].name] = k
      BY <3>1 DEF Called, AtSite
    <3>3. rows[i].name \in ComputerNames
      BY <3>2, RowsAre
    <3> QED
      BY <3>2, <3>3
  <2>3. K = DOMAIN duplicates
    BY <1>3, <2>2
  <2> QED
    BY <2>1, <2>3
<1>6. ASSUME NEW k \in DOMAIN duplicates
      PROVE  /\ duplicates[k].count = Cardinality(duplicates[k].items)
             /\ \A status \in {"online", "offline"}, name \in ComputerNames \cup {NoText} :
                  k \in DOMAIN Duplicates(name, status, place) =>
                    /\ Duplicates(name, status, place)[k].count <= duplicates[k].count
                    /\ Duplicates(name, status, place)[k].items = duplicates[k].items
  <2>1. duplicates[k].count = Cardinality(Called(k, place)) /\ duplicates[k].items = Called(k, place)
    BY <1>4, <1>6
  <2>2. ASSUME NEW status \in {"online", "offline"}, NEW name \in ComputerNames \cup {NoText},
               k \in DOMAIN Duplicates(name, status, place)
        PROVE  /\ Duplicates(name, status, place)[k].count <= duplicates[k].count
               /\ Duplicates(name, status, place)[k].items = duplicates[k].items
    <3>1. /\ Duplicates(name, status, place)[k].count
               = Cardinality(CalledAnd(k, name, status, place))
          /\ Duplicates(name, status, place)[k].items = Called(k, place)
      BY <2>2, DuplicatesAre
    <3> QED
      BY <2>1, <3>1, CalledAreFinite
  <2> QED
    BY <2>1, <2>2
<1>7. ASSUME NEW i \in AtSite(place), NEW j \in AtSite(place),
             i # j, rows[i].name # NoText, rows[j].name # NoText,
             Key[rows[i].name] = Key[rows[j].name]
      PROVE  \E k \in DOMAIN duplicates : {i, j} \subseteq duplicates[k].items
  <2> DEFINE k == Key[rows[i].name]
  <2>1. i \in Called(k, place) /\ j \in Called(k, place)
    BY <1>7 DEF Called
  <2> HIDE DEF k
  <2>2. Cardinality(Called(k, place)) > 1
    <3>1. IsFiniteSet(Called(k, place)) /\ Cardinality(Called(k, place)) \in Nat
      BY CalledAreFinite
    <3>2. Cardinality(Called(k, place)) # 0
      BY <2>1, <3>1, FS_EmptySet
    <3>3. Cardinality(Called(k, place)) # 1
      <4>1. ASSUME Cardinality(Called(k, place)) = 1 PROVE FALSE
        <5>1. PICK x : Called(k, place) = {x}
          BY <3>1, <4>1, FS_Singleton
        <5> QED
          BY <1>7, <2>1, <5>1
      <4> QED
        BY <4>1
    <3> QED
      BY <3>1, <3>2, <3>3
  <2>3. k \in DOMAIN duplicates
    BY <1>3, <2>2
  <2>4. duplicates[k].items = Called(k, place)
    BY <1>4, <2>3
  <2> QED
    BY <2>1, <2>3, <2>4
<1> QED
  BY <1>5, <1>6, <1>7 DEF duplicates

LEMMA SiteIsOne ==
  ASSUME EntriesInv, NEW place \in Locations
  PROVE  SiteAgrees(place)
<1>1. ScopeOf(place) = [All EXCEPT !.site = place]
  BY DEF ScopeOf
<1> QED
  BY <1>1, FiguresAgree, FreeAgrees, WithoutAgentAgrees, DuplicatesAgree, Zenon DEF SiteAgrees

LEMMA EntriesAreOne ==
  ASSUME EntriesInv
  PROVE  EntriesAgree
BY CountersAreOne, PagesArePartition, SiteIsOne DEF EntriesAgree

\* The list of entries, its counters and pages, the filter options, the free addresses, the
\* computers without an agent, the duplicates, the recommendations and the export describe the same
\* rows at every moment (ipEntries.repo.js, ipAddresses.service.js).
THEOREM EntriesDescribeOneTable == EntriesSpec => []EntriesAgree
<1>1. EntriesInit => EntriesInv
  BY EntriesInitInv
<1>2. EntriesInv /\ [EntriesNext]_entriesVars => EntriesInv'
  BY EntriesNextInv
<1>3. EntriesInv => EntriesAgree
  BY EntriesAreOne
<1> QED
  BY <1>1, <1>2, <1>3, PTL DEF EntriesSpec

-----------------------------------------------------------------------------
(* The analysis of the inventories: the tables hold what agents found.     *)

LEMMA FoundIsFinite ==
  ASSUME NEW t \in Tables
  PROVE  IsFiniteSet(FoundIn(t))
<1> DEFINE all == {Findings[e][t] : e \in Entries}
           find == [e \in Entries |-> Findings[e][t]]
<1>1. find \in [Entries -> all] /\ \A s \in all : \E e \in Entries : find[e] = s
  OBVIOUS
<1>2. \A s \in all : IsFiniteSet(s)
  BY AnalyticsAssumption
<1>3. UNION all = FoundIn(t)
  BY DEF FoundIn
<1> HIDE DEF find, all
<1>4. find \in Surjection(Entries, all)
  BY <1>1 DEF Surjection
<1>5. IsFiniteSet(all)
  BY <1>4, FS_Surjection, AnalyticsAssumption
<1> QED
  BY <1>2, <1>3, <1>5, FS_UNION

LEMMA AnalyticsInitTyped == AnalyticsInit => AnalyticsTypeOK
<1> SUFFICES ASSUME AnalyticsInit PROVE AnalyticsTypeOK
  OBVIOUS
<1>1. \E known \in SUBSET Entries : stored = [t \in Tables |-> UNION {Findings[e][t] : e \in known}]
  BY DEF AnalyticsInit
<1>2. DOMAIN stored = Tables /\ \A t \in Tables : stored[t] \subseteq FoundIn(t)
  BY <1>1 DEF FoundIn
<1>3. today \in Nat
  BY AnalyticsAssumption DEF AnalyticsInit
<1> QED
  BY <1>2, <1>3 DEF AnalyticsInit, AnalyticsTypeOK

LEMMA AnalyticsNextTyped == AnalyticsTypeOK /\ [AnalyticsNext]_analyticsVars => AnalyticsTypeOK'
<1> SUFFICES ASSUME AnalyticsTypeOK, [AnalyticsNext]_analyticsVars PROVE AnalyticsTypeOK'
  OBVIOUS
<1>0. /\ type \in [Entries -> {"computer", "device"}] /\ today \in Nat
      /\ DOMAIN stored = Tables /\ \A t \in Tables : stored[t] \subseteq FoundIn(t)
      /\ \A w \in work : /\ w.table \in Tables /\ w.of \in Entries /\ w.deleted \in BOOLEAN
                         /\ w.rows \subseteq FoundIn(w.table)
  BY DEF AnalyticsTypeOK
<1>1. ASSUME NEW e \in Entries, NEW found, Replace(e, found),
             \A t \in Tables : found[t] \subseteq FoundIn(t)
      PROVE  AnalyticsTypeOK'
  <2>1. \A w \in work' : \E t \in Tables :
          w = [table |-> t, of |-> e, rows |-> found[t], deleted |-> FALSE]
    BY <1>1 DEF Replace
  <2>2. \A w \in work' : /\ w.table \in Tables /\ w.of \in Entries /\ w.deleted \in BOOLEAN
                         /\ w.rows \subseteq FoundIn(w.table)
    <3> SUFFICES ASSUME NEW w \in work'
                 PROVE  /\ w.table \in Tables /\ w.of \in Entries /\ w.deleted \in BOOLEAN
                        /\ w.rows \subseteq FoundIn(w.table)
      OBVIOUS
    <3>1. PICK t \in Tables : w = [table |-> t, of |-> e, rows |-> found[t], deleted |-> FALSE]
      BY <2>1
    <3>2. w.table = t /\ w.of = e /\ w.rows = found[t] /\ w.deleted = FALSE
      BY <3>1
    <3> QED
      BY <1>1, <3>2
  <2> QED
    BY <1>0, <1>1, <2>2 DEF Replace, AnalyticsTypeOK
<1>2. ASSUME NEW e \in Entries, Report(e) \/ Clear(e) PROVE AnalyticsTypeOK'
  <2>1. CASE Report(e)
    <3>1. Replace(e, Findings[e]) /\ \A t \in Tables : Findings[e][t] \subseteq FoundIn(t)
      BY <2>1 DEF Report, FoundIn
    <3> QED
      BY <1>1, <3>1
  <2>2. CASE Clear(e)
    <3>1. PICK found : found = [t \in Tables |-> {}]
      OBVIOUS
    <3>2. Replace(e, found) /\ \A t \in Tables : found[t] \subseteq FoundIn(t)
      BY <2>2, <3>1 DEF Clear
    <3> QED
      BY <1>1, <3>2
  <2> QED
    BY <1>2, <2>1, <2>2
<1>3. ASSUME NEW e \in Entries, Retype(e) PROVE AnalyticsTypeOK'
  BY <1>0, <1>3 DEF Retype, AnalyticsTypeOK
<1>4. ASSUME NEW w \in work, DeleteRows(w) PROVE AnalyticsTypeOK'
  <2>1. w.table \in Tables /\ w.of \in Entries /\ w.rows \subseteq FoundIn(w.table)
    BY <1>0
  <2>2. DOMAIN stored' = Tables /\ \A t \in Tables : stored'[t] \subseteq FoundIn(t)
    BY <1>0, <1>4, <2>1 DEF DeleteRows
  <2>3. \A v \in work' : v \in work \/ v = [w EXCEPT !.deleted = TRUE]
    BY <1>4 DEF DeleteRows
  <2>4. w.deleted \in BOOLEAN
    BY <1>0
  <2>5. \A v \in work' : /\ v.table \in Tables /\ v.of \in Entries /\ v.deleted \in BOOLEAN
                         /\ v.rows \subseteq FoundIn(v.table)
    <3> SUFFICES ASSUME NEW v \in work'
                 PROVE  /\ v.table \in Tables /\ v.of \in Entries /\ v.deleted \in BOOLEAN
                        /\ v.rows \subseteq FoundIn(v.table)
      OBVIOUS
    <3>1. CASE v \in work
      BY <1>0, <3>1
    <3>2. CASE v = [w EXCEPT !.deleted = TRUE]
      <4>1. v.table = w.table /\ v.of = w.of /\ v.rows = w.rows
        BY <3>2
      <4>2. v.deleted \in BOOLEAN
        BY <2>4, <3>2
      <4> QED
        BY <2>1, <4>1, <4>2
    <3> QED
      BY <2>3, <3>1, <3>2
  <2> QED
    BY <1>0, <1>4, <2>2, <2>5 DEF DeleteRows, AnalyticsTypeOK
<1>5. ASSUME NEW w \in work, InsertRows(w) PROVE AnalyticsTypeOK'
  <2>1. w.table \in Tables /\ w.rows \subseteq FoundIn(w.table)
    BY <1>0
  <2>2. DOMAIN stored' = Tables /\ \A t \in Tables : stored'[t] \subseteq FoundIn(t)
    BY <1>0, <1>5, <2>1 DEF InsertRows
  <2> QED
    BY <1>0, <1>5, <2>2 DEF InsertRows, AnalyticsTypeOK
<1>6. CASE NextDay
  BY <1>0, <1>6 DEF NextDay, AnalyticsTypeOK
<1>7. CASE UNCHANGED analyticsVars
  BY <1>0, <1>7 DEF analyticsVars, AnalyticsTypeOK
<1> QED
  BY <1>2, <1>3, <1>4, <1>5, <1>6, <1>7 DEF AnalyticsNext

\* What every query relies on.
LEMMA RowsAreTyped ==
  ASSUME AnalyticsTypeOK
  PROVE  /\ today \in Nat /\ IsFiniteSet(Entries)
         /\ \A t \in Tables : IsFiniteSet(stored[t]) /\ \A r \in stored[t] : r.computer \in Entries
         /\ \A r \in stored["updates"] : r.day \in Nat \cup {Blank}
<1>1. \A t \in Tables : stored[t] \in SUBSET FoundIn(t)
  BY DEF AnalyticsTypeOK
<1>2. \A t \in Tables : IsFiniteSet(stored[t])
  BY <1>1, FoundIsFinite, FS_Subset
<1>3. \A t \in Tables : \A r \in stored[t] : r.computer \in Entries
  BY <1>1, AnalyticsAssumption DEF FoundIn
<1>4. \A r \in stored["updates"] : r.day \in Nat \cup {Blank}
  BY <1>1, AnalyticsAssumption DEF FoundIn, Tables
<1> QED
  BY <1>2, <1>3, <1>4, AnalyticsAssumption DEF AnalyticsTypeOK

LEMMA RowsOfAreFinite ==
  ASSUME AnalyticsTypeOK, NEW t \in Tables, NEW place
  PROVE  /\ IsFiniteSet(RowsOf(t, place))
         /\ \A T \in SUBSET RowsOf(t, place) :
              /\ IsFiniteSet(T) /\ Cardinality(T) \in Nat
              /\ Holders(T) \subseteq Computers(place)
              /\ IsFiniteSet(Holders(T)) /\ Cardinality(Holders(T)) \in Nat
         /\ IsFiniteSet(Computers(place)) /\ Cardinality(Computers(place)) \in Nat
<1>1. RowsOf(t, place) \in SUBSET stored[t] /\ IsFiniteSet(stored[t])
  BY RowsAreTyped DEF RowsOf
<1>2. IsFiniteSet(RowsOf(t, place))
  BY <1>1, FS_Subset
<1>3. Computers(place) \in SUBSET Entries /\ IsFiniteSet(Entries)
  BY RowsAreTyped DEF Computers
<1>4. IsFiniteSet(Computers(place)) /\ Cardinality(Computers(place)) \in Nat
  BY <1>3, FS_Subset, FS_CardinalityType
<1>5. ASSUME NEW T \in SUBSET RowsOf(t, place)
      PROVE  /\ IsFiniteSet(T) /\ Cardinality(T) \in Nat
             /\ Holders(T) \subseteq Computers(place)
             /\ IsFiniteSet(Holders(T)) /\ Cardinality(Holders(T)) \in Nat
  <2>1. IsFiniteSet(T) /\ Cardinality(T) \in Nat
    BY <1>2, FS_Subset, FS_CardinalityType
  <2>2. Holders(T) \in SUBSET Computers(place)
    BY DEF Holders, RowsOf
  <2> QED
    BY <1>4, <2>1, <2>2, FS_Subset, FS_CardinalityType
<1> QED
  BY <1>2, <1>4, <1>5

\* What a grouped query returns.
LEMMA GroupsByName ==
  ASSUME NEW S
  PROVE  /\ DOMAIN GroupBy(S, NameOf) = {r.name : r \in S}
         /\ \A k \in DOMAIN GroupBy(S, NameOf) : GroupBy(S, NameOf)[k] = {r \in S : r.name = k}
BY DEF GroupBy, NameOf

LEMMA GroupsByHolder ==
  ASSUME NEW S
  PROVE  /\ DOMAIN GroupBy(S, HolderOf) = Holders(S)
         /\ \A k \in DOMAIN GroupBy(S, HolderOf) :
              GroupBy(S, HolderOf)[k] = {r \in S : r.computer = k}
         /\ UNION {GroupBy(S, HolderOf)[k] : k \in DOMAIN GroupBy(S, HolderOf)} = S
<1>1. /\ DOMAIN GroupBy(S, HolderOf) = Holders(S)
      /\ \A k \in DOMAIN GroupBy(S, HolderOf) :
           GroupBy(S, HolderOf)[k] = {r \in S : r.computer = k}
  BY DEF GroupBy, HolderOf, Holders
<1>2. \A r \in S : r.computer \in DOMAIN GroupBy(S, HolderOf)
  BY <1>1 DEF Holders
<1>3. \A r \in S : r \in GroupBy(S, HolderOf)[r.computer]
  BY <1>1, <1>2
<1>4. \A k \in DOMAIN GroupBy(S, HolderOf) : \A r \in GroupBy(S, HolderOf)[k] : r \in S
  BY <1>1
<1> QED
  BY <1>1, <1>2, <1>3, <1>4

\* Of the rows of one table: whether an answer is that of some rows.
LEMMA ImagesAreSmaller ==
  ASSUME NEW S, IsFiniteSet(S), NEW T, NEW f \in [S -> T], \A y \in T : \E x \in S : f[x] = y
  PROVE  /\ IsFiniteSet(T) /\ Cardinality(S) \in Nat /\ Cardinality(T) \in Nat
         /\ Cardinality(T) <= Cardinality(S)
<1>1. f \in Surjection(S, T)
  BY DEF Surjection
<1> QED
  BY <1>1, FS_Surjection, FS_CardinalityType

LEMMA SeveralAndRare ==
  ASSUME AnalyticsTypeOK, NEW t \in Tables, NEW place, NEW S, S = RowsOf(t, place)
  PROVE  /\ InSeveralVersions(S) \subseteq Names(S) /\ Rare(S) \subseteq Names(S)
         /\ \A k \in InSeveralVersions(S) : Cardinality({r \in S : r.name = k}) > 1
         /\ \A k \in Names(S) \ Rare(S) : Cardinality(Holders({r \in S : r.name = k})) > 2
<1>1. InSeveralVersions(S) \subseteq Names(S) /\ Rare(S) \subseteq Names(S)
  BY DEF InSeveralVersions, Rare
<1>2. ASSUME NEW k \in InSeveralVersions(S) PROVE Cardinality({r \in S : r.name = k}) > 1
  <2> DEFINE Q == {r \in S : r.name = k}
             V == {r.version : r \in Q}
             version == [r \in Q |-> r.version]
  <2>1. Cardinality(V \ {Blank}) > 1
    BY <1>2 DEF InSeveralVersions
  <2>2. version \in [Q -> V] /\ \A v \in V : \E r \in Q : version[r] = v
    OBVIOUS
  <2>3. Q \in SUBSET RowsOf(t, place)
    OBVIOUS
  <2> HIDE DEF Q, V, version
  <2>4. IsFiniteSet(Q)
    BY <2>3, RowsOfAreFinite
  <2>5. IsFiniteSet(V) /\ Cardinality(V) \in Nat /\ Cardinality(Q) \in Nat
        /\ Cardinality(V) <= Cardinality(Q)
    BY <2>2, <2>4, ImagesAreSmaller
  <2>6. Cardinality(V \ {Blank}) <= Cardinality(V) /\ Cardinality(V \ {Blank}) \in Nat
    <3>1. V \ {Blank} \in SUBSET V
      OBVIOUS
    <3> QED
      BY <2>5, <3>1, FS_Subset, FS_CardinalityType
  <2>7. Cardinality(Q) > 1
    BY <2>1, <2>5, <2>6
  <2> QED
    BY <2>7 DEF Q
<1>3. ASSUME NEW k \in Names(S) \ Rare(S)
      PROVE  Cardinality(Holders({r \in S : r.name = k})) > 2
  <2> DEFINE Q == {r \in S : r.name = k}
  <2>1. ~(Cardinality(Holders(Q)) <= 2)
    BY <1>3 DEF Rare
  <2>2. Q \in SUBSET RowsOf(t, place)
    OBVIOUS
  <2> HIDE DEF Q
  <2>3. Cardinality(Holders(Q)) \in Nat
    BY <2>2, RowsOfAreFinite
  <2>4. Cardinality(Holders(Q)) > 2
    BY <2>1, <2>3
  <2> QED
    BY <2>4 DEF Q
<1> QED
  BY <1>1, <1>2, <1>3

LEMMA UnknownIsGroup ==
  ASSUME NEW found, NEW W, \A r : r \in W <=> Unknown \in DOMAIN found /\ r \in found[Unknown]
  PROVE  UnknownIs(found, W)
<1>1. CASE Unknown \in DOMAIN found
  BY <1>1 DEF UnknownIs
<1>2. CASE Unknown \notin DOMAIN found
  BY <1>2 DEF UnknownIs
<1> QED
  BY <1>1, <1>2

LEMMA SoftwareIsOne ==
  ASSUME AnalyticsTypeOK, NEW place
  PROVE  SoftwareAgrees(place)
<1> DEFINE S == RowsOf("software", place)
           s == SoftwareStats(place)
           top == TopSoftware(place)
           most == ComputersWithMostSoftware(place)
           groups == TopPublishers(place)
<1>1. s.total = S /\ s.unique = Names(S) /\ s.computers = Holders(S)
      /\ s.withoutPublisher = {r \in S : r.publisher = Blank}
  BY DEF SoftwareStats
<1>2. "software" \in Tables
  BY DEF Tables
<1>3. /\ DOMAIN top = Names(S)
      /\ \A k \in DOMAIN top : top[k] = {r \in Named(S) : r.name = k}
  BY GroupsByName DEF TopSoftware, Names
<1>4. \A k \in Names(S) : k # Blank /\ \E r \in S : r.name = k
  BY DEF Names, Named
<1>5. /\ SoftwareMultipleVersions(place) = InSeveralVersions(S) /\ RareSoftware(place) = Rare(S)
      /\ DOMAIN most = Holders(S) /\ UNION {most[e] : e \in DOMAIN most} = S
  BY GroupsByHolder DEF SoftwareMultipleVersions, RareSoftware, ComputersWithMostSoftware
<1>6. \A k \in DOMAIN top : top[k] = {r \in S : r.name = k}
  BY <1>3, <1>4 DEF Named
<1>7. UNION {top[k] : k \in DOMAIN top} = Named(S)
  <2>1. \A r \in Named(S) : r.name \in DOMAIN top /\ r \in top[r.name]
    BY <1>3 DEF Names
  <2>2. \A k \in DOMAIN top : \A r \in top[k] : r \in Named(S)
    BY <1>3
  <2> HIDE DEF S, top
  <2> QED
    BY <2>1, <2>2
<1>8. /\ DOMAIN groups = {Or(r.publisher, Unknown) : r \in S}
      /\ \A k \in DOMAIN groups : groups[k] = {r \in S : Or(r.publisher, Unknown) = k}
  BY DEF TopPublishers, GroupBy, PublisherOf
<1>9. UnknownIs(groups, {r \in S : r.publisher = Blank} \cup {r \in S : r.publisher = Unknown})
  <2> DEFINE W == {r \in S : r.publisher = Blank} \cup {r \in S : r.publisher = Unknown}
  <2>1. \A r : r \in W <=> r \in S /\ Or(r.publisher, Unknown) = Unknown
    BY DEF Or
  <2> HIDE DEF S, groups, W
  <2>2. \A r : r \in W <=> Unknown \in DOMAIN groups /\ r \in groups[Unknown]
    BY <1>8, <2>1
  <2>3. UnknownIs(groups, W)
    BY <2>2, UnknownIsGroup
  <2> QED
    BY <2>3 DEF W
<1> HIDE DEF S, s, top, most, groups
<1>10. /\ InSeveralVersions(S) \subseteq Names(S) /\ Rare(S) \subseteq Names(S)
       /\ \A k \in InSeveralVersions(S) : Cardinality({r \in S : r.name = k}) > 1
       /\ \A k \in Names(S) \ Rare(S) : Cardinality(Holders({r \in S : r.name = k})) > 2
  BY <1>2, SeveralAndRare DEF S
<1>11. ListsAgree(s, top, InSeveralVersions(S), Rare(S), most)
  <2>1. \A k \in s.unique \ Rare(S) : Cardinality(Holders(top[k])) > 2
    BY <1>1, <1>3, <1>6, <1>10
  <2>2. \A k \in InSeveralVersions(S) : Cardinality(top[k]) > 1
    BY <1>3, <1>6, <1>10
  <2> QED
    BY <1>1, <1>3, <1>5, <1>7, <1>10, <2>1, <2>2 DEF ListsAgree
<1> QED
  BY <1>1, <1>5, <1>9, <1>11 DEF SoftwareAgrees, s, top, most, groups

LEMMA DriversAreOne ==
  ASSUME AnalyticsTypeOK, NEW place
  PROVE  DriversAgree(place)
<1> DEFINE S == RowsOf("drivers", place)
           s == DriverStats(place)
           makers == TopDriverManufacturers(place)
           maker(r) == Or(r.manufacturer, Or(r.provider, Unknown))
<1>1. /\ s.total = S /\ s.unique = Names(S) /\ s.computers = Holders(S)
      /\ s.uniqueManufacturers = {r.manufacturer : r \in S} \ {Blank}
      /\ s.withoutManufacturer = {r \in S : r.manufacturer = Blank}
      /\ s.withoutDate = {r \in S : r.date = Blank}
  BY DEF DriverStats
<1>2. /\ DOMAIN makers = {maker(r) : r \in S}
      /\ \A k \in DOMAIN makers : makers[k] = {r \in S : maker(r) = k}
  BY DEF TopDriverManufacturers, GroupBy, ManufacturerOf
<1>3. DriverMultipleVersions(place) \subseteq s.unique
  BY <1>1 DEF DriverMultipleVersions, InSeveralVersions
<1>4. OldestDrivers(place) = s.total \ s.withoutDate
  BY <1>1 DEF OldestDrivers
<1>5. DOMAIN ComputersWithMostDrivers(place) = s.computers
  BY <1>1, GroupsByHolder DEF ComputersWithMostDrivers
<1> HIDE DEF S, s, makers
<1>6. UNION {makers[m] : m \in DOMAIN makers} = s.total
  <2>1. \A r \in S : maker(r) \in DOMAIN makers /\ r \in makers[maker(r)]
    BY <1>2
  <2>2. \A k \in DOMAIN makers : \A r \in makers[k] : r \in S
    BY <1>2
  <2> HIDE DEF maker
  <2> QED
    BY <1>1, <2>1, <2>2
<1>7. s.uniqueManufacturers \subseteq DOMAIN makers
  <2> SUFFICES ASSUME NEW m \in s.uniqueManufacturers PROVE m \in DOMAIN makers
    OBVIOUS
  <2>1. PICK r \in S : r.manufacturer = m /\ m # Blank
    BY <1>1
  <2>2. maker(r) = m
    BY <2>1 DEF Or
  <2> QED
    BY <1>2, <2>2
<1>8. Unknown \in DOMAIN makers =>
        \A r \in makers[Unknown] : r \in s.withoutManufacturer \/ r.manufacturer = Unknown
  <2>1. \A r \in S : maker(r) = Unknown => r.manufacturer = Blank \/ r.manufacturer = Unknown
    BY DEF Or
  <2> HIDE DEF maker
  <2> QED
    BY <1>1, <1>2, <2>1
<1> QED
  BY <1>3, <1>4, <1>5, <1>6, <1>7, <1>8 DEF DriversAgree, s, makers

LEMMA ServicesAreOne ==
  ASSUME NEW place
  PROVE  ServicesAgree(place)
<1> DEFINE S == RowsOf("services", place)
           s == ServiceStats(place)
<1>1. /\ s.total = S /\ s.unique = Names(S)
      /\ s.running = {r \in S : r.state = "running"} /\ s.stopped = {r \in S : r.state = "stopped"}
      /\ s.automatic = {r \in S : r.mode \in Automatic} /\ s.automaticStopped = StoppedAutomatic(S)
  BY DEF ServiceStats
<1>2. StoppedAutomatic(S)
        = {r \in S : r.mode \in Automatic /\ r.state # "running" /\ r.state # Blank}
  BY DEF StoppedAutomatic
<1>3. NotifiedStopped(place) = StoppedAutomatic(S)
  BY <1>2 DEF NotifiedStopped, RowsOf
<1>4. AutomaticStoppedServices(place) = StoppedAutomatic(S)
  BY DEF AutomaticStoppedServices
<1>5. RareServices(place) \subseteq Names(S)
  BY DEF RareServices, Rare
<1>6. UnusualServicePaths(place) \subseteq S
  BY DEF UnusualServicePaths
<1>7. {r \in S : r.state = "stopped"} \cap {r \in S : r.mode \in Automatic} \subseteq StoppedAutomatic(S)
  BY <1>2, AnalyticsAssumption
<1>8. StoppedAutomatic(S) \subseteq {r \in S : r.mode \in Automatic} \ {r \in S : r.state = "running"}
  BY <1>2
<1> HIDE DEF S, s
<1> QED
  BY <1>1, <1>3, <1>4, <1>5, <1>6, <1>7, <1>8 DEF ServicesAgree, s

-----------------------------------------------------------------------------
(* The updates of a computer, and the age of the latest dated one.         *)

UpdatesOn(e) == {r \in stored["updates"] : r.computer = e}
DatedOn(e) == Dated(UpdatesOn(e))
IsLatestAge(e, m) ==
  /\ m \in Int /\ \E r \in DatedOn(e) : Age(r) = m
  /\ \A r \in DatedOn(e) : Age(r) >= m

LEMMA FirstExists ==
  ASSUME NEW S, IsFiniteSet(S), S # {}, NEW R, StrictOrder(S, R)
  PROVE  \E x \in S : \A y \in S : <<y, x>> \notin R
<1> DEFINE Rank(x) == Cardinality({y \in S : <<y, x>> \in R})
<1>1. \A k \in 0 .. Cardinality(S) - 1 : \E x \in S : Rank(x) = k
  BY RanksAreAll
<1>2. Cardinality(S) \in Nat /\ Cardinality(S) # 0
  BY FS_CardinalityType, FS_EmptySet
<1>3. PICK x \in S : Rank(x) = 0
  <2>1. 0 \in 0 .. Cardinality(S) - 1
    BY <1>2
  <2> HIDE DEF Rank
  <2> QED
    BY <1>1, <2>1
<1> DEFINE earlier == {y \in S : <<y, x>> \in R}
<1>4. earlier \in SUBSET S
  OBVIOUS
<1>5. Cardinality(earlier) = 0
  BY <1>3
<1> HIDE DEF earlier
<1>6. IsFiniteSet(earlier)
  BY <1>4, FS_Subset
<1>7. earlier = {}
  BY <1>5, <1>6, FS_EmptySet
<1> QED
  BY <1>7 DEF earlier

LEMMA GreatestOfFinite ==
  ASSUME NEW D, IsFiniteSet(D), D # {}, \A d \in D : d \in Nat
  PROVE  \E m \in D : \A d \in D : d <= m
<1> DEFINE R == {p \in D \X D : p[1] > p[2]}
<1>1. \A c, d \in D : <<c, d>> \in R <=> c > d
  OBVIOUS
<1> HIDE DEF R
<1>2. StrictOrder(D, R)
  BY <1>1 DEF StrictOrder
<1>3. PICK m \in D : \A d \in D : <<d, m>> \notin R
  BY <1>2, FirstExists
<1>4. \A d \in D : ~(d > m)
  BY <1>1, <1>3
<1> QED
  BY <1>4

LEMMA AgesAreIntegers ==
  ASSUME AnalyticsTypeOK, NEW e
  PROVE  \A r \in DatedOn(e) : r.day \in Nat /\ Age(r) \in Int /\ Age(r) = today - r.day
BY RowsAreTyped DEF DatedOn, Dated, UpdatesOn, Age

LEMMA LatestExists ==
  ASSUME AnalyticsTypeOK, NEW e, DatedOn(e) # {}
  PROVE  \E m : IsLatestAge(e, m)
<1> DEFINE Q == DatedOn(e)
           D == {r.day : r \in Q}
           day == [r \in Q |-> r.day]
<1>1. Q \in SUBSET stored["updates"]
  BY DEF DatedOn, Dated, UpdatesOn
<1>2. "updates" \in Tables
  BY DEF Tables
<1>3. day \in [Q -> D] /\ (\A d \in D : \E r \in Q : day[r] = d) /\ D # {}
  OBVIOUS
<1>4. \A d \in D : d \in Nat
  BY AgesAreIntegers
<1>5. \A d \in D : \E r \in Q : r.day = d
  OBVIOUS
<1>6. \A r \in Q : r.day \in D
  OBVIOUS
<1> HIDE DEF Q, D, day
<1>7. IsFiniteSet(D)
  <2>1. IsFiniteSet(Q)
    BY <1>1, <1>2, RowsAreTyped, FS_Subset
  <2> QED
    BY <1>3, <2>1, ImagesAreSmaller
<1>8. PICK d \in D : \A c \in D : c <= d
  BY <1>3, <1>4, <1>7, GreatestOfFinite
<1>9. PICK r \in Q : r.day = d
  BY <1>5
<1>10. \A q \in Q : q.day \in Nat /\ q.day <= r.day /\ Age(q) = today - q.day
  BY <1>4, <1>6, <1>8, <1>9, AgesAreIntegers DEF Q
<1>11. today \in Nat
  BY RowsAreTyped
<1>12. Age(r) \in Int /\ \A q \in Q : Age(q) >= Age(r)
  BY <1>10, <1>11
<1> QED
  BY <1>12 DEF IsLatestAge, Q

LatestAge(e) == CHOOSE m : IsLatestAge(e, m)

\* Whether the latest age is in a range, for the five ranges.
LEMMA RangesOfTheLatest ==
  ASSUME AnalyticsTypeOK, NEW e, DatedOn(e) # {}, NEW Q, Dated(Q) = DatedOn(e)
  PROVE  /\ LatestAge(e) \in Int
         /\ \A r \in DatedOn(e) : Age(r) >= LatestAge(e)
         /\ \E r \in DatedOn(e) : Age(r) = LatestAge(e)
         /\ LatestIs(Q, LAMBDA age : age <= 30) <=> LatestAge(e) <= 30
         /\ LatestIs(Q, LAMBDA age : age > 30 /\ age <= 60)
              <=> LatestAge(e) > 30 /\ LatestAge(e) <= 60
         /\ LatestIs(Q, LAMBDA age : age > 60 /\ age <= 90)
              <=> LatestAge(e) > 60 /\ LatestAge(e) <= 90
         /\ LatestIs(Q, LAMBDA age : age > 90) <=> LatestAge(e) > 90
<1> DEFINE m == LatestAge(e)
<1>1. IsLatestAge(e, m)
  BY LatestExists DEF LatestAge
<1> HIDE DEF m
<1>2. m \in Int /\ (\E r \in DatedOn(e) : Age(r) = m) /\ (\A r \in DatedOn(e) : Age(r) >= m)
  BY <1>1 DEF IsLatestAge
<1>3. \A r \in DatedOn(e) : Age(r) \in Int
  BY AgesAreIntegers
<1>4. \A r \in DatedOn(e) : (\A q \in DatedOn(e) : Age(q) >= Age(r)) <=> Age(r) = m
  BY <1>2, <1>3
<1>5. LatestIs(Q, LAMBDA age : age <= 30) <=> m <= 30
  BY <1>2, <1>4 DEF LatestIs
<1>6. LatestIs(Q, LAMBDA age : age > 30 /\ age <= 60) <=> m > 30 /\ m <= 60
  BY <1>2, <1>4 DEF LatestIs
<1>7. LatestIs(Q, LAMBDA age : age > 60 /\ age <= 90) <=> m > 60 /\ m <= 90
  BY <1>2, <1>4 DEF LatestIs
<1>8. LatestIs(Q, LAMBDA age : age > 90) <=> m > 90
  BY <1>2, <1>4 DEF LatestIs
<1> QED
  BY <1>2, <1>5, <1>6, <1>7, <1>8 DEF m

\* The four intervals, and what has no dated update, by the latest age.
LEMMA BucketsAre ==
  ASSUME AnalyticsTypeOK, NEW place
  PROVE  LET b == UpdateFreshnessBuckets(place) IN
         /\ DOMAIN b = {"last30Days", "days31To60", "days61To90", "olderThan90Days", "withoutData"}
         /\ \A e : e \in b.last30Days
              <=> e \in Computers(place) /\ DatedOn(e) # {} /\ LatestAge(e) <= 30
         /\ \A e : e \in b.days31To60
              <=> e \in Computers(place) /\ DatedOn(e) # {} /\ LatestAge(e) > 30 /\ LatestAge(e) <= 60
         /\ \A e : e \in b.days61To90
              <=> e \in Computers(place) /\ DatedOn(e) # {} /\ LatestAge(e) > 60 /\ LatestAge(e) <= 90
         /\ \A e : e \in b.olderThan90Days
              <=> e \in Computers(place) /\ DatedOn(e) # {} /\ LatestAge(e) > 90
         /\ \A e : e \in b.withoutData <=> e \in Computers(place) /\ UpdatesOn(e) = {}
<1> DEFINE of == GroupBy(Dated(RowsOf("updates", place)), HolderOf)
           b == UpdateFreshnessBuckets(place)
<1>1. \A e : e \in DOMAIN of <=> e \in Computers(place) /\ DatedOn(e) # {}
  <2>1. DOMAIN of = Holders(Dated(RowsOf("updates", place)))
    BY GroupsByHolder
  <2>2. \A e : e \in Holders(Dated(RowsOf("updates", place)))
                 <=> e \in Computers(place) /\ \E r \in DatedOn(e) : TRUE
    BY DEF Holders, Dated, RowsOf, DatedOn, UpdatesOn
  <2> HIDE DEF of
  <2> QED
    BY <2>1, <2>2
<1>2. \A e \in DOMAIN of : of[e] = DatedOn(e)
  <2> SUFFICES ASSUME NEW e \in DOMAIN of PROVE of[e] = DatedOn(e)
    OBVIOUS
  <2>1. of[e] = {r \in Dated(RowsOf("updates", place)) : r.computer = e}
    BY GroupsByHolder
  <2>2. e \in Computers(place)
    BY <1>1
  <2> HIDE DEF of
  <2> QED
    BY <2>1, <2>2 DEF DatedOn, UpdatesOn, Dated, RowsOf
<1>3. \A e : Dated(DatedOn(e)) = DatedOn(e)
  BY DEF DatedOn, Dated
<1>4. b = [last30Days |-> {e \in DOMAIN of : LatestIs(of[e], LAMBDA age : age <= 30)},
           days31To60 |-> {e \in DOMAIN of : LatestIs(of[e], LAMBDA age : age > 30 /\ age <= 60)},
           days61To90 |-> {e \in DOMAIN of : LatestIs(of[e], LAMBDA age : age > 60 /\ age <= 90)},
           olderThan90Days |-> {e \in DOMAIN of : LatestIs(of[e], LAMBDA age : age > 90)},
           withoutData |-> {e \in Computers(place) : \A r \in stored["updates"] : r.computer # e}]
  BY DEF UpdateFreshnessBuckets
<1> HIDE DEF of, b
<1>5. \A e \in DOMAIN of : DatedOn(e) # {} /\ Dated(of[e]) = DatedOn(e)
  BY <1>1, <1>2, <1>3
<1>6. \A e \in DOMAIN of : LatestIs(of[e], LAMBDA age : age <= 30) <=> LatestAge(e) <= 30
  BY <1>5, RangesOfTheLatest
<1>7. \A e \in DOMAIN of : LatestIs(of[e], LAMBDA age : age > 30 /\ age <= 60)
                             <=> LatestAge(e) > 30 /\ LatestAge(e) <= 60
  BY <1>5, RangesOfTheLatest
<1>8. \A e \in DOMAIN of : LatestIs(of[e], LAMBDA age : age > 60 /\ age <= 90)
                             <=> LatestAge(e) > 60 /\ LatestAge(e) <= 90
  BY <1>5, RangesOfTheLatest
<1>9. \A e \in DOMAIN of : LatestIs(of[e], LAMBDA age : age > 90) <=> LatestAge(e) > 90
  BY <1>5, RangesOfTheLatest
<1>10. b.last30Days = {e \in DOMAIN of : LatestIs(of[e], LAMBDA age : age <= 30)}
  BY <1>4
<1>11. b.days31To60 = {e \in DOMAIN of : LatestIs(of[e], LAMBDA age : age > 30 /\ age <= 60)}
  BY <1>4
<1>12. b.days61To90 = {e \in DOMAIN of : LatestIs(of[e], LAMBDA age : age > 60 /\ age <= 90)}
  BY <1>4
<1>13. b.olderThan90Days = {e \in DOMAIN of : LatestIs(of[e], LAMBDA age : age > 90)}
  BY <1>4
<1>14. b.withoutData = {e \in Computers(place) : \A r \in stored["updates"] : r.computer # e}
  BY <1>4
<1>15. DOMAIN b = {"last30Days", "days31To60", "days61To90", "olderThan90Days", "withoutData"}
  BY <1>4
<1>16. \A e : e \in b.last30Days <=> e \in Computers(place) /\ DatedOn(e) # {} /\ LatestAge(e) <= 30
  BY <1>1, <1>6, <1>10
<1>17. \A e : e \in b.days31To60
         <=> e \in Computers(place) /\ DatedOn(e) # {} /\ LatestAge(e) > 30 /\ LatestAge(e) <= 60
  BY <1>1, <1>7, <1>11
<1>18. \A e : e \in b.days61To90
         <=> e \in Computers(place) /\ DatedOn(e) # {} /\ LatestAge(e) > 60 /\ LatestAge(e) <= 90
  BY <1>1, <1>8, <1>12
<1>19. \A e : e \in b.olderThan90Days
         <=> e \in Computers(place) /\ DatedOn(e) # {} /\ LatestAge(e) > 90
  BY <1>1, <1>9, <1>13
<1>20. \A e : e \in b.withoutData <=> e \in Computers(place) /\ UpdatesOn(e) = {}
  BY <1>14 DEF UpdatesOn
<1> QED
  BY <1>15, <1>16, <1>17, <1>18, <1>19, <1>20 DEF b

LEMMA StaleAre ==
  ASSUME AnalyticsTypeOK, NEW place
  PROVE  /\ \A e : e \in StaleUpdateComputers(90, place)
              <=> e \in Computers(place) /\ (DatedOn(e) = {} \/ LatestAge(e) > 90)
         /\ \A e : e \in NotifiedStale(90, place)
              <=> e \in Computers(place) /\ (DatedOn(e) = {} \/ LatestAge(e) > 90)
<1> DEFINE of == LatestUpdateByComputer(place)
<1>1. DOMAIN of = Computers(place) /\ \A e \in Computers(place) : of[e] = UpdatesOn(e)
  BY DEF LatestUpdateByComputer, UpdatesOn
<1>2. StaleUpdateComputers(90, place)
        = {e \in DOMAIN of : Dated(of[e]) = {} \/ LatestIs(of[e], LAMBDA age : age > 90)}
  BY DEF StaleUpdateComputers
<1> HIDE DEF of
<1>3. \A e \in Computers(place) : Dated(of[e]) = DatedOn(e)
  BY <1>1 DEF DatedOn
<1>4. \A e \in Computers(place) :
        DatedOn(e) # {} => (LatestIs(of[e], LAMBDA age : age > 90) <=> LatestAge(e) > 90)
  BY <1>3, RangesOfTheLatest
<1>5. \A e : e \in StaleUpdateComputers(90, place)
               <=> e \in Computers(place) /\ (DatedOn(e) = {} \/ LatestAge(e) > 90)
  BY <1>1, <1>2, <1>3, <1>4
<1>6. ASSUME NEW e \in Computers(place)
      PROVE  e \in NotifiedStale(90, place) <=> DatedOn(e) = {} \/ LatestAge(e) > 90
  <2>1. e \in NotifiedStale(90, place) <=> \A r \in DatedOn(e) : r.day < today - 90
    BY DEF NotifiedStale, DatedOn, UpdatesOn, Dated
  <2>2. \A r \in DatedOn(e) : r.day < today - 90 <=> Age(r) > 90
    BY AgesAreIntegers, RowsAreTyped
  <2>3. CASE DatedOn(e) = {}
    BY <2>1, <2>3
  <2>4. CASE DatedOn(e) # {}
    <3>1. Dated(UpdatesOn(e)) = DatedOn(e)
      BY DEF DatedOn
    <3>2. /\ LatestAge(e) \in Int
          /\ \A r \in DatedOn(e) : Age(r) >= LatestAge(e)
          /\ \E r \in DatedOn(e) : Age(r) = LatestAge(e)
      BY <2>4, <3>1, RangesOfTheLatest
    <3>3. \A r \in DatedOn(e) : Age(r) \in Int
      BY AgesAreIntegers
    <3>4. (\A r \in DatedOn(e) : Age(r) > 90) <=> LatestAge(e) > 90
      BY <3>2, <3>3
    <3> QED
      BY <2>1, <2>2, <2>4, <3>4
  <2> QED
    BY <2>3, <2>4
<1>7. \A e : e \in NotifiedStale(90, place) => e \in Computers(place)
  BY DEF NotifiedStale
<1> QED
  BY <1>5, <1>6, <1>7

LEMMA UpdatesAreOne ==
  ASSUME AnalyticsTypeOK, NEW place
  PROVE  UpdatesAgree(place)
<1> DEFINE S == RowsOf("updates", place)
           s == UpdateStats(place)
           b == UpdateFreshnessBuckets(place)
           undated == s.computers \ Holders(Dated(s.total))
           buckets == {b[k] : k \in DOMAIN b} \cup {undated}
<1>1. s.total = S /\ s.unique = Names(S) /\ s.computers = Holders(S)
      /\ s.last30Days = {r \in Dated(S) : Age(r) <= 30}
  BY DEF UpdateStats
<1>2. \A e : e \in Holders(S) <=> e \in Computers(place) /\ UpdatesOn(e) # {}
  <2>1. \A e : e \in Holders(S) <=> e \in Computers(place) /\ \E r \in UpdatesOn(e) : TRUE
    BY DEF Holders, RowsOf, UpdatesOn
  <2> HIDE DEF S
  <2> QED
    BY <2>1
<1>3. \A e : e \in Holders(Dated(S)) <=> e \in Computers(place) /\ DatedOn(e) # {}
  <2>1. \A e : e \in Holders(Dated(S)) <=> e \in Computers(place) /\ \E r \in DatedOn(e) : TRUE
    BY DEF Holders, RowsOf, UpdatesOn, DatedOn, Dated
  <2> HIDE DEF S
  <2> QED
    BY <2>1
<1>4. DOMAIN TopHotfixes(place) = Names(S)
  BY GroupsByName DEF TopHotfixes, Names
<1>5. UNION {LatestUpdateByComputer(place)[e] : e \in Computers(place)} = S
  <2>1. \A e \in Computers(place) : LatestUpdateByComputer(place)[e] = UpdatesOn(e)
    BY DEF LatestUpdateByComputer, UpdatesOn
  <2>2. \A r : r \in S <=> \E e \in Computers(place) : r \in UpdatesOn(e)
    BY DEF RowsOf, UpdatesOn
  <2> HIDE DEF S
  <2> QED
    BY <2>1, <2>2
<1>6. \A e : e \in Holders(s.last30Days)
               <=> e \in Computers(place) /\ \E r \in DatedOn(e) : Age(r) <= 30
  BY <1>1 DEF Holders, RowsOf, UpdatesOn, DatedOn, Dated
<1>7. \A e : DatedOn(e) \subseteq UpdatesOn(e)
  BY DEF DatedOn, Dated
<1>8. \A e : DatedOn(e) # {} =>
        /\ LatestAge(e) \in Int
        /\ (\E r \in DatedOn(e) : Age(r) <= 30) <=> LatestAge(e) <= 30
  <2> SUFFICES ASSUME NEW e, DatedOn(e) # {}
               PROVE  /\ LatestAge(e) \in Int
                      /\ (\E r \in DatedOn(e) : Age(r) <= 30) <=> LatestAge(e) <= 30
    OBVIOUS
  <2>1. Dated(UpdatesOn(e)) = DatedOn(e)
    BY DEF DatedOn
  <2>2. /\ LatestAge(e) \in Int
        /\ \A r \in DatedOn(e) : Age(r) >= LatestAge(e)
        /\ \E r \in DatedOn(e) : Age(r) = LatestAge(e)
    BY <2>1, RangesOfTheLatest
  <2>3. \A r \in DatedOn(e) : Age(r) \in Int
    BY AgesAreIntegers
  <2> QED
    BY <2>2, <2>3
<1>9. /\ DOMAIN b = {"last30Days", "days31To60", "days61To90", "olderThan90Days", "withoutData"}
      /\ \A e : e \in b.last30Days
           <=> e \in Computers(place) /\ DatedOn(e) # {} /\ LatestAge(e) <= 30
      /\ \A e : e \in b.days31To60
           <=> e \in Computers(place) /\ DatedOn(e) # {} /\ LatestAge(e) > 30 /\ LatestAge(e) <= 60
      /\ \A e : e \in b.days61To90
           <=> e \in Computers(place) /\ DatedOn(e) # {} /\ LatestAge(e) > 60 /\ LatestAge(e) <= 90
      /\ \A e : e \in b.olderThan90Days
           <=> e \in Computers(place) /\ DatedOn(e) # {} /\ LatestAge(e) > 90
      /\ \A e : e \in b.withoutData <=> e \in Computers(place) /\ UpdatesOn(e) = {}
  BY BucketsAre
<1>10. \A e : e \in undated <=> e \in Computers(place) /\ UpdatesOn(e) # {} /\ DatedOn(e) = {}
  BY <1>1, <1>2, <1>3
<1> HIDE DEF S, s, b, undated
<1>11. \A e : e \in Computers(place) <=> \/ e \in b["last30Days"] \/ e \in b["days31To60"]
                                        \/ e \in b["days61To90"] \/ e \in b["olderThan90Days"]
                                        \/ e \in b["withoutData"] \/ e \in undated
  <2> SUFFICES ASSUME NEW e
               PROVE  e \in Computers(place) <=> \/ e \in b["last30Days"] \/ e \in b["days31To60"]
                                                \/ e \in b["days61To90"] \/ e \in b["olderThan90Days"]
                                                \/ e \in b["withoutData"] \/ e \in undated
    OBVIOUS
  <2>1. CASE DatedOn(e) = {}
    BY <1>9, <1>10, <2>1
  <2>2. CASE DatedOn(e) # {}
    <3>1. \/ LatestAge(e) <= 30 \/ (LatestAge(e) > 30 /\ LatestAge(e) <= 60)
          \/ (LatestAge(e) > 60 /\ LatestAge(e) <= 90) \/ LatestAge(e) > 90
      BY <1>8, <2>2
    <3> QED
      BY <1>7, <1>9, <1>10, <2>2, <3>1
  <2> QED
    BY <2>1, <2>2
<1>12. UNION buckets = Computers(place)
  <2>1. \A e : e \in UNION buckets <=> (\E k \in DOMAIN b : e \in b[k]) \/ e \in undated
    OBVIOUS
  <2> HIDE DEF buckets
  <2>2. \A e : (\E k \in DOMAIN b : e \in b[k])
               <=> \/ e \in b["last30Days"] \/ e \in b["days31To60"] \/ e \in b["days61To90"]
                   \/ e \in b["olderThan90Days"] \/ e \in b["withoutData"]
    BY <1>9
  <2>3. \A e : e \in UNION buckets <=> e \in Computers(place)
    BY <1>11, <2>1, <2>2
  <2> QED
    BY <2>3
<1>13. \A k, l \in DOMAIN b : k # l => b[k] \cap b[l] = {}
  <2> SUFFICES ASSUME NEW k \in DOMAIN b, NEW l \in DOMAIN b, k # l, NEW e, e \in b[k], e \in b[l]
               PROVE  FALSE
    OBVIOUS
  <2>1. CASE UpdatesOn(e) = {}
    BY <1>7, <1>9, <2>1
  <2>2. CASE UpdatesOn(e) # {}
    <3>1. DatedOn(e) # {} /\ LatestAge(e) \in Int
      BY <1>8, <1>9, <2>2
    <3> QED
      BY <1>9, <2>2, <3>1
  <2> QED
    BY <2>1, <2>2
<1>14. \A k \in DOMAIN b : b[k] \cap undated = {}
  BY <1>9, <1>10
<1>15. Holders(s.last30Days) = b.last30Days
  <2>1. \A e : e \in Holders(s.last30Days) <=> e \in b.last30Days
    BY <1>6, <1>8, <1>9
  <2> QED
    BY <2>1
<1>16. StaleUpdateComputers(90, place) = b.olderThan90Days \cup b.withoutData \cup undated
  <2>1. \A e : e \in StaleUpdateComputers(90, place)
                 <=> e \in b.olderThan90Days \/ e \in b.withoutData \/ e \in undated
    BY <1>7, <1>9, <1>10, StaleAre
  <2> QED
    BY <2>1
<1>17. NotifiedStale(90, place) = StaleUpdateComputers(90, place)
  <2>1. \A e : e \in NotifiedStale(90, place) <=> e \in StaleUpdateComputers(90, place)
    BY StaleAre
  <2> QED
    BY <2>1
<1> HIDE DEF buckets
<1> QED
  BY <1>1, <1>4, <1>5, <1>12, <1>13, <1>14, <1>15, <1>16, <1>17, Zenon
     DEF UpdatesAgree, s, b, undated, buckets

LEMMA PrintersAreOne ==
  ASSUME AnalyticsTypeOK, NEW place
  PROVE  PrintersAgree(place)
<1> DEFINE S == RowsOf("printers", place)
           s == PrinterStats(place)
           groups == GroupByManufacturer(place)
           top == TopPrinterNames(place)
<1>1. s.total = S /\ s.unique = Names(S) /\ s.computers = Holders(S)
      /\ s.problemStatus = WithProblem(S)
  BY DEF PrinterStats
<1>2. PrintersWithProblemStatus(place) = WithProblem(S)
  BY DEF PrintersWithProblemStatus
<1>3. DOMAIN top = Names(S) /\ \A n \in Names(S) : top[n] = Holders({r \in S : r.name = n})
  BY DEF TopPrinterNames
<1>4. RarePrinters(place) = {n \in Names(S) : Cardinality(Holders({r \in S : r.name = n})) <= 2}
  BY DEF RarePrinters, Rare
<1>5. DOMAIN ComputersWithMostPrinters(place) = Holders(S)
  BY GroupsByHolder DEF ComputersWithMostPrinters
<1>6. DOMAIN groups = {PrinterManufacturer(r) : r \in S}
      /\ \A m \in DOMAIN groups : groups[m] = {r \in S : PrinterManufacturer(r) = m}
  BY DEF GroupByManufacturer, GroupBy, ActivePrinterPerComputer
<1>7. DOMAIN TopPrinterDrivers(place) = {r.driver : r \in {q \in S : q.driver # Blank}}
  BY DEF TopPrinterDrivers, GroupBy, DriverOf
<1>8. IsFiniteSet(S)
  BY RowsOfAreFinite DEF Tables
<1> HIDE DEF S, s, groups, top
<1>9. \A r \in S : PrinterManufacturer(r) \in DOMAIN groups /\ r \in groups[PrinterManufacturer(r)]
  BY <1>6
<1>10. UNION {groups[m] : m \in DOMAIN groups} = S
  BY <1>6, <1>9
<1>11. IsFiniteSet(DOMAIN groups)
  <2> DEFINE of == [r \in S |-> PrinterManufacturer(r)]
             T == DOMAIN groups
  <2>1. of \in [S -> T] /\ \A m \in T : \E r \in S : of[r] = m
    BY <1>6
  <2> HIDE DEF of, T
  <2>2. IsFiniteSet(T)
    BY <1>8, <2>1, ImagesAreSmaller
  <2> QED
    BY <2>2 DEF T
<1>12. ASSUME NEW d \in DOMAIN TopPrinterDrivers(place)
       PROVE  Cardinality({m \in DOMAIN groups : \E r \in groups[m] : r.driver = d}) >= 1
  <2> DEFINE M == {m \in DOMAIN groups : \E r \in groups[m] : r.driver = d}
  <2>1. PICK r \in S : r.driver = d
    BY <1>7
  <2>2. PrinterManufacturer(r) \in M
    BY <1>9, <2>1
  <2>3. M \in SUBSET DOMAIN groups
    OBVIOUS
  <2> HIDE DEF M
  <2>4. IsFiniteSet(M) /\ Cardinality(M) \in Nat
    BY <1>11, <2>3, FS_Subset, FS_CardinalityType
  <2>5. Cardinality(M) # 0
    BY <2>2, <2>4, FS_EmptySet
  <2>6. Cardinality(M) >= 1
    BY <2>4, <2>5
  <2> QED
    BY <2>6 DEF M
<1>13. RarePrinters(place) = {n \in s.unique : Cardinality(top[n]) <= 2}
  BY <1>1, <1>3, <1>4
<1> QED
  BY <1>1, <1>2, <1>3, <1>5, <1>10, <1>12, <1>13 DEF PrintersAgree, s, groups, top

LEMMA PercentAtMostHundred ==
  ASSUME NEW part \in Nat, NEW total \in Nat, part <= total
  PROVE  Pct(part, total) <= 100
<1>1. CASE total = 0
  BY <1>1 DEF Pct
<1>2. CASE total # 0
  <2>1. 200 * part + total \in Nat /\ 2 * total \in Nat \ {0}
    BY <1>2
  <2> DEFINE q == (200 * part + total) \div (2 * total)
  <2>2. q \in Nat /\ q * (2 * total) <= 200 * part + total
    <3>1. \A n \in Nat, d \in Nat \ {0} : n \div d \in Nat /\ (n \div d) * d <= n
      BY DivisionIs
    <3> QED
      BY <2>1, <3>1
  <2>3. Pct(part, total) = q
    BY <1>2 DEF Pct
  <2> HIDE DEF q
  <2>4. q >= 101 => q * (2 * total) >= 101 * (2 * total)
    BY <2>1, <2>2, ProductsGrow
  <2>5. 200 * part + total < 101 * (2 * total)
    BY <1>2
  <2> QED
    BY <2>1, <2>2, <2>3, <2>4, <2>5
<1> QED
  BY <1>1, <1>2

\* What the figures of a table are called in the page's statistics.
LEMMA StatsAre ==
  ASSUME NEW place, NEW t \in Tables
  PROVE  /\ Stats(place).stats[t].total = RowsOf(t, place)
         /\ Stats(place).stats[t].unique = Names(RowsOf(t, place))
         /\ Stats(place).stats[t].computers = Holders(RowsOf(t, place))
<1> DEFINE s == Stats(place).stats
<1>1. s = [u \in Tables |->
             CASE u = "software" -> SoftwareStats(place) [] u = "drivers" -> DriverStats(place)
               [] u = "services" -> ServiceStats(place)  [] u = "updates" -> UpdateStats(place)
               [] u = "printers" -> PrinterStats(place)]
  BY DEF Stats
<1> HIDE DEF s
<1>2. CASE t = "software"
  <2>1. s[t] = SoftwareStats(place)
    BY <1>1, <1>2
  <2> QED
    BY <1>2, <2>1 DEF s, SoftwareStats
<1>3. CASE t = "drivers"
  <2>1. s[t] = DriverStats(place)
    BY <1>1, <1>3
  <2> QED
    BY <1>3, <2>1 DEF s, DriverStats
<1>4. CASE t = "services"
  <2>1. s[t] = ServiceStats(place)
    BY <1>1, <1>4
  <2> QED
    BY <1>4, <2>1 DEF s, ServiceStats
<1>5. CASE t = "updates"
  <2>1. s[t] = UpdateStats(place)
    BY <1>1, <1>5
  <2> QED
    BY <1>5, <2>1 DEF s, UpdateStats
<1>6. CASE t = "printers"
  <2>1. s[t] = PrinterStats(place)
    BY <1>1, <1>6
  <2> QED
    BY <1>6, <2>1 DEF s, PrinterStats
<1> QED
  BY <1>2, <1>3, <1>4, <1>5, <1>6 DEF Tables

LEMMA WithoutServiceIs ==
  ASSUME AnalyticsTypeOK, NEW place, NEW names
  PROVE  {row.computer : row \in {q \in WithoutService(place, names) : ~q.hasServiceData}}
           = Computers(place) \ Holders(RowsOf("services", place))
<1> DEFINE list == WithoutService(place, names)
           has(e) == \E r \in stored["services"] : r.computer = e
           lacks(e) == ~\E r \in stored["services"] : r.computer = e /\ r.name \in names
<1>1. list = {[computer |-> e, hasServiceData |-> has(e)] : e \in {c \in Computers(place) : lacks(c)}}
  BY DEF WithoutService
<1>2. \A e : e \in Computers(place) \ Holders(RowsOf("services", place))
               <=> e \in Computers(place) /\ ~has(e)
  BY DEF Holders, RowsOf
<1>3. \A e : ~has(e) => lacks(e)
  OBVIOUS
<1> HIDE DEF list, has, lacks
<1>4. \A q \in list : q.computer \in Computers(place) /\ (q.hasServiceData <=> has(q.computer))
  <2> SUFFICES ASSUME NEW q \in list
               PROVE  q.computer \in Computers(place) /\ (q.hasServiceData <=> has(q.computer))
    OBVIOUS
  <2>1. PICK e \in Computers(place) : q = [computer |-> e, hasServiceData |-> has(e)]
    BY <1>1
  <2>2. q.computer = e /\ q.hasServiceData = has(e)
    BY <2>1
  <2> QED
    BY <2>1, <2>2
<1>5. \A e \in Computers(place) : ~has(e) => \E q \in list : q.computer = e /\ ~q.hasServiceData
  <2> SUFFICES ASSUME NEW e \in Computers(place), ~has(e)
               PROVE  \E q \in list : q.computer = e /\ ~q.hasServiceData
    OBVIOUS
  <2>1. PICK q : q = [computer |-> e, hasServiceData |-> has(e)]
    OBVIOUS
  <2>2. q \in list
    BY <1>1, <1>3, <2>1
  <2>3. q.computer = e /\ q.hasServiceData = has(e)
    BY <2>1
  <2> QED
    BY <2>2, <2>3
<1>6. \A e : e \in {row.computer : row \in {q \in list : ~q.hasServiceData}}
               <=> \E q \in list : ~q.hasServiceData /\ q.computer = e
  OBVIOUS
<1>7. \A e : e \in {row.computer : row \in {q \in list : ~q.hasServiceData}}
               <=> e \in Computers(place) \ Holders(RowsOf("services", place))
  BY <1>2, <1>4, <1>5, <1>6
<1>8. {row.computer : row \in {q \in list : ~q.hasServiceData}}
        = Computers(place) \ Holders(RowsOf("services", place))
  BY <1>7
<1> QED
  BY <1>8 DEF list

LEMMA CoverageIsOne ==
  ASSUME AnalyticsTypeOK, NEW place
  PROVE  CoverageAgrees(place)
<1> DEFINE s == Stats(place)
<1>1. /\ s.totalComputers = Computers(place)
      /\ \A t \in Tables : s.coverage[t] = Holders(RowsOf(t, place))
      /\ \A t \in Tables : s.without[t] = Computers(place) \ Holders(RowsOf(t, place))
  BY DEF Stats, Coverage
<1>2. \A t \in Tables : s.pct[t] = Pct(Cardinality(Coverage(place)[t]), Cardinality(Computers(place)))
  BY DEF Stats
<1>3. \A t \in Tables : s.stats[t].computers = Holders(RowsOf(t, place))
  BY StatsAre
<1> HIDE DEF s
<1>4. ASSUME NEW t \in Tables PROVE s.pct[t] <= 100
  <2> DEFINE H == Holders(RowsOf(t, place))
             C == Computers(place)
  <2>1. Coverage(place)[t] = H
    BY DEF Coverage
  <2>2. IsFiniteSet(C) /\ Cardinality(C) \in Nat /\ Cardinality(H) \in Nat /\ H \in SUBSET C
    BY RowsOfAreFinite
  <2> HIDE DEF H, C
  <2>3. Cardinality(H) <= Cardinality(C)
    BY <2>2, FS_Subset
  <2>4. Pct(Cardinality(H), Cardinality(C)) <= 100
    BY <2>2, <2>3, PercentAtMostHundred
  <2>5. s.pct[t] = Pct(Cardinality(H), Cardinality(C))
    BY <1>2, <2>1 DEF C
  <2> QED
    BY <2>4, <2>5
<1>5. WithoutPdsu(place) = {e \in s.totalComputers : \A t \in Tables : e \in s.without[t]}
  <2>1. \A e \in Computers(place), t \in Tables :
          e \in s.without[t] <=> \A r \in stored[t] : r.computer # e
    BY <1>1 DEF Holders, RowsOf
  <2> QED
    BY <1>1, <2>1 DEF WithoutPdsu
<1>6. "services" \in Tables
  BY DEF Tables
<1>7. \A list \in {WithoutUltravnc(place), WithoutNetdeskAgentManager(place)} :
        {row.computer : row \in {q \in list : ~q.hasServiceData}} = s.without["services"]
  <2>1. s.without["services"] = Computers(place) \ Holders(RowsOf("services", place))
    BY <1>1, <1>6
  <2>2. {row.computer : row \in {q \in WithoutUltravnc(place) : ~q.hasServiceData}}
          = s.without["services"]
    BY <2>1, WithoutServiceIs DEF WithoutUltravnc
  <2>3. {row.computer : row \in {q \in WithoutNetdeskAgentManager(place) : ~q.hasServiceData}}
          = s.without["services"]
    BY <2>1, WithoutServiceIs DEF WithoutNetdeskAgentManager
  <2> QED
    BY <2>2, <2>3
<1> QED
  BY <1>1, <1>3, <1>4, <1>5, <1>7 DEF CoverageAgrees, s

LEMMA SearchIsOne ==
  ASSUME NEW place
  PROVE  SearchFinds(place)
<1> DEFINE stats == Stats(place).stats
<1>1. \A t \in Tables : stats[t].total = RowsOf(t, place) /\ stats[t].unique = Names(RowsOf(t, place))
  BY StatsAre
<1>2. \A t \in Tables : Export(t, place) = RowsOf(t, place)
  BY DEF Export
<1>3. \A t \in Tables : "name" \in SearchFields(t)
  BY DEF Tables, SearchFields
<1> HIDE DEF stats
<1>4. ASSUME NEW t \in Tables, NEW n \in Names(RowsOf(t, place))
      PROVE  /\ {r \in RowsOf(t, place) : r.name = n} \subseteq Search(n, place)[t]
             /\ Search(n, place)[t] \subseteq RowsOf(t, place)
  <2>1. n # Blank
    BY <1>4 DEF Names, Named
  <2>2. Search(n, place)[t] = {r \in RowsOf(t, place) : \E f \in SearchFields(t) : r[f] = n}
    BY <2>1 DEF Search, SearchRows
  <2>3. \A r \in RowsOf(t, place) : r.name = n => r["name"] = n
    OBVIOUS
  <2> QED
    BY <1>3, <2>2, <2>3
<1> QED
  BY <1>1, <1>2, <1>4 DEF SearchFinds, stats

LEMMA ReportIsOne == AnalyticsTypeOK => ReportAgrees
BY CoverageIsOne, SoftwareIsOne, DriversAreOne, ServicesAreOne, UpdatesAreOne, PrintersAreOne,
   SearchIsOne DEF ReportAgrees

\* The figures, lists, search and export of the analysis tell the same at every moment, also between
\* the two steps that replace a table (pdsuAnalyticsStatsService, searchPdsuAnalytics,
\* exportPdsuAnalyticsXlsx).
THEOREM ReportDescribesOneTable == AnalyticsSpec => []ReportAgrees
<1>1. AnalyticsInit => AnalyticsTypeOK
  BY AnalyticsInitTyped
<1>2. AnalyticsTypeOK /\ [AnalyticsNext]_analyticsVars => AnalyticsTypeOK'
  BY AnalyticsNextTyped
<1>3. AnalyticsTypeOK => ReportAgrees
  BY ReportIsOne
<1> QED
  BY <1>1, <1>2, <1>3, PTL DEF AnalyticsSpec
=============================================================================
