------------------------------ MODULE JobPages ------------------------------
(***************************************************************************)
(* The two pages that follow unfinished commands: the commands of one      *)
(* agent, a tab of AgentDetailView, and the commands of one batch,         *)
(* BatchJobDetailView.  Each answer with an unfinished command sets a      *)
(* timer for the next request; buttons ask for the list as well.  The      *)
(* agent's page stops its timer before it asks and while another tab is    *)
(* shown, the batch's page does not stop it.                               *)
(*                                                                         *)
(* A list is "open", with an unfinished command in it, or "closed".  A     *)
(* handler runs to its next await in one step, mounted or not.             *)
(***************************************************************************)
EXTENDS Naturals

CONSTANTS
  MaxPresses  \* bound: buttons and tabs that the user presses

ASSUME JobPagesAssumption == MaxPresses \in Nat

VARIABLES
  view,        \* "agent" or "batch"
  mounted,
  ready,       \* whether loadAgent has ended and the tab was selected
  tab,         \* the tab with the commands, or another one
  jobsShown,   \* the list on the page, "nothing" until jobsLoaded
  fetching,    \* number of list requests: not read yet by the backend, and by what it has read
  pollTimer,   \* whether the timer is running whose handle the page knows
  orphans,     \* number of running timers whose handle was overwritten
  polling,     \* the text that the list is refreshed automatically
  pressed,     \* the requests of the buttons: not sent, asked, done by the backend
  presses,
  unfinished,  \* unfinished commands in the database: one sent here, and any other
  failed,      \* whether the last request failed
  crossed,     \* whether a list was asked, a timer set or a command sent beside another list (history)
  trailing     \* whether something was on its way when the page was left (history)

requestVars == <<fetching, pollTimer, orphans, polling, failed, crossed>>
pageVars == <<view, mounted, ready, tab, jobsShown, pressed, presses, unfinished, trailing>>
jobPagesVars == <<requestVars, pageVars>>

Buttons == {"create", "cancel", "fix"}
Lists == {"open", "closed"}
InFlight == fetching["asked"] + fetching["open"] + fetching["closed"]

JobPagesTypeOK ==
  /\ view \in {"agent", "batch"} /\ tab \in {"jobs", "other"}
  /\ mounted \in BOOLEAN /\ ready \in BOOLEAN /\ pollTimer \in BOOLEAN /\ polling \in BOOLEAN
  /\ jobsShown \in Lists \cup {"nothing"}
  /\ fetching \in [Lists \cup {"asked"} -> Nat] /\ orphans \in Nat
  /\ pressed \in [Buttons -> {"no", "asked", "done"}] /\ presses \in 0 .. MaxPresses
  /\ unfinished \in SUBSET {"own", "other"}
  /\ failed \in BOOLEAN /\ crossed \in BOOLEAN /\ trailing \in BOOLEAN

\* onMounted: the batch's page asks at once, the agent's page when it has the agent.
JobPagesInit ==
  /\ mounted = TRUE /\ jobsShown = "nothing"
  /\ \/ view = "agent" /\ tab \in {"jobs", "other"} /\ ready = FALSE
     \/ view = "batch" /\ tab = "jobs" /\ ready = TRUE
  /\ fetching = [l \in Lists \cup {"asked"} |-> IF l = "asked" /\ view = "batch" THEN 1 ELSE 0]
  /\ pollTimer = FALSE /\ orphans = 0 /\ polling = FALSE
  /\ pressed = [b \in Buttons |-> "no"] /\ presses = 0
  /\ unfinished \in SUBSET {"other"}
  /\ failed = FALSE /\ crossed = FALSE /\ trailing = FALSE

-----------------------------------------------------------------------------
(* Requests and timers.                                                    *)

StopJobsPolling == pollTimer' = FALSE /\ polling' = FALSE

\* loadJobs and loadStatus up to their await; running tells whether the known timer still runs.
Load(running) ==
  /\ fetching' = [fetching EXCEPT !["asked"] = @ + 1]
  /\ failed' = FALSE
  /\ IF view = "agent" THEN StopJobsPolling ELSE pollTimer' = running /\ UNCHANGED polling
  /\ crossed' = (crossed \/ InFlight > 0 \/ pollTimer')

\* The handle of a timer that is still running is lost.
SetTimer ==
  /\ pollTimer' = TRUE /\ polling' = TRUE
  /\ orphans' = IF pollTimer THEN orphans + 1 ELSE orphans

Fire ==
  /\ pollTimer
  /\ Load(FALSE)
  /\ UNCHANGED <<orphans, pageVars>>

FireOrphan ==
  /\ orphans > 0 /\ orphans' = orphans - 1
  /\ Load(pollTimer)
  /\ UNCHANGED pageVars

\* The backend reads the commands.
ServeList ==
  /\ fetching["asked"] > 0
  /\ LET read == IF unfinished = {} THEN "closed" ELSE "open"
     IN  fetching' = [fetching EXCEPT !["asked"] = @ - 1, ![read] = @ + 1]
  /\ UNCHANGED <<pollTimer, orphans, polling, failed, crossed, pageVars>>

GoesOn(list) == list = "open" /\ tab = "jobs"

ListAnswered(list) ==
  /\ fetching[list] > 0
  /\ fetching' = [fetching EXCEPT ![list] = @ - 1]
  /\ jobsShown' = list /\ failed' = FALSE
  /\ \/ GoesOn(list) /\ SetTimer
     \/ ~GoesOn(list) /\ polling' = FALSE /\ UNCHANGED <<pollTimer, orphans>>
  /\ UNCHANGED <<crossed, view, mounted, ready, tab, pressed, presses, unfinished, trailing>>

ListIsLost ==
  /\ \E l \in DOMAIN fetching : fetching[l] > 0 /\ fetching' = [fetching EXCEPT ![l] = @ - 1]
  /\ failed' = TRUE
  /\ polling' = (polling /\ view = "agent")
  /\ UNCHANGED <<pollTimer, orphans, crossed, pageVars>>

-----------------------------------------------------------------------------
(* The user.                                                               *)

\* The end of onMounted.
Ready ==
  /\ ~ready /\ ready' = TRUE
  /\ IF tab = "jobs" THEN Load(FALSE) ELSE UNCHANGED <<fetching, pollTimer, polling, failed, crossed>>
  /\ UNCHANGED <<orphans, view, mounted, tab, jobsShown, pressed, presses, unfinished, trailing>>

\* Mutant: the tab does not go on where it was left.
NeverResumes == FALSE

Resumes == ~pollTimer /\ jobsShown = "open"

SelectTab(name) ==
  /\ view = "agent" /\ mounted /\ ready
  /\ presses < MaxPresses /\ presses' = presses + 1
  /\ tab' = name
  /\ \/ /\ name = "jobs" /\ jobsShown = "nothing"
        /\ Load(FALSE) /\ UNCHANGED orphans
     \/ /\ name = "jobs" /\ jobsShown # "nothing"
        /\ \/ Resumes /\ SetTimer /\ crossed' = (crossed \/ InFlight > 0)
           \/ ~Resumes /\ UNCHANGED <<pollTimer, orphans, polling, crossed>>
        /\ UNCHANGED <<fetching, failed>>
     \/ /\ name = "other"
        /\ StopJobsPolling
        /\ UNCHANGED <<fetching, orphans, failed, crossed>>
  /\ UNCHANGED <<view, mounted, ready, jobsShown, pressed, unfinished, trailing>>

\* createJob, sendFixJob; cancelJob and confirmClearJobs, cancelBatch and cancelSingleJob.
Press(button) ==
  /\ mounted /\ ready /\ pressed[button] = "no"
  /\ presses < MaxPresses /\ presses' = presses + 1
  /\ button # "fix" => tab = "jobs"
  /\ IF button = "cancel" THEN jobsShown = "open" ELSE view = "agent"
  /\ pressed' = [pressed EXCEPT ![button] = "asked"]
  /\ UNCHANGED <<requestVars, view, mounted, ready, tab, jobsShown, unfinished, trailing>>

ServePress(button) ==
  /\ pressed[button] = "asked"
  /\ pressed' = [pressed EXCEPT ![button] = "done"]
  /\ IF button = "cancel"
     THEN unfinished' \in SUBSET unfinished /\ UNCHANGED crossed
     ELSE unfinished' = unfinished \cup {"own"} /\ crossed' = (crossed \/ InFlight > 0)
  /\ UNCHANGED <<fetching, pollTimer, orphans, polling, failed,
                 view, mounted, ready, tab, jobsShown, presses, trailing>>

\* sendFixJob leaves a list alone that was never asked for.
PressAnswered(button) ==
  /\ pressed[button] = "done"
  /\ pressed' = [pressed EXCEPT ![button] = "no"]
  /\ IF button = "fix" /\ jobsShown = "nothing"
     THEN UNCHANGED <<fetching, pollTimer, polling, failed, crossed>>
     ELSE Load(pollTimer)
  /\ UNCHANGED <<orphans, view, mounted, ready, tab, jobsShown, presses, unfinished, trailing>>

PressFails(button) ==
  /\ pressed[button] # "no"
  /\ pressed' = [pressed EXCEPT ![button] = "no"]
  /\ failed' = TRUE
  /\ UNCHANGED <<fetching, pollTimer, orphans, polling, crossed,
                 view, mounted, ready, tab, jobsShown, presses, unfinished, trailing>>

\* onBeforeUnmount: only the known timer stops.
Leave ==
  /\ mounted /\ mounted' = FALSE
  /\ pollTimer' = FALSE /\ polling' = (polling /\ view = "batch")
  /\ trailing' = \/ InFlight > 0 \/ orphans > 0 \/ ~ready
                 \/ \E b \in Buttons : pressed[b] # "no"
  /\ UNCHANGED <<fetching, orphans, failed, crossed, view, ready, tab, jobsShown, pressed, presses, unfinished>>

\* Agents finish commands; another administrator cancels some, or sends one to the agent.
OthersChange ==
  /\ \E left \in SUBSET unfinished :
       \/ unfinished' = left
       \/ view = "agent" /\ unfinished' = left \cup {"other"}
  /\ UNCHANGED <<requestVars, view, mounted, ready, tab, jobsShown, pressed, presses, trailing>>

JobPagesNext ==
  \/ Fire \/ FireOrphan \/ ServeList \/ ListIsLost \/ Ready \/ Leave \/ OthersChange
  \/ \E l \in Lists : ListAnswered(l)
  \/ \E t \in {"jobs", "other"} : SelectTab(t)
  \/ \E b \in Buttons : Press(b) \/ ServePress(b) \/ PressAnswered(b) \/ PressFails(b)

JobPagesSpec == JobPagesInit /\ [][JobPagesNext]_jobPagesVars

-----------------------------------------------------------------------------
(* What the pages guarantee.                                               *)

Watched == mounted /\ ready /\ tab = "jobs"
Coming == pollTimer \/ orphans > 0 \/ InFlight > 0

\* An unfinished command on the page is asked for again.
NothingOpenIsForgotten == Watched /\ jobsShown = "open" => Coming \/ failed

\* So is one that this page sent, even if the list does not have it yet.  Excepted is a list that was
\* on its way when the command was sent, or beside another list: answers come in any order.
OwnJobIsFollowed ==
  Watched /\ "own" \in unfinished /\ (\A b \in Buttons : pressed[b] # "done")
    => Coming \/ failed \/ crossed

\* The text tells the truth.
IndicatorIsTrue == mounted /\ polling => IF view = "agent" THEN pollTimer ELSE Coming

\* Requests do not multiply, unless they overlapped once.
OneRefresh == ~crossed => InFlight + orphans + (IF pollTimer THEN 1 ELSE 0) <= 1

\* A tab that is not shown starts no timer, and a page that was left asks for nothing, unless
\* something was on its way when it was left.
QuietWhenUnwatched ==
  /\ tab = "other" => ~pollTimer
  /\ mounted \/ trailing \/ ~Coming

\* A page refreshes its list as long as a command in it is unfinished and somebody looks at it, once
\* per period and no longer (loadJobs, selectTab, loadStatus, onBeforeUnmount).
PollsWhileWatched ==
  /\ NothingOpenIsForgotten
  /\ OwnJobIsFollowed
  /\ IndicatorIsTrue
  /\ OneRefresh
  /\ QuietWhenUnwatched
=============================================================================
