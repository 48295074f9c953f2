---------------------------- MODULE DailyReports ----------------------------
(***************************************************************************)
(* The daily report: every morning dailyReportScheduler writes one report  *)
(* for each site, which lists what was created, enrolled or failed since   *)
(* the report before it.                                                   *)
(*                                                                         *)
(* An item is a row with a time that a report lists: an agent by its       *)
(* enrolment, an address or a printer by its creation, a command by its    *)
(* failure.  Its site is that of the ip_entries row it is joined with, and *)
(* none before an agent has one.  The queries of one Promise.all are one   *)
(* step.  Times have the resolution of the columns; 0 stands for no row.   *)
(***************************************************************************)
EXTENDS Integers, Sequences, FiniteSetsExt

CONSTANTS
  Items,
  SiteOrder,   \* SITES, in the order of generateDailyReportsForAllSites
  Unlinked,    \* no ip_entries row
  DayLength,   \* 24 hours of the clock
  MaxHour,     \* bound: the clock
  MaxFailures  \* bound: failed statements and restarts

Sites == {SiteOrder[n] : n \in DOMAIN SiteOrder}
Hours == 1 .. MaxHour

ASSUME ReportsAssumption ==
  /\ DayLength \in Nat \ {0} /\ MaxHour \in Nat \ {0} /\ MaxFailures \in Nat
  /\ Unlinked \notin Sites
  /\ SiteOrder \in Seq(Sites) /\ SiteOrder # <<>>
  /\ \A m, n \in DOMAIN SiteOrder : SiteOrder[m] = SiteOrder[n] => m = n

VARIABLES
  hour,
  failures,
  occurred,   \* created_at, enrolled_at or completed_at of each item
  site,       \* the site it is joined with
  cycle,      \* generateDailyReportsForAllSites: [step, end, n, start, found]
  nextRun,    \* when the timer fires next
  reports,    \* daily_reports: [site, start, end, items]
  snapshots,  \* recorded_at of the rows of agent_monitoring_history, per snapshot
  late        \* items joined with a site after a cycle that should list them began (history)

reportsVars == <<hour, failures, occurred, site, cycle, nextRun, snapshots, late, reports>>

NoCycle == [step |-> "idle", end |-> 0, n |-> 0, start |-> 0, found |-> {}]

ReportsTypeOK ==
  /\ hour \in Hours /\ failures \in 0 .. MaxFailures
  /\ occurred \in [Items -> Hours \cup {0}] /\ site \in [Items -> Sites \cup {Unlinked}]
  /\ cycle \in [step : {"idle", "snapshot", "previous", "queries", "insert", "push"},
                end : Hours \cup {0}, n : DOMAIN SiteOrder \cup {0},
                start : Int, found : SUBSET Items]
  /\ nextRun \in Nat
  /\ snapshots \in [Hours -> Nat] /\ late \in SUBSET Items
  /\ \A r \in reports : /\ r.site \in Sites /\ r.items \in SUBSET Items
                       /\ r.start \in Int /\ r.end \in Hours

\* 7:00 is a multiple of DayLength.
NextMorning == ((hour \div DayLength) + 1) * DayLength

ReportsInit ==
  /\ hour = 1 /\ failures = 0
  /\ occurred = [i \in Items |-> 0] /\ site = [i \in Items |-> Unlinked]
  /\ cycle = NoCycle
  /\ nextRun = NextMorning
  /\ reports = {} /\ late = {}
  /\ snapshots = [h \in Hours |-> 0]

-----------------------------------------------------------------------------
(* What the reports are about.                                             *)

NextHour ==
  /\ hour < MaxHour
  /\ hour' = hour + 1
  /\ UNCHANGED <<failures, occurred, site, cycle, nextRun, snapshots, late, reports>>

\* A row is created, an agent enrols or a command fails.
Occur(i, s) ==
  /\ occurred[i] = 0
  /\ occurred' = [occurred EXCEPT ![i] = hour]
  /\ site' = [site EXCEPT ![i] = s]
  /\ UNCHANGED <<hour, failures, cycle, nextRun, snapshots, late, reports>>

\* The first inventory links an agent with a row of ip_entries, or an administrator moves the row.
Join(i, s) ==
  /\ occurred[i] # 0 /\ site[i] # s
  /\ site' = [site EXCEPT ![i] = s]
  /\ late' = IF cycle.end >= occurred[i] \/ \E r \in reports : r.end >= occurred[i]
             THEN late \cup {i} ELSE late
  /\ UNCHANGED <<hour, failures, occurred, cycle, nextRun, snapshots, reports>>

-----------------------------------------------------------------------------
(* One cycle.                                                              *)

\* The timer fires: periodEnd is taken once for all sites.
BeginCycle ==
  /\ cycle.step = "idle" /\ hour >= nextRun
  /\ cycle' = [NoCycle EXCEPT !.step = "snapshot", !.end = hour]
  /\ UNCHANGED <<hour, failures, occurred, site, nextRun, snapshots, late, reports>>

\* snapshotCurrentMonitoring, once for all sites.
Snapshot ==
  /\ cycle.step = "snapshot"
  /\ snapshots' = [snapshots EXCEPT ![cycle.end] = @ + 1]
  /\ cycle' = [cycle EXCEPT !.step = "previous", !.n = 1]
  /\ UNCHANGED <<hour, failures, occurred, site, nextRun, late, reports>>

Current == SiteOrder[cycle.n]

\* Mutant: the period begins a day before its end, whatever was reported last.
PeriodOfADay(s) == cycle.end - DayLength

\* The period begins where the latest report of the site ends; the first one is a day long.
PeriodStart(s) ==
  LET ends == {r.end : r \in {q \in reports : q.site = s}}
  IN IF ends = {} THEN cycle.end - DayLength ELSE Max(ends)

\* generateDailyReport, findLatestDailyReport.
FindPrevious ==
  /\ cycle.step = "previous"
  /\ cycle' = [cycle EXCEPT !.step = "queries", !.start = PeriodStart(Current)]
  /\ UNCHANGED <<hour, failures, occurred, site, nextRun, snapshots, late, reports>>

\* The queries: at or after periodStart, without an upper bound.
Found == {i \in Items : occurred[i] # 0 /\ occurred[i] >= cycle.start /\ site[i] = Current}

QueryItems ==
  /\ cycle.step = "queries"
  /\ cycle' = [cycle EXCEPT !.step = "insert", !.found = Found]
  /\ UNCHANGED <<hour, failures, occurred, site, nextRun, snapshots, late, reports>>

\* Mutant: period_end is the time of the INSERT.
PeriodEndNow == hour

PeriodEnd == cycle.end

InsertReport ==
  /\ cycle.step = "insert"
  /\ reports' = reports \cup {[site |-> Current, start |-> cycle.start, end |-> PeriodEnd,
                                items |-> cycle.found]}
  /\ cycle' = [cycle EXCEPT !.step = "push"]
  /\ UNCHANGED <<hour, failures, occurred, site, nextRun, snapshots, late>>

\* sendPushToAll, then the next site or the next timer.
PushReport ==
  /\ cycle.step = "push"
  /\ \/ /\ cycle.n + 1 \in DOMAIN SiteOrder
        /\ cycle' = [cycle EXCEPT !.step = "previous", !.n = @ + 1, !.found = {}, !.start = 0]
        /\ UNCHANGED nextRun
     \/ /\ cycle.n + 1 \notin DOMAIN SiteOrder
        /\ cycle' = NoCycle
        /\ nextRun' = NextMorning
  /\ UNCHANGED <<hour, failures, occurred, site, snapshots, late, reports>>

\* A statement fails, or the backend restarts, in a cycle or outside: what is left of the cycle is
\* dropped, and the timer is set for the next morning.
CycleFails ==
  /\ failures < MaxFailures
  /\ failures' = failures + 1
  /\ cycle' = NoCycle
  /\ nextRun' = NextMorning
  /\ UNCHANGED <<hour, occurred, site, snapshots, late, reports>>

ReportsNext ==
  \/ NextHour \/ BeginCycle \/ Snapshot \/ FindPrevious \/ QueryItems
  \/ InsertReport \/ PushReport \/ CycleFails
  \/ \E i \in Items, s \in Sites \cup {Unlinked} : Occur(i, s)
  \/ \E i \in Items, s \in Sites : Join(i, s)

ReportsSpec == ReportsInit /\ [][ReportsNext]_reportsVars

-----------------------------------------------------------------------------
(* What the reports guarantee.                                             *)

\* Whatever fails or is skipped, nothing falls between two reports: once a site has a report that
\* ends after an item, the item is in one of its reports.  Excepted are what happened before the
\* site's first period, and an item that was joined with the site when a cycle that should list it
\* had begun (an agent that enrols before the report and sends its first inventory after it).
NothingIsSkipped ==
  \A i \in Items \ late : \A r \in reports :
    /\ r.site = site[i] /\ r.end > occurred[i]
    /\ \E q \in reports : q.site = r.site /\ q.start <= occurred[i]
    => \E q \in reports : q.site = r.site /\ i \in q.items

\* An item is in two reports of a site only if it happened at the end of the period of the earlier one
\* or while the queries of that one were still to come, and it is in no third one.
TwiceOnlyAtTheBorder ==
  \A i \in Items : \A q, r \in reports :
    /\ q.site = r.site /\ q.end < r.end /\ i \in q.items \cap r.items
    => /\ r.start = q.end /\ occurred[i] >= q.end
       /\ \A t \in reports : t.site = r.site /\ i \in t.items => t.end \in {q.end, r.end}

\* Consecutive reports of a site neither skip nor repeat (generateDailyReport).
NothingIsLostOrRepeated == NothingIsSkipped /\ TwiceOnlyAtTheBorder
=============================================================================
