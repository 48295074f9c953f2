----------------------------- MODULE Monitoring -----------------------------
(***************************************************************************)
(* Two loops of the backend that watch the fleet: pingService probes the   *)
(* addresses of ip_entries and records when their status changed, and      *)
(* pushNotificationWatcher pushes an alert when it appears.                *)
(*                                                                         *)
(* Each loop runs one tick at a time; the statements of different loops,   *)
(* the administrator and the results of commands interleave.  The counts   *)
(* of one Promise.all are read in one step.  Time is a clock of small      *)
(* numbers and 0 stands for NULL.                                          *)
(***************************************************************************)
EXTENDS Naturals

CONSTANTS
  Computers, \* rows of ip_entries, each with the agent linked to it
  Day,       \* 24 hours of the clock
  MaxTime,   \* bound: the clock
  MaxFaults  \* bound: failed statements and restarts

ASSUME MonitoringAssumption == Day \in Nat /\ MaxTime \in Nat \ {0} /\ MaxFaults \in Nat

VARIABLES
  now,
  faults,
  entry,      \* whether a row of ip_entries exists
  online,     \* the rows with is_online
  changedAt,  \* ip_entries.last_status_change
  history,    \* ip_status_history
  tick,       \* the tick of pingService: [step, at, read, was, alive]
  torn,       \* rows with a change that a failed tick did not record (history)
  failedAt,   \* agent_jobs.completed_at of the computer's failed command
  watch,      \* the tick of the watcher: [step, seen, unsent]
  previousIds,
  lastSeen,   \* the alerts of the last tick, whether it failed or not (history)
  announced,  \* alerts pushed since they appeared (history)
  repeated,   \* alerts pushed although they were announced (history)
  again,      \* those a failed tick has pushed already (history)
  lapsed      \* those that were gone in a failed tick only (history)

pings == <<entry, online, changedAt, history, tick, torn>>
pushes == <<watch, previousIds, lastSeen, announced, repeated, again, lapsed>>
vars == <<now, faults, failedAt, pings, pushes>>

Times == 0 .. MaxTime
Alerts == {"offline", "failed-jobs"}
IdleTick == [step |-> "idle", at |-> 0, read |-> {}, was |-> {}, alive |-> {}]
IdleWatch == [step |-> "idle", seen |-> {}, unsent |-> {}]

TypeOK ==
  /\ now \in Times /\ faults \in 0 .. MaxFaults
  /\ entry \in [Computers -> {"absent", "present", "deleted"}]
  /\ online \in SUBSET Computers /\ torn \in SUBSET Computers
  /\ changedAt \in [Computers -> Times] /\ failedAt \in [Computers -> Times]
  /\ history \in SUBSET [of : Computers, online : BOOLEAN, at : Times]
  /\ tick \in [step : {"idle", "probing", "written", "stamped"}, at : Times,
               read : SUBSET Computers, was : SUBSET Computers, alive : SUBSET Computers]
  /\ watch \in [step : {"idle", "sending"}, seen : SUBSET Alerts, unsent : SUBSET Alerts]
  /\ previousIds \in SUBSET Alerts /\ lastSeen \in SUBSET Alerts
  /\ announced \in SUBSET Alerts /\ repeated \in SUBSET Alerts
  /\ again \in SUBSET Alerts /\ lapsed \in SUBSET Alerts

Init ==
  /\ now = 1 /\ faults = 0
  /\ entry = [c \in Computers |-> "absent"]
  /\ online = {} /\ torn = {}
  /\ changedAt = [c \in Computers |-> 0] /\ failedAt = [c \in Computers |-> 0]
  /\ history = {}
  /\ tick = IdleTick
  /\ watch = IdleWatch
  /\ previousIds = {} /\ lastSeen = {} /\ announced = {} /\ repeated = {}
  /\ again = {} /\ lapsed = {}

Present == {c \in Computers : entry[c] = "present"}

Clock ==
  /\ now < MaxTime
  /\ now' = now + 1
  /\ UNCHANGED <<faults, failedAt, pings, pushes>>

Fault == faults < MaxFaults /\ faults' = faults + 1

-----------------------------------------------------------------------------
(* Rows of ip_entries and agent_jobs.                                      *)

\* insertIpEntry: a new row is offline and has never changed.
CreateEntry(c) ==
  /\ entry[c] = "absent"
  /\ entry' = [entry EXCEPT ![c] = "present"]
  /\ UNCHANGED <<now, faults, online, changedAt, history, tick, torn, failedAt, pushes>>

DeleteEntry(c) ==
  /\ entry[c] = "present"
  /\ entry' = [entry EXCEPT ![c] = "deleted"]
  /\ UNCHANGED <<now, faults, online, changedAt, history, tick, torn, failedAt, pushes>>

\* completeJob with 'failed' sets completed_at = NOW() in the same statement.
JobFails(c) ==
  /\ c \in Present /\ failedAt[c] = 0
  /\ failedAt' = [failedAt EXCEPT ![c] = now]
  /\ UNCHANGED <<now, faults, pings, pushes>>

-----------------------------------------------------------------------------
(* pingService.                                                            *)

TickStep(from, to) == tick.step = from /\ tick' = [tick EXCEPT !.step = to]

Changed == (tick.was \ tick.alive) \cup (tick.alive \ tick.was)

\* Ticks follow each other at an interval; `now` is taken once, at the start.
TickRead ==
  /\ tick.step = "idle" /\ now > tick.at
  /\ tick' = [step |-> "probing", at |-> now, read |-> Present, was |-> online \cap Present,
              alive |-> {}]
  /\ UNCHANGED <<now, faults, entry, online, changedAt, history, torn, failedAt, pushes>>

\* The probes, and the UPDATE of is_online.  It changes the rows that still exist.
TickWrite ==
  /\ tick.step = "probing"
  /\ \E alive \in SUBSET tick.read :
       /\ tick' = [tick EXCEPT !.step = IF alive = tick.was THEN "idle" ELSE "written",
                               !.alive = alive]
       /\ online' = (online \ (tick.read \cap Present)) \cup (alive \cap Present)
  /\ UNCHANGED <<now, faults, entry, changedAt, history, torn, failedAt, pushes>>

\* UPDATE last_status_change.
TickStamp ==
  /\ TickStep("written", "stamped")
  /\ changedAt' = [c \in Computers |-> IF c \in Changed \cap Present THEN tick.at ELSE changedAt[c]]
  /\ UNCHANGED <<now, faults, entry, online, history, torn, failedAt, pushes>>

\* Mutant: the time of the record.
TickRecordNow ==
  /\ TickStep("stamped", "idle")
  /\ history' = history \cup
       {[of |-> c, online |-> c \in tick.alive, at |-> now] : c \in Changed \cap Present}
  /\ UNCHANGED <<now, faults, entry, online, changedAt, torn, failedAt, pushes>>

\* insertStatusHistoryBulk.
TickRecord ==
  /\ TickStep("stamped", "idle")
  /\ history' = history \cup
       {[of |-> c, online |-> c \in tick.alive, at |-> tick.at] : c \in Changed \cap Present}
  /\ UNCHANGED <<now, faults, entry, online, changedAt, torn, failedAt, pushes>>

\* What is lost of a tick that ends where it is.
Unrecorded == IF tick.step \in {"written", "stamped"} THEN Changed ELSE {}

\* A statement fails and the error is logged.  One row of a deleted entry may
\* fail the whole bulk INSERT, with the rows of all others: the schema is not in
\* the repository, but dbCleanup.repo.js speaks of this column as a foreign key.
TickFails ==
  /\ tick.step # "idle"
  /\ \/ Fault
     \/ tick.step = "stamped" /\ ~ Changed \subseteq Present /\ UNCHANGED faults
  /\ torn' = torn \cup Unrecorded
  /\ tick' = [tick EXCEPT !.step = "idle"]
  /\ UNCHANGED <<now, entry, online, changedAt, history, failedAt, pushes>>

-----------------------------------------------------------------------------
(* pushNotificationWatcher.                                                *)

\* listNotifications, for two of its twelve counts.
Active ==
  {a \in Alerts :
     \/ a = "offline" /\ Present \ online # {}
     \/ a = "failed-jobs" /\ \E c \in Computers : failedAt[c] # 0 /\ failedAt[c] + Day >= now}

\* Mutant: the ids are remembered before anything is sent.
WatchReadEarly ==
  /\ watch.step = "idle"
  /\ watch' = [step |-> "sending", seen |-> Active, unsent |-> Active \ previousIds]
  /\ previousIds' = Active
  /\ lastSeen' = Active
  /\ announced' = announced \cap lastSeen \cap Active
  /\ UNCHANGED <<now, faults, failedAt, pings, repeated, again, lapsed>>

WatchRead ==
  /\ watch.step = "idle"
  /\ watch' = [step |-> "sending", seen |-> Active, unsent |-> Active \ previousIds]
  /\ lastSeen' = Active
  /\ announced' = announced \cap lastSeen \cap Active
  /\ UNCHANGED <<now, faults, failedAt, pings, previousIds, repeated, again, lapsed>>

Push(a) ==
  /\ announced' = announced \cup {a}
  /\ repeated' = repeated \cup ({a} \cap (announced \ again))

\* sendPushToAll: a device that cannot be reached is left out.
WatchSend(a) ==
  /\ watch.step = "sending" /\ a \in watch.unsent
  /\ watch' = [watch EXCEPT !.unsent = @ \ {a}]
  /\ Push(a)
  /\ UNCHANGED <<now, faults, failedAt, pings, previousIds, lastSeen, again, lapsed>>

\* Mutant: the next tick is not scheduled.
WatchEndStuck ==
  /\ watch.step = "sending" /\ watch.unsent = {}
  /\ previousIds' = watch.seen
  /\ UNCHANGED <<now, faults, failedAt, pings, watch, lastSeen, announced, repeated, again, lapsed>>

WatchEnd ==
  /\ watch.step = "sending" /\ watch.unsent = {}
  /\ previousIds' = watch.seen
  /\ watch' = IdleWatch
  /\ again' = {} /\ lapsed' = lapsed \cap watch.seen
  /\ UNCHANGED <<now, faults, failedAt, pings, lastSeen, announced, repeated>>

\* A statement of sendPushToAll fails, before the push has gone or after it;
\* previousIds stays what it was.
WatchFails ==
  /\ watch.step = "sending" /\ watch.unsent # {}
  /\ Fault
  /\ watch' = IdleWatch
  /\ \/ \E a \in watch.unsent : Push(a)
     \/ UNCHANGED <<announced, repeated>>
  /\ again' = again \cup (watch.seen \ previousIds)
  /\ lapsed' = lapsed \cup (previousIds \ watch.seen)
  /\ UNCHANGED <<now, failedAt, pings, previousIds, lastSeen>>

-----------------------------------------------------------------------------
\* The backend restarts: the ticks under way end, previousIds is empty.
Restart ==
  /\ Fault
  /\ torn' = torn \cup Unrecorded
  /\ tick' = [tick EXCEPT !.step = "idle"]
  /\ watch' = IdleWatch
  /\ previousIds' = {} /\ lastSeen' = {} /\ announced' = {}
  /\ again' = {} /\ lapsed' = {}
  /\ UNCHANGED <<now, entry, online, changedAt, history, failedAt, repeated>>

PingNext == TickRead \/ TickWrite \/ TickStamp \/ TickRecord \/ TickFails
WatchNext == WatchRead \/ WatchEnd \/ WatchFails \/ \E a \in Alerts : WatchSend(a)

Next ==
  \/ Clock \/ Restart \/ PingNext \/ WatchNext
  \/ \E c \in Computers : CreateEntry(c) \/ DeleteEntry(c) \/ JobFails(c)

\* The watcher schedules its next tick in a finally block, and a statement
\* that was sent succeeds or fails.
Fairness == WF_vars(WatchRead) /\ WF_vars(WatchEnd) /\ WF_vars(\E a \in Alerts : WatchSend(a))

Spec == Init /\ [][Next]_vars /\ Fairness

-----------------------------------------------------------------------------
(* Properties.                                                             *)

Rows(c) == {h \in history : h.of = c}
Newest(c) == CHOOSE h \in Rows(c) : \A g \in Rows(c) : g.at <= h.at
Settled == {c \in Present \ torn : c \notin Unrecorded}

\* The period that buildPeriods shows without an end is the current status,
\* from the time it changed: three statements without a transaction agree as
\* soon as a tick has run to its end, unless one of them failed.
CurrentPeriodIsStatus ==
  \A c \in Settled :
    IF Rows(c) = {} THEN c \notin online /\ changedAt[c] = 0
    ELSE Newest(c).online = (c \in online) /\ Newest(c).at = changedAt[c]

\* Consecutive rows of the history are changes: buildPeriods pairs each row
\* with the next one and never shows two online periods in a row.
PeriodsAlternate ==
  \A c \in Settled : \A g, h \in Rows(c) :
    g.at < h.at /\ g.online = h.online => \E f \in Rows(c) : g.at < f.at /\ f.at < h.at

\* What the uptime view shows of a computer is its status and its changes, and nothing else.
HistoryIsSound == CurrentPeriodIsStatus /\ PeriodsAlternate

\* An alert the watcher takes for known has been pushed since it appeared,
\* whatever push fails and whenever the backend restarts: the ids are
\* remembered after the last push.  The exception is an alert that was gone in
\* a failed tick only, and is back.
KnownMeansPushed == watch.step = "idle" => previousIds \subseteq announced \cup lapsed

\* While it persists, an alert is pushed once, and again only if the tick that
\* pushed it failed after that.
PushedOnce == repeated = {}

\* Every alert is pushed when the watcher takes it for known, and not again.
KnownIsPushedOnce == KnownMeansPushed /\ PushedOnce

\* An alert that persists is pushed.
PersistentAlertIsPushed ==
  \A a \in Alerts : <>[](a \in Active) => []<>(a \in announced \cup lapsed)
=============================================================================
