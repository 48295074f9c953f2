# NetDesk: TLA+ specifications and proofs

NetDesk is a remote monitoring and management system for the Windows computers of an organisation. A
Node/Express backend keeps everything in MySQL and serves a Vue frontend; on every computer a C# service
(the agent) polls the backend, and a second one (the Manager) controls and replaces the first. This
directory holds TLA+ models of the parts in which several of these actors meet, the TLC configurations that
check them on small instances, and TLAPS proofs about the models for every value of their constants.

Run everything in this directory: `tlc -config MCAgentJobs.cfg MCAgentJobs`, `tlapm AgentJobsProofs.tla`.

## 1. The system

### 1.1 Actors and how they interact

| actor | runs as | talks to |
|---|---|---|
| backend | one Node process, Express handlers and a few timers, MySQL pool | everyone, always as the server |
| frontend | a browser page per administrator | the backend by HTTP; two WebSockets for remote control |
| agent (`NetdeskAgent`) | one Windows service per computer, one loop | the backend by HTTP polling; the Manager through a mailbox file |
| Manager (`NetdeskAgentManager`) | one Windows service per computer, one loop | the backend by HTTP polling; the service control manager; the disk |
| bridge processes | `VncBridge` (in the agent), `WebRtcBridge.exe` (in the user's session) | the backend by WebSocket |

Three facts shape every model:

* **The backend has no locks and few transactions.** Node runs one handler at a time, but every `await` of a
  query lets any other handler run. One SQL statement is one atomic step; a handler is a sequence of them,
  and everything a handler has read is stale at its next statement. Only the metadata service uses a
  transaction.
* **Handlers outlive their clients.** A client that gives up after its timeout does not stop the handler,
  so one agent may have two polls in progress.
* **Clients keep almost everything in memory.** The jobs of a reply, the command in the Manager's hands and the
  collected log entries are gone after a restart; a key, a bookmark file and the staging directory are on disk.

### 1.2 Components

State, operations, and what must hold. "→" names the modules.

| component | state | operations | what must hold |
|---|---|---|---|
| Agent command queue | `agent_jobs` rows; the reply in an agent's memory | create, create a batch, poll (select, mark, reply), cancel, clear, report | a command runs at most once; a recorded outcome is what the agent observed; a cancellation counts → `AgentJobs` |
| Remote-control sessions | `vnc_sessions` row; the two in-memory maps of the WebSocket servers; the page; the bridge processes | start, stop, connect, relay, fall back from WebRTC to RFB, time out | an ended session stays ended; active means relayed; the page redials only when the job exists; every session ends → `VncSessions` |
| Releases | `agent_releases`, `agent_release_groups`, packages on disk | upload, activate, retarget, delete, offer, download | an active release has its package → `Releases` |
| Agent update | install and staging directories, `manager-command.json`, service state, `agents.agent_version` | check, download, extract, hand off, stop, replace, start, report | files change only while the service is stopped; an update is newer; success is real; the service comes back → `AgentUpdate` |
| Manager channel | `manager_jobs`, `managers` | enrol, heartbeat, poll, cancel, revoke, report | as the agent queue, and a reply is worked through → `ManagerJobs`; the pairing of Manager and agent → `Identity` |
| Agents and enrolment | `agents`, the key on disk, deployment groups | enrol, heartbeat, revoke, delete, link to an ip entry, list, select all, filter | a revoked agent is refused everywhere → `AgentJobs`; one entry per computer → `Identity`; the list, its options and figures agree → `AgentTable` |
| Inventory sync, metadata | hardware, software, services, drivers, updates, printers of a computer; `metadata` | one sync of an agent writes all of them in parallel | what a sync has stored stays until it is replaced; a list is never older than its successor; one row of metadata → `InventorySync` |
| Event logs, DNS logs, process detections | log tables; bookmark file; capture counters | collect, post, store, purge | what was collected is stored once; a count is never lost; an exempt computer is spared → `AgentTelemetry` |
| Domain blacklist | `flagged_domains`, the round over the feeds | synchronise, add, remove, match, page | what the feeds name is listed and marked, rules entered by hand stand → `DnsBlacklist`; the page shows the list → `BlacklistPage` |
| Ping loop, status history | `ip_entries.is_online`, `last_status_change`, `ip_status_history` | probe, write, record | the history says when the status changed → `Monitoring` |
| IP entries | `ip_entries` | create, edit, delete, list, count, recommend, export | the list, its counters and pages and the other lists describe the same rows → `IpEntries` |
| IP entries: forms and ports | a form with its requests; lists of groups; the sockets of a scan | open, type, save, add and delete a group; scan | a form changes what was typed; a group in use is listed → `EntryForms`; every port has one result → `PortScan` |
| Notifications and push | the alerts computed from the tables; the set already pushed; `push_subscriptions` | compute, push, subscribe in several tabs, unsubscribe | an alert is pushed once → `Monitoring`; a lit bell means pushes → `PushSubscription`; a figure is what its link lists → `IpEntries`, `PdsuAnalytics`, `AgentTable` |
| Daily report | `daily_reports` | one report per site and day | consecutive periods cover every event once → `DailyReports` |
| Users and login | `users` | create, change role, delete, log in (and upgrade an old hash) | an administrator remains; the password that was chosen stands → `Accounts` |
| Flagged software, services, drivers | rules and exceptions | add, remove, except, apply | every place that applies them treats them alike → `FlaggedItems` |
| Printers | `printers`, `printer_connected_computers` | create, edit, delete, host, connect, disconnect, list, export | the flag repeats the connections; list, details and export agree → `Printers` |
| Analytics and reports | reads the five inventory tables | statistics, lists, search, export | two queries about the same rows agree → `PdsuAnalytics` |
| Frontend: session | the token, the current user of a tab | log in, navigate, expire, redirect | the user shown is the session's → `UserSession`; the page asked for is reached, with its site → `Navigation` |
| Frontend: lists and pages | filters, page, address, requests in flight, selection | search, page, navigate, change, confirm | what is shown is what is chosen; a command goes where it was confirmed for; unfinished commands are followed → `AgentList`, `JobPages`, `ConsoleViews` |
| Spare parts, app settings, activity log, request metrics, downloads folder | rows or statistics | single writes and reads | the requests of their pages → `ConsoleViews`; the rest is not modelled, section 15 |

`PROJECT.json` lists the same components with their source files, and under `hazards` each place at which
the code is exposed to what a test would hardly reach, with the property that covers it and the exceptions the property makes.

## 2. The agent command queue: `AgentJobs`, `CommandQueue`

`AgentJobs.tla` models the life of a remote command. Its variables are the two tables (`agentStatus`;
`jobStatus`, `jobAgent`, `inBatch`, `nextId` of `agent_jobs`), the progress of the handlers in the backend
(`creating`, `batch`, `pollPc` with the ids it has selected in `pollIds`, `result`), the state of the agent service
(`client`, `awaited`, `queue`, `current`), what really happened (`outcome`, `runs`), and two history
variables (`delivered`, `lost`).

| code | actions |
|---|---|
| `createJob`, `createBatch` | `CreateCheck` then `CreateInsert`; `BatchStart`, `BatchCheck`/`BatchInsert` per agent, `BatchEnd` |
| `cancelJob`, `cancelBatch`, `clearAgentJobs`, revocation, deletion | one guarded statement each |
| `GET /agents/jobs` | `StartPoll` (authentication), `PollSelect`, `PollMark` (the UPDATE of `markJobsSent`), `PollReply` |
| `DoJobsPollAsync`, `ProcessJobAsync` | `Execute`, `JobThrows`, `SendResult`, `ResultLost`, `ReportDone` |
| `submitJobResultService` | `ResultCheck` then `ResultComplete` |
| timeouts and restarts | `PollTimeout`, `ReportTimeout`, `AgentRestart`, `BackendRestart` |

A poll whose client has given up goes on; its reply is then read by nobody (`Awaits`). `CommandQueue.tla` says
what the queue promises without any of this: a command is handed over once, and run at most once after that.
`Queue == INSTANCE CommandQueue WITH ...` maps the inserted rows, `delivered` and `runs` to it.

**What the checks and proofs show.** `AtMostOnce` (a theorem; TLC checks it as part of the refinement): no command runs twice although the UPDATE of a poll is not
conditional; the reason is that a row never becomes `pending` again and only one reply is awaited.
`LivePollHoldsNoFinishedJob` (a theorem) states how far the missing condition can do harm: only through a poll that
was abandoned. `RecordedOutcomeIsReal` and `ResultNeverOverwritesCancel` are about the other side, where the
UPDATE of `completeJob` does have a condition. `EarlyCancelIsEffective`: a cancellation before the first SELECT is
final. **Found:** `CancelledStaysCancelled`, which the comment of `cancelJob` states, is violated: between the SELECT
and the UPDATE of a poll a cancelled row goes back to `sent`, is executed, and its result is recorded.

**Fairness.** A started handler gets its statements done; the agent's loop polls, executes and reports, because
its loop catches every exception and ticks again. Time-outs, losses, restarts and administrators may happen or
not; the backend restarts only finitely often. Under this, `PendingIsPickedUp`, and `SentIsResolvedOrLost`: a
job stays in `sent` for ever only when its reply or result was lost: nothing in the code expires it.

## 3. Remote-control sessions: `VncSessions`

One session: its row, the entries of `vncRelay` (`relay`) and `webrtcSignaling` (`sig`), the page and its two sockets,
one `VncBridge` per `start_vnc_bridge` job, one `WebRtcBridge` process. A socket the server closes is `closing`
until its close event arrives, and that event closes whatever entry the session has by then, as in the code.
`triggerFallback` is a sequence (`FallbackMark`, `FallbackJob`, `FallbackNotify`, or `FallbackError` where
`.catch(() => {})` swallows a failed statement), and up to four reporters start it: the failed job, the bridge process,
the same process while it closes, and the browser. How a job gets to the agent is left to `AgentJobs`; here it may arrive
at any time or never.

`EndedStaysEnded`, `ActiveHasRelay` (a row says active only with a relay entry, unless a restart or a swallowed
error), `RedialAfterJob` (the order the comment of `triggerFallback` argues for), and, under weak fairness of the
30-minute timer and of the UPDATE that was sent (and of nothing else: no page, agent or socket has to act), `RelayedSessionEnds`. **Found:** the comment that a second
call of the fallback is harmless does not hold: `SecondFallbackIsHarmless` is violated by two bridges that stream into one
session. Deadlock is not checked: a session comes to its end.

## 4. Releases and agent update: `Releases`, `AgentUpdate`

`Releases.tla` is the catalogue as one agent sees it: rows, packages, targets, and for each release the statements that
the requests under way have still to do, in any interleaving and with any of them failing. `AgentUpdate.tla`
EXTENDS it with one computer: the agent (`service`, `process`, `task`), its staging directory, the mailbox, the Manager
(`held`), the install directory, and `column`, the version the server has stored and compares with.

| code | actions |
|---|---|
| `uploadReleaseService`, `setReleaseGroupsService`, `setReleaseActiveService`, `deleteReleaseService` | `UploadWrite`/`UploadInsert`/`InsertGroups`, `DeleteGroups`/`InsertGroups`, `SetActive`, `DeleteCheck`/`DeleteRow`/`Unlink`, and `RequestFails` between any two |
| `UpdateManager`: check, download, extract, hand off | `CheckUpdate`, `Download`, `StartExtract`/`EndExtract`, `Drop`, `HandOff`, `Finish` |
| `AgentWorker`: heartbeat, jobs, stop | `Heartbeat`, `TakeForce`, `ControlJob`, `AgentStops` |
| `ManagerWorker`: read the mailbox, delete it, stop, wait, remove, copy, start, report | `Dequeue`, `DeleteCommand`, `StopService`, `AwaitStop`, `StopFails`, `DeleteInstall`, `Copy`, `StartService`, `Report` |
| the Manager's own channel | `ChannelControl`, `ChannelInstall` |
| crashes | `ManagerRestarts`, `ComputerRestarts` |

What the model assumes: version strings are numbers, because only their order matters; the label of a
release is the version its binaries report; a request is handled before the process that sent it is replaced; a
truncated package or a hash or signature that does not match is a `Drop`; the Manager is installed; start modes are left
out (after a restart of the computer the service starts if the files allow it); a release is force-installed at most once.

`FilesOnlyWhileStopped` and `SuccessMeansInstalled` are about the Manager, the agent, crashes and a mailbox that is
overwritten at any time. `AutoUpdateIsNewer` says that what an agent is offered, and works at until it hands it over, is newer
than the process that works at it, although the server compares with a column that a late report may have changed. It does
not say that the Manager never goes back: a command that waits in the mailbox is installed after a newer release that came over
the Manager's channel meanwhile (section 12). `ActiveHasPackage` depends on the order of file operations and statements, and on
what two requests about one release do to each other: a release that is activated between the check and the DELETE.
`SuccessMeansInstalled` excepts an extraction that was cut short (`torn`): the staging directory that a waiting command
names may be under renewal. `ServiceComesBack`, under the fairness of the Manager's loop (it survives every exception)
and of `OnStop` (it waits ten seconds and lets the process end), excepts a failure that is reported and a crash.
**Found:** a failed update leaves a partial install directory, there is no rollback (`FailedUpdateRollsBack`). Two
more disagreements are in the model without a run of their own: a reinstallation whose download failed is reported as
forwarded (section 12), and `DeleteCommand` removes whatever lies in the mailbox by then, also a command that the Manager
has not read. Deadlock is
not checked: a stopped agent that nobody starts stays stopped.

## 5. Ping loop and push watcher: `Monitoring`

Two loops of the backend over the same rows. `pingService` probes every address of `ip_entries` and, when a status
has changed, writes it with three statements and no transaction; `pushNotificationWatcher` computes the alerts
and pushes those it did not see a tick ago. `tick` and `watch` say where each loop is and what it has read.

| code | actions |
|---|---|
| `tick` of `pingService.js` | `TickRead`, `TickWrite` (the probes, and the UPDATE of `is_online`), `TickStamp` (`last_status_change`), `TickRecord` (the history), `TickFails` between any two |
| `tick` of `pushNotificationWatcher.js` | `WatchRead` (`listNotifications`), `WatchSend` (one `sendPushToAll`), `WatchEnd`, `WatchFails` |
| rows and the clock | `CreateEntry`, `DeleteEntry`, `JobFails`, `Clock`, `Restart` |

Of the twelve alerts two are modelled: "offline" comes and goes with the ping loop, "failed-jobs" ends when a day has
passed; the other ten are counts of other tables in the same `Promise.all` (seven of these figures are compared with the
lists they link to in `IpEntries`, `PdsuAnalytics` and `AgentTable`). `HistoryIsSound` has two parts. `CurrentPeriodIsStatus` relates
the three statements: what `buildPeriods` shows as the current period is the status column, since the time the
other column names. `PeriodsAlternate` says the history is one of changes. Both except the computers whose change a
failed tick left unrecorded (`torn`); without the exception they are violated, because nothing repairs the
history later. One way to such a failure needs no fault of the database: an entry deleted during the tick
may fail the bulk INSERT for all others. `KnownMeansPushed` and `PushedOnce`, the parts of `KnownIsPushedOnce`, are the two sides of the comment of the watcher ("a
push should only fire once per alert appearing"), with the two exceptions that a failed tick makes: a push that
was sent already may be repeated (`again`), and an alert that was gone in the failed tick only is not pushed when it returns
(`lapsed`).

**Fairness.** Only of the watcher: its `finally` schedules the next tick whatever happens, and a statement that was sent
succeeds or fails. Under it `PersistentAlertIsPushed`. The ping loop and the administrator may stop at any time.

## 6. What the agent observes: `AgentTelemetry`

One agent, its loop, and the tables its batches end in. `loop` is what `RunAsync` does at the moment; an activity is
collected (`Collect`, `StartDrain` ... `EndDrain`, `Scan`), sent (`Post`), and then stored, lost or given up. `first` holds the
activities not yet done since the service started: all of them are due then, in the order of the loop's tests, and after
that any of them may be due or not.

| code | actions |
|---|---|
| `EventLogCollector`, `EventLogBookmarks` | `Collect` (the bookmark moves at once), `CollectFails`, `StartSave` (the file is truncated), `EndSave` |
| capture thread of `DnsQueryCollector` | `CaptureNew` or `CaptureFind`, `CaptureCount` (`Count++` on the object), `CaptureReplace` (`TryUpdate`, or a new aggregate) |
| `Snapshot` | `StartDrain` (the keys), `DrainRemove`, `DrainRead`, `EndDrain` |
| `ProcessWatchCollector`, heartbeat | `Scan`, `Kill`; `StartHeartbeat`, `HeartbeatRead`, `HeartbeatReply`, `HeartbeatFails`; `SetExempt` |
| `POST /agents/inventory` | `Post`, `Ingest` or `IngestFails`, `Reply` or `GiveUp`; a handler outlives the client that gave up |
| service | `Restart`: memory is lost, `bookmark` is what the file says |

`PassedEventsAreAccounted` says the bookmark skips nothing by itself; `EventsStoredOnce` is the claim of the comment of
`insertEventLogsBulk`, with two handlers at work on the same events. The counters have no such key:
`CountsAreAccounted` is a conservation law from the wire to the table. The comment of `Snapshot` calls it atomic,
and it is not: when the capture thread holds the aggregate that is removed, its query is counted in it and once
more in the new one. `drains` counts these cases, and without it `CountsAreAccounted` is violated. `ExemptIsSpared` depends
on the order of the loop (the heartbeat before the first scan) and excepts what the agent cannot know (`excused`).
**Found:** `EventsSurviveOutage`: what is collected while the server cannot be reached is never sent, because the
bookmark has moved, and the next success saves it. No liveness is stated: it would say no more than the fairness of the loop.

## 7. What the server makes of it: `InventorySync`, `Identity`

`syncAgentInventory` first resolves the row of `ip_entries` (`Identity`) and then starts ten parts in a `Promise.all`
that find everything by that row (`InventorySync`). The two are separate modules because nothing flows back: the parts never
change which row it is.

`InventorySync.tla` is one computer. `handler` says where the list part and the metadata part of each request are, and what the
latter has read. A reading is named by its request, so that what is stored says where it came from.

| code | actions |
|---|---|
| `syncAgentInventory`, `POST .../metadata` | `StartSync` with its kind: a full inventory, one with nothing but events, queries or processes, or a posted one |
| `syncComputerSoftware` and the five like it | `DeleteList`, `InsertList`, `ListFails` |
| `patchMetadataForIpEntry` | `FindMetadata`, `ReadBase`, `ReadParts`, outside any transaction |
| `upsertMetadataForIpEntry` | `ReadMetadataId`, then `InsertMetadata`, `UpdateMetadata` or `UpdateMisses`; `MetadataFails` rolls back |
| `clearComputerPdsu`, `deleteMetadataForIpEntry` | `ClearPdsu`; `DetachMetadata` and `DeleteMetadata` (or `DeleteFails`), two statements |
| the server | `StopServer` |

The transaction is one step after the row has been looked for, because its other statements touch rows that nobody else
reads in between. A collector of the agent that fails leaves one field out of a full inventory; the merge treats that as in
a partial one. `StoredIsReported` has two parts. `LatestInventoryIsStored` is what the comment of `patchMetadataForIpEntry` promises,
for inventories that ran beside no other request; `ListIsCurrent` says what an overlap can leave behind (the union of two
lists) and what it cannot. What the model shows besides:

* The count of logical CPUs is no part of `LatestInventoryIsStored`: `metadata.repo.js:33` returns it as `cpuLogicalCpus`,
  `mapMeta` (`metadata.service.js:80`) reads `cpuLogicalCPus`, and every sync without hardware
  therefore erases it. `docs/TECHNICAL.md` says that a field which is not sent is left untouched.
* A clear that fails between its two statements leaves a row that no entry names, and later syncs update it without
  attaching it again (`attached` in the property).
* `clearComputerPdsu` also deletes the printers, which its comment says it deliberately does not.

`Identity.tla` is several computers and the rows of `ip_entries`, `agents` and `managers`. `address` is where DHCP has put a
computer; `reports` and `managers` say where each request is.

| code | actions |
|---|---|
| `enrollAgent`, `EnsureEnrolledAsync` | `EnrollAgent`: the reply may be lost, and the agent comes again |
| `resolveIpEntryId` | `StartReport` (the link is read when the request is authenticated), `UpdateEntry`, or `FindEntry`, `InsertEntry`, `LinkAgent` |
| `enrollManager`, `resolveManagerIpEntryId` | `EnrollManager`, `FindForManager`, `InsertForManager`, `LinkManager`, `ReplyToManager` |
| failures, DHCP, a lost state file | `ReportFails`, `EnrolmentFails`, `Move`, `LoseState` |

`LinkIsKept` and `EntryFollowsAddress` are the comment of `resolveIpEntryId`: a new address moves the row, not the agent.
`EntryIdentifiesComputer`, with `EntryFollowsAddress` a part of `RowsAreTheComputers`, is the comment of `findManagerByIpEntryId`: that the Manager and the agent resolve the same row
independently is all that connects them. The properties name the exceptions, each of which is needed: two requests of
a computer that look for its row at once (`raced`; only when the database allows an address twice), an address that another computer
has had before, and, for the Manager, which resolves its row once, a computer that moved before both had enrolled.

## 8. What administrators do on the server: `ManagerJobs`, `DailyReports`, `Accounts`, `Printers`

`MCConsole.tla` composes these and the modules of sections 9 and 10 for one run: they share no variable, `part` is chosen by
Init, and the others stand still.

**`ManagerJobs`** is the command channel of the Manager, which resembles that of the agent but for three things: its loop
catches each command's exception, so that a reply is worked through (`ReplyIsWorkedThrough`); a poll that times out ends the
round; and a Manager is revoked and deleted by statements of its own.

| code | actions |
|---|---|
| `createManagerJobService`, `cancelManagerJobService`, `revokeManagerService`, `deleteManagerService`, `EnsureEnrolledAsync` | `CheckCommand` then `InsertCommand`; `CancelCommand`; `RevokeManager`; `DeleteManager`; `EnrolManager` |
| `GET /managers/jobs` | `AskForCommands`, `SelectPending`, `MarkSent`, `ReplyCommands` |
| `DoJobsPollAsync`, `ExecuteManagerJobAsync` | `GiveUpAsking`, `ExecuteCommand`, `SubmitResult`, `SubmitFails`, `ResultAnswered` |
| `submitManagerJobResultService` | `CheckResult` then `CompleteCommand` |
| restarts | `RestartManager`, `RestartBackend` |

`ImplementsManagerQueue` is the same abstract specification as for the agent, `CommandQueue`, with another refinement mapping.
`WithdrawnNeverRuns` excepts commands that a poll has selected: `markJobsSent` has no condition here either.

**`DailyReports`** follows the scheduler, one site after the other, and items that are created, enrolled or joined with a
site at any time. `periodEnd` is taken before the queries (`BeginCycle`), `QueryItems` reads without an upper bound,
`InsertReport` writes, and `CycleFails` may happen anywhere. `NothingIsLostOrRepeated` has two parts: nothing falls
between two reports, with the exception of an item that gets its site after a cycle has begun (`late`: an agent that enrols
before the report and sends its first inventory after it is in neither); and what is in two of them happened at the border.

**`Accounts`** has each handler as its statements: `BeginLogin`, `Upgrade` and `FinishLogin`, `BeginChange` and `FinishChange`,
`BeginSetRole` or `BeginDelete`, `CountAdmins`, and `SetRole` or `DeleteUser`. `AnAdminRemains` and `ChosenPasswordStands`
except exactly the overlaps that the code does not exclude, which the variables `overlapped` and `undone` record.

**`Printers`** has the register, the connections and the flag `shared`, which connecting sets and disconnecting counts anew in
a statement of its own. `ConnectedIsShared` excepts a form that clears the flag, a connection after the count of a
disconnection, and a second statement that fails; `RegisterAgrees` compares the list, the details and the sheets of the
export. The foreign keys are not among the sources: they are taken to cascade or clear.

## 9. The browser: `UserSession`, `AgentList`, `JobPages`, `PushSubscription`, `ConsoleViews`

Code between two awaits is one step, with the watchers that Vue flushes after it; answers come in any order unless a
request is aborted; every request may fail.

**`UserSession`**: the token in `localStorage` that all tabs share, the guard of the router, the redirect of `fetchWithAuth` and
the user that `useCurrentUser` keeps. `ShownUserIsSession` excepts what the code does not exclude: another tab that replaces
the token, and an answer of `/auth/me` that outlives its session.

**`AgentList`**: `usePaginatedRoute` keeps filters and page as refs, in the query of the route and in the list on the screen;
the server chooses another page when the chosen one is gone; a selection spans pages, "select all" and "repeat a batch"
replace it. `ListIsInStep` says the three agree once nothing is on its way. `SentAsConfirmed`: what is sent after a dialog is what
the dialog named, except when an earlier request replaced the selection meanwhile (the handler reads it again).

**`JobPages`**: the commands of an agent and of a batch refresh by a chain of timers. `PollsWhileWatched` has five parts: an
unfinished command on the page is asked for again (also one the page has just sent), the indicator tells the truth,
requests do not multiply, and nothing is asked for a tab that is not shown. Each names the overlap it excepts.

**`PushSubscription`**: the subscription belongs to the browser, the bell to a tab, the row to the server, and a push to
everybody prunes rows that the push service calls gone. `BellMeansPush`: a tab at rest shows whether the browser is subscribed
(unless its operation failed or somebody else changed the subscription), and then the row is there.

**`ConsoleViews`** is every other page with data. A page is a record: what it asks for when it opens, when the site or the
search changes, when a timer fires, and what each of its changes asks for afterwards; each request says which refs it takes, what it
aborts and whether its failure ends the function. The rules are the same for all pages (`Serve`, `ShowAnswer`, `AbortError`,
`Fail`, `ChangeSite`, `ChangeSearch`, `RunSearch`, `Poll`, `Act`). `PageIsInStep`: once nothing is under way, every part of the page
shows what the server has for what is chosen, the page's own changes included. Excepted are parts whose requests overlapped
without a signal (`muddled`), which most pages allow.

What the table of pages leaves out: marking as read, reports by their id, the tools of the page of printers that ignore an
error status, and the forms. A search is a whole word; one tab stands for the five of the inventory of a computer; an
empty search does not abort an earlier one; a page of a list is a member of `Searches`.

## 10. The queries: `PdsuAnalytics`, `IpEntries`, `FlaggedItems`, `AgentTable`

Most of the backend is SQL, and most of its mistakes would be two queries that describe the same rows differently. These
modules have the tables with what changes them, every query as a set of rows or a function from groups to rows, and as
properties what the queries tell of each other, in every reachable state of the tables. `QueriesAgree` holds them together (in the run's `ShownAgrees`, with what the pages show).

| module | tables and their changes | queries and what must agree |
|---|---|---|
| `PdsuAnalytics` | five inventory tables, rewritten by syncs (`Report`, then `DeleteRows` and `InsertRows` per list), cleared, an entry that changes its type, the next day | the about thirty queries of the report, the lists behind them, the search and the export: coverage, totals, buckets of freshness and the list of stale computers, rare and common names, percentages, the two figures of the notifications |
| `IpEntries` | `ip_entries` with its edits and what pings, enrolment and syncs write into it | the list with its counters and pages, filter options, free addresses, computers without an agent, duplicates, recommendations, the export, three figures of the notifications |
| `FlaggedItems` | rules, exceptions, inventories; adding a rule is a check and an insert | the marks of a computer, the number on the first page, the agents a rule selects, the report's own comparison |
| `AgentTable` | agents with heartbeats that grow old, links, groups, Managers | the list and "select all", complementary filters, the options of the filters, connectivity as SQL and as the service computes it, the figures of the daily report and of the notifications; for the classes of connectivity only the sum of the figures, where a place has agents of several (section 12) |

LIKE is a relation between model values (`Within`), `LOWER` a function (`Key`), the date a number of days, a heartbeat an age in
half seconds. Left out: ORDER BY and LIMIT of lists that are only shown, columns that are only shown, filters on columns that
are treated like the modelled ones, the limit of 1000 ids of "select all", the fan-out of its join with metadata.

## 11. A site, an entry, its ports, the blacklist

Five modules (and `NumberOrder`, the ascending lists of two of them) about what one administrator does on one page while other tabs, agents and loops go on.

**`Navigation`** is one tab between its pages: the guard of the router (`GuardSession`, `GuardRole`, `GuardSite`, `GuardGuest`,
`GuardPasses`), the login, the choice of a site, and `localStorage`, which other tabs write too. An address is a page, a site and
the stops before it. `NavigationIsTrue`: a page that filters by site has one when it is mounted; the page that was asked for is reached
across login and choice; a tab keeps its site unless it has no say in it; a navigation ends after two redirects; a link
that is shown leads to its page.

**`EntryForms`** is the form that adds or edits an entry beside everything that writes the same row or its groups:
other forms, agents, releases. `SaveKeepsOthers` names what a form may change besides what was typed: a column that was written
since the entry was read, and everything if the entry never arrived. `UsedIsListed`: a group in use is not deleted, except
in the gap between the count and the DELETE, or when it was read before.

**`DnsBlacklist`** is the daily round of `syncDomainBlacklists`: four feeds (any part of what a feed names), the list in the code,
chunks of `INSERT IGNORE`, failures and restarts, the administrators' rules beside it, and the SQL that matches a
domain. Its properties: a failing source costs no other its turn and what the sources named is listed (`NamedIsListed`), a
rule entered by hand keeps its reason and a domain has one row (`EnteredStands`), and the six branches of the SQL mark exactly what is at or below a
rule of two to six labels (`MarksAreTrue`). **`BlacklistPage`** is the page over it: `fetchBlacklist` as two statements
and an answer that may correct the page, several calls in flight, additions and removals, others who change the table.
`ListIsThere`: at rest the number of the page is one the list has and its rows are there; the exceptions are named.

**`PortScan`** is `scanPorts`: what the field of the page names (`parsePorts`), the queue with its limit (`kick`), and each socket, whose
timers and error handlers of an earlier phase still stand in the next one. `ScanIsTrue`: every port waits, is probed or has one
result; the limit is used and kept; the scan ends; what is shown as open accepted the connection, and what accepted is shown,
except a service that broke the connection before it was heard or took more than 600 ms for its handshake.

## 12. Disagreements between the code and what it says

The runs marked "finding" in section 13 check four of them. The others were met while modelling; most are in the models as
the code has them, and the properties name them as exceptions.

*Commands and updates.* A reinstallation is reported as forwarded although nothing was sent (`AgentWorker.cs:743-751`).
`install_update` of a version whose job is older than 60 minutes is not found by `findRecentInstallUpdateJob`. Each
cancellation on the page of a batch adds a chain of refreshes (`BatchJobDetailView.vue:281`), and a timer whose
handle was overwritten goes on in a tab nobody watches, against the comment at `AgentDetailView.vue:1076`. An update that waits in
the mailbox (`ManagerCommandClient.cs:70`) is installed as it is after a newer release was installed over the Manager's channel: the
model begins to install the older one after fourteen steps. Nothing compares the versions again, and no text of the repository says so.

*Tables.* `countAgentsByConnectivity` (`agents.repo.js:571-590`) groups by `status`, which MySQL and MariaDB resolve to the column
`agents.status` and not to the alias: all active agents are counted in the class of one of them (an error with
ONLY_FULL_GROUP_BY), while the comment says the counts are always consistent with the filter (`CountsByConnectivity`).
`CountsAgree` therefore compares the figures of the classes with the filter only where all active agents are of one class, and their
sum otherwise; class by class the comparison is violated as soon as one agent is online and another is not. The
notification of agents that are offline counts active ones, its link lists revoked ones too. The connectivity of SQL and
of `computeConnectivityStatus` differ in the second after a threshold, which the comment at 122 says they mirror. A page
beyond the last is empty while the last is reported (`listAgents`); two active Managers, or two active agents, of one entry fan
out the lists (the comment at `ipEntries.repo.js:337` admits it). The group count of duplicates honours search and status, its
items do not. ORDER BY a column that is not unique with LIMIT may repeat or skip rows.

*Printers.* A connection after the count of a disconnection, a second statement that fails, and the form, which writes all columns
back, leave `shared` wrong; deleting a computer leaves it set. `clearComputerPdsu` deletes printers its comment spares
(`pdsu.service.js:285-299`).

*Rules.* Added after a check, a rule may be there twice; INSERT IGNORE of an exception hides that its rule is gone;
the report compares names exactly where all others look for a substring. A computer whose updates have no date is in no
bucket of freshness, but in the list of stale ones. `PDSUUpdates.vue:23-46` reads `between31And60Days`,
`between61And90Days`, `latestUpdateByComputer` and `staleUpdateComputers`, while the backend sends `days31To60`, `days61To90`,
`latestByComputer` and `staleComputers`: two buckets show 0 and two tables are empty. The coverage rounds to 100 percent
with one computer of 200 missing; the queries of one report are read at different moments.

*Pages.* Several pages do not abort an earlier request (`HomeView`, `MetadataView`, `PDSUAnalyticsView`, `InventoryView`);
`togglePendingRepack` adds to numbers that a refresh may have replaced; a failed list of computers keeps the list of the
old site; the list on disk of `AgentReleasesView` is not loaded again after an upload. Editing an entry writes all
columns of the form back. The bell stays lit without a row after a failed request and a reload, and an error status of the
request that unsubscribes is ignored.

*Entries.* The form of an entry whose request failed is empty and can be saved. The field of a scan says that empty means the default list
(`IpPortScanView.vue:19`); it means all 65535 ports, and a range without a port in it stands for the nearest one. The last page of
the blacklist is corrected in its number but not read again. A rule of one label, or of more than six, marks only its own domain.

*Accounts.* An "admin" may demote itself beside another administrator: nobody passes `requireRootAdmin` then, against the comment
at `users.service.js:34`.

## 13. Runs

The bounds are the CONSTANTS of each .cfg; every one of them limits how often something happens, never what may follow it.

| run | configuration | shows | why the bound is enough |
|---|---|---|---|
| `agent_jobs` | `MCAgentJobs` | safety and refinement of the queue | 2 polls overlap; a third poll would repeat what an abandoned one does. 2 jobs: one reply with two, or one each. Agents share nothing but the batch: 1 agent. Symmetry on polls |
| `agent_jobs_live` | `MCJobsAndPages` | liveness of the queue, and `PartsAreSound`: the five modules of section 11; `part` chooses one of the six | 1 job, 2 polls, no symmetry; a second job adds only waiting. The others below |
| `agent_jobs_cancel` | `MCAgentJobsCancel` | finding | the shortest trace needs one job and one poll |
| `vnc` | `MCVncSessions` | safety of a session, and that it ends | 2 bridges and 2 fallbacks: the first pair that can meet; one fault (`NoFaultYet`), a restart or a failed statement: most properties except both, so a second one excuses nothing new; bridges are numbered in the order of their jobs, so no symmetry is needed |
| `vnc_fallback` | `MCVncSessionsFallback` | finding | 2 bridges |
| `update` | `MCAgentUpdate` | safety of the catalogue and of an update | 2 releases with versions 1 and 2: newer and older; a request, a job and a crash at every point. At first no release is inactive (`MCInit`), which the next run makes up for |
| `update_live` | `MCAgentUpdateLive` | the service comes back; an active release has its package | 1 release, which is absent, active or inactive at first, and 2 requests: a deletion and an activation that overlaps it, an upload and what follows it. What requests do to one release does not depend on another |
| `update_rollback` | `MCAgentUpdateRollback` | finding | 1 release, 1 job |
| `agent_data` | `MCAgentData` | safety of what agents send; `part` chooses one of three modules, which share no variable | `AgentTelemetry`: 2 events and pages of 1: a second cycle, and a batch that is sent again; 2 queries of one domain: the second meets the aggregate of the first; or 1 query and 1 match: both share the loop; 2 requests overlap; 1 restart. `InventorySync`: 2 requests, one after the other or overlapping, and 3 failures, stops or clears. `Identity`: 2 computers, one of them on the network; 2 changes of an address: it moves, or its address goes to the other; 2 inventories: a first and a second, or two at once; 3 rows: one entered by hand, one for each computer |
| `telemetry_outage` | `MCAgentTelemetryOutage` | finding | as for `AgentTelemetry` above |
| `monitoring` | `MCMonitoring` | safety and liveness of the two loops | 2 computers: one changes and the other does not, one is deleted while the other is probed; two instants of the clock, so that a status can change, change back and an alert can expire; 1 fault at any point |
| `console` | `MCConsole` | sections 8 to 10; `part` chooses one of thirteen modules | below |

The bounds of `console`, part by part. *manager*: `MaxCommands` = 2 (a reply with two), `MaxFetches` = 2 (an abandoned poll and the
next). *reports*: two sites, `MaxHour` = 6 with days of 2 hours (three reports of a site: an item in two, and never in a third),
one item, one failure. *accounts*: the root and one other, two passwords, two requests. *session*: two people, two requests in
flight (a late answer beside a new one). *list*: two agents, one to a page (`MCMatches`: a filter that finds both and one that finds one), one
agent that may go (`MayGo`), one request about the selection (`MaxOut`). *pages*: `MaxPresses` = 2. *push*: two tabs and
`MaxEndpoints` = 2 (the subscription that goes, the one that comes). *views*: all 24 pages, two sites, two searches, `MaxRequests` = 2
when somebody asks, `MaxMoves` = 2 changes, `MaxLost` = 1 failure. *analytics*: three computers of two sites, of which
`Reporting` syncs and `Editable` changes its type; rows for every condition of the queries (`MCFindings`); days at
the borders of 30, 60 and 90 (`LastDay` = 91). *entries*: three entries, four addresses, `MaxEdits` = 2, pages of 2 (`Limits`). *flagged*: two
kinds, two names one within the other, two machines, `MaxRules` = 2. *fleet*: three agents, two entries of two sites,
`MaxChanges` = 2, and `Ages` at and after both thresholds, with the half second between them. *printers*: one printer, two computers,
two requests at once of `MaxHandled` = 3. Deadlock is not checked where a bounded history ends.

The parts of `agent_jobs_live`. *tab*: three `Places` (one filters by site, one does not, one is refused to a role), two roles, `MaxMoves` = 4
of the user and of other tabs: a login on the way, a choice, and a change of the token or the remembered site in
between. *forms*: two names, `MaxWrites` = 3 by users and agents: count, use, delete. *list*: two sources and chunks of 2, so that one
chunk and part of another meet a failure; domains of one, two, six, seven and eight labels; two rounds and `MaxChanges` = 2.
*page*: three domains (two pages can go at once), a search that finds one, pages of 1, two calls in flight, `MaxEvents` = 3. *ports*: four ports, one with a handshake,
two at a time, two scans. The fairness is that of `AgentJobs` (`JobsFairness` restates it for the part that moves).

Each property of a passing run is also broken by a plausible bug (the operators commented as mutants next to the code
they change): the status condition dropped from an UPDATE, a package removed before its row, the two halves of a
handler exchanged, a copy that stops half way, a border one day early, and so on.

## 14. Proofs

The proof modules keep the same layout: an inductive invariant as a conjunction of named parts, one lemma per
group of actions, the consequences, and the temporal theorem by `PTL`.

**`AgentJobsProofs`** proves, from `JobsAssumption` only (any number of agents, jobs and polls): `TypeCorrect`,
`ExecutedAtMostOnce`, `RecordedOutcomes`, `LivePolls`, `ResultsRespectCancel`, and `Refinement` (`Spec => Queue!CQSpec`).
`AtMostOnce` is not inductive: the argument needs that what the agent holds was delivered and is no longer pending
(`DeliveredIsNotPending`), that the reply an agent awaits brings only jobs never delivered (`AwaitedReplyIsNew`), that a
job in the queue has not run and the one in hand has run once (`QueueIsFresh`, `RunsAreReal`), that a result that
arrives comes from a run (`ReportsAreReal`), that a poll holds rows of its own agent (`PollsHoldOwnRows`) and that
rows above the counter are absent (`IdsInOrder`). The conjunction of these with `TypeOK` is `IInv`.

**`AgentUpdateProofs`** proves, from `ReleasesAssumption` and `AgentUpdateAssumption` (any releases, versions and
bounds, and any catalogue at first): `TypeCorrect`, `ActiveReleasesHavePackages`, `UpdatesAreNewer` (when offered, see
section 4), `SuccessIsReal` and `FilesAreSafe`. The parts of
its invariant: a package outlives its row (`PackageOutlivesRow`: while the removal of a file is pending the
row is gone); tasks name uploaded releases (`TasksAreReal`); commands go with their steps (`CommandsAreOrderly`); a
staging directory that is not whole is being written or was torn (`StagingIsSound`); after the copy the directory holds the
command's version (`CopyIsInPlace`), before it the service is stopped (`ProcessIsInstalled` ties the process to the files);
the server's column and the running version (`ColumnIsKnown`, `AutoUpdateIsNewer`).

**`MonitoringProofs`** proves, from `MonitoringAssumption` (any set of computers, any clock, day and number of faults):
`TypeCorrect`, `KnownAlertsWerePushed`, `AlertsArePushedOnce` and both together `KnownPushedOnce`; `CurrentPeriods`,
`HistoryAlternates` and both together `HistorySound`. The two loops
share no variable that one of them writes and the other relies on, so the invariant has a half for each. For the watcher:
what a tick has seen and need not send any more was announced (`WatchIsSound`), what is known between ticks was
pushed (`KnownIsPushed`). For the ping loop: a tick has its own instant (`RowsArePast`), so that a computer has one row for
each (`RowsAreUnique`); and what the columns and the history say of a computer at each step of a tick (`TickIsOfRows`,
`TickAgrees`), because between the three statements neither the current period nor the alternation holds by itself.

**`AgentDataProofs`** treats the three modules of the run `agent_data`. Of *telemetry* it proves, from `TelemetryAssumption`
(any domains, page size and bounds), `TypeCorrect`, `PassedEvents`, `EventsOnce` and `ExemptComputersAreSpared`. The events need that the file, the memory and the log are in
order (`BookmarksInOrder`), that only a batch on its way holds events and the file has passed none of them
(`BatchIsUnsaved`: a restart forgets the batch and reads its events again), that the request the agent awaits carries its
batch (`AwaitedCarriesBatch`), and that a page is an interval whose length is the move of the bookmark
(`PageIsInterval`). The exemption needs that after the first heartbeat the agent knows what the server says or is
excused (`HeardOrExcused`).
`CountsAccounted` proves that the counts of the traffic are conserved (`CountInv`): only a request on its way carries counts
(`RequestsAreSpent`); `Snapshot` has nothing yet of the aggregates it is still to remove (`DrainIsOfLoop`); and a query that has been seen
is in an aggregate, a batch, a request, the table or among those given up, up to the one the capture thread holds
(`QueriesAreCounted`; `Missing` says when that one is not counted yet or will not be, `Spare` how often it may still be counted). The property itself
leaves out the thread's step and so is not inductive. The sum over the requests is a recursive function; that it exists for every number of
requests and changes by what one request changes (`SumsExist`, `SumOfChanged`) is shown by the least number for which it
would fail (`LeastNumber`), since the induction theorems of the library cannot be used.
Of *inventories*: `ReportedIsStored` from `InventorySyncAssumption`, with the invariant `SyncInv` (a handler that has not begun
has stored nothing, what the metadata part has read is older than it, and lists and row hold what the finished handlers left), and
`RowsStayTheComputers` and `LinksAreKept` from `IdentityAssumption`, with `IdentityInv`: requests of one computer that are
under way together are noticed as races (`RacesAreNoticed`), a linked row has the address of the newest request
(`LinkInv`, `AddressInv`), a row that is claimed, by a link or by a request that has found it, has an address of its claimant as
long as no address was shared (`ClaimInv`), and a computer that never had but one address has at most one row and none while a
request is about to insert it (`OneRowInv`). The search for this invariant showed that `EntryFollowsAddress` as it stood was false with
four inventories, beyond the run's bound: when an address passes to another computer whose request finds the row of the first,
both write it. The property now names that exception.
`DataIsTyped` (`MCSpec => []TypesOK`) puts the three invariants together (`DataInv`): whichever part moves, a step of it keeps its own
and leaves the others alone.

**`VncSessionsProofs`** proves, from `VncAssumption` (any number of bridge jobs and fallbacks): `SessionsAreTyped`, `ActiveRowHasRelay`, `EndedSessionStaysEnded`, `PageRedialsAfterJob`.
Nothing exists before the start (`NothingBeforeStart`), a row is never removed (`RowAfterStart`), a row that is active, *or that a
statement in flight is about to make so*, has an entry in the relay or its end on the way (`ActiveEnds`: the
property itself is lost in the step in which such a statement arrives), and the fallback's statements come in order (`FallbacksInOrder`).

**`ServerProofs`** treats eight parts of the backend that share no state. The *Manager's channel* (no assumption:
any number of commands and polls): `RepliesAreWorkedThrough`, `WithdrawnCommandsNeverRun` and `ManagerRefinement`
(`ManagerSpec => ImplementsManagerQueue`). As for the agent, "runs once" is not inductive by itself; the parts are what the worker
holds at each of its steps (`WorkerIsSound`), what a poll holds (`FetchesHoldRows`), that no received command is
pending (`ReceivedIsNotPending`) or comes with the awaited reply (`AwaitedIsNew`), that what is reported has run
(`VerdictsAreReal`), and that no poll has a withdrawn row (`WithdrawnIsOut`). The *daily report* (`ReportsAssumption`:
the order names every site at most once and at least one; `DayLength`, `MaxHour` are what they must be):
`ReportsAreConsecutive`. Both halves of `NothingIsLostOrRepeated` follow from the periods being a chain (`ReportsAreChained`: one
report begins where another ended; `SitesHaveLatest`, `CycleIsNext`: the cycle in progress continues the latest), each of
which lists exactly its items (`ReportsAreComplete`), none created after it was read (`ListedIsPast`). *Accounts*
(`AccountsAssumption`: the root is a user, users are finitely many): `AdminsRemain`, because without an overlap one
request at most is past its count (`OneGuardedRequest`), and `PasswordsStand`, because an upgrade writes the text that
is there unless it was overtaken (`UpgradesArePlain`).
The *register of printers* (`PrintersSpec`, no assumption): `RegisterStands`. The flag of a printer is right although it follows its
connections by a statement of its own, because a disconnection that has counted nothing finds nothing connected when it resets the
flag, unless the printer is `unsure` (`CountsStand`), and a printer with a connection is shared or the connection is still to set the flag
(`SharedOrComing`); the three queries agree because a connection has both its rows (`ConnectionsAreOfRows`, the foreign keys). The
*rules of unwanted programs* (`FlaggedAssumption`: the inventory is finite, no program is listed for an unknown machine, an agent belongs to
one machine): `FlagsStand`. A request that is alone has found no equal rule (`AddedIsNew`), and an exception has its rule
(`ExceptionsHaveRules`, the cascade). The search for the proof showed that the queries agree only if agents of different machines are
distinct: a rule selects agents of the machines on which it applies, so an agent of two machines would be selected for the other. The
column `agents.ip_entry_id` allows one.

The last three parts of `ServerProofs` are *queries that describe one table*: `FleetDescribesOneTable` (`AgentTableAssumption`: the thresholds
are in order, the first rows are rows; the figures of the classes of connectivity agree with the filter where there is one class,
otherwise in their sum, which is all the code gives), `EntriesDescribeOneTable` (`EntriesAssumption`: addresses are numbers and unique, a site has finitely many
usable ones) and `ReportDescribesOneTable` (`AnalyticsAssumption`: a computer reports finitely many rows, its own). Here the invariants are small: the rows
are of their type and finitely many, an address is in one row (`FleetInv`, `EntriesInv`, `AnalyticsTypeOK`). The work is in what follows from them
in a single state, for tables of any size. A list is cut into pages that miss nothing and repeat nothing because the ranks of a strict order on a
finite set are 0, 1, .. (`RanksAreAll`, by a set of least size for which it fails) and the division by the page size puts each of them on one page
(`PagesAreAll`); the joined rows of the list of agents are as many as the agents when no computer has two Managers (`JoinedOnce`); counters
are compared by splitting a finite set in two, never by counting twice; the buckets of 30, 60 and 90 days are intervals that leave
nothing out (`BucketsAre`), and the latest update of a computer is the greatest of a finite set of days (`LatestExists`).
Three statements turned out to be too strong for some constants and were corrected. A selection of *all* groups is the same as that of some
group only if there is a group at all: without one the filter is empty and selects every agent (`OptionsAgree`). And a publisher or a maker
that has the very word the report puts for a missing one is counted under it (`SoftwareAgrees`, `DriversAgree`): the query groups by the word.

**`BrowserProofs`**, for any number of tabs, people, requests, agents and filters: `ShownUserOwnsToken` (also a
request that is still to answer must carry the token's user: `SessionIsOne`), `LitBellsArePushed` (`TabsKnow`: what each step of a tab
knows; `LiveIsKept` and `LiveIsStored`: which endpoints the browser and the server have), `PagesPollWhileWatched` (`Counted`, `InTurn`: requests,
timers and the chains that lost their handle add up at every step), `ListAgreesWithRoute` (`ListIsInStep`; an answer in flight is
for what the route had when it was asked, `Placed`, `InStep`) and `ConfirmedAgentsAreSent`. The last two use `ListAssumption`.
`PageStaysInStep` (`ViewsInv`, no assumption; any number of requests in flight, failures, choices and changes) has two layers. The
tables of the pages are sound, checked page by page (`ViewIsSound`, `ViewsAreSound`): a part whose request is aborted is asked for
again by the same step, what may be aborted ends no function, and the watches cover every part that depends on the site or the
search. And in each state, a part that is not muddled has one live request at most (`OneLive`), and is asked for with the present
choice (`IsAsked`), will be (`WillBeAsked`), is shown as it is (`IsShown`), or is a list of results while nothing is searched
(`NotSearched`). `SendKeeps` is the lemma that every step that sends cites.
That the pages are typed needs one more invariant (`ViewsTyped`): what has been changed on the server and the changes that are on their way are
together no more than the user has made, so that no part is changed more than `MaxMoves` times.

*The console.* `ConsoleAgrees` (`MCSpec => []ShownAgrees`) and `ConsoleIsTyped` (`MCSpec => []TypesOK`) state the two conjunctions that the run
`console` checks over all its thirteen parts, with the exceptions each part names. A step of the console is a step of one part and leaves the others alone (`ConsoleMovesServer`,
`ConsoleMovesTables`, `ConsoleMovesPages`), so that the conjunction of the thirteen invariants is one (`ShownInv`, `ServerInv`, `BrowserInv`).
The type of the list of agents needed two facts about its constants that the code has: a filter finds nothing that the list without one does not
have, and an empty list has a page all the same (`paginate` never answers with page 0).

**`PagesProofs`** proves `PartsStaySound` (`MCSpec => []PartsAreSound`): in whatever order the parts of section 11 and the queue of section 2 are
taken up, each keeps what it promises, with one theorem for each of the five beneath it, for any domains, ports, sites, groups
and bounds that the assumptions of their modules admit.
`BlacklistStands` (`BlacklistInv`): between rounds nothing waits to be inserted (`PendingIsOfFeed`), and the numbers of a domain's
rows have been given out, also those of entered rows that are gone (`NumbersAreGiven`).
`ListIsShown` (`BlacklistPageInv`): calls that are not crossed are one, for the page and search shown (`OneFetch`, `AnsweredIsSearch`);
as long as nothing is astray an addition or removal is the only one, and only a first page is read beside it (`OneJob`, `JobsAreAlone`); and
the invariant says what each call finds at each of its steps (`FetchesFind`, `ShownIsFound`, `CallsHoldAPage`) and that the page asked for is
one the list has (`NumberIsThere`). `ScansAreTrue` (`PortScanInv`): a port is at one place and once (`EachPortOnce`,
`PortsAreAsked`, `PortsAreKnown`), the limit is used and kept (`SocketsAreLimited`), the summary is that of the scan (`SummaryIsOfScan`).
`TabsArrive` (`NavigationInv`): what the guard has let pass has its site (`LoadedHasSite`), the page that is there keeps the tab's site
(`RouteKeepsSite`, `RememberedIsMine`), and the redirects so far and those still to come are two at most (`HopsAreCounted`).
`FormsStand` (`FormsInv`): an entry on its way to the form is the row but for what was written since (`EntryIsRow`), a name a form
or a request holds has been counted or is loose (`HeldIsListed`), and a group is deleted for which no use was counted (`DeletedWasUnused`).
The lists of these modules are sets in ascending order (`NumberOrder`). That such an order exists for every finite set of numbers would be
an induction; the proof takes instead a smallest set for which it fails, by the well-foundedness of strict inclusion among the
subsets of a finite set (`FS_StrictSubsetOrderingWellFounded`, `WFMin`), and removes its greatest number.
The search for `BlacklistPageInv` showed that `ListIsThere` as it stood was false with three domains, one more than
the run had: a user who removes a row from a page that has not been read as it is goes back to a page that is no more. The
property now names that exception (`Unsettled`), and the run has three domains.

**Only model-checked:**

* everything under fairness (`EarlyCancelIsEffective`, `PendingIsPickedUp`, `SentIsResolvedOrLost`,
  `RelayedSessionEnds`, `ServiceComesBack`, `PersistentAlertIsPushed`), because TLAPS does not treat ENABLED and liveness.
* that the runs are not empty: which states are reached, and that every action fires;
* the mutants: a theorem says that the code's definitions keep a property, a mutant that the property notices when they do not.

Every invariant that a passing run checks, every action property and both refinements are theorems.

## 15. Not modelled

Single-row writes by one administrator at a time (spare parts, app settings), append-only records nobody waits
for (activity log, request metrics), formatting (PDF, Excel), pure I/O (wake-on-LAN, the downloads folder, capture and
encoding of the screen, the queries of WMI), and cryptography: a key or a signature is valid or it is not. Of these the pages are part of
`ConsoleViews`, so far as they ask and show. `agent_jobs` output and payloads are not modelled; a command succeeds or fails.
The thresholds of the daily report's trends, and four of the figures of the notifications, are left out.
