--------------------------- MODULE AgentTelemetry ---------------------------
(***************************************************************************)
(* What one agent observes of its computer and sends to the server: the    *)
(* Windows event log (EventLogCollector with its bookmark), the DNS        *)
(* queries (DnsQueryCollector, with a capture thread of its own), the      *)
(* watched processes (ProcessWatchCollector, which may kill them), and the *)
(* heartbeat that says whether it may.  The loop of AgentWorker does one   *)
(* of them at a time; the server stores each batch with one statement of   *)
(* POST /agents/inventory.                                                 *)
(*                                                                         *)
(* Times and texts are left out: an event is its record id, a query is     *)
(* its domain.  System and Application are treated alike: there is one     *)
(* log.  The unique key of computer_event_logs, which no file of the       *)
(* repository shows, tells any two events apart.  The other activities of  *)
(* the loop (jobs, updates, inventory) are in other modules.               *)
(***************************************************************************)
EXTENDS Naturals, FiniteSets

CONSTANTS
  Domains,       \* names that programs of the computer look up
  MaxRequests,   \* bound: requests the server works on at a time
  MaxPerCycle,   \* MaxEntriesPerLog
  MaxEvents,     \* bound: records in the event log
  MaxSeen,       \* bound: queries of a domain and scans with a match
  MaxStarts,     \* bound: starts of the agent service
  None

Watched == "watched"   \* the counter of the watched process
Counters == Domains \cup {Watched}
Events == 1 .. MaxEvents
Requests == 1 .. MaxRequests

ASSUME TelemetryAssumption ==
  /\ MaxPerCycle \in Nat \ {0} /\ MaxEvents \in Nat /\ MaxSeen \in Nat /\ MaxStarts \in Nat
  /\ MaxRequests \in Nat /\ None \notin Requests \cup Domains /\ Watched \notin Domains \cup {None}

VARIABLES
  loop,       \* what AgentWorker does: [at, what, batch]
  first,      \* activities not yet done since the service started
  starts,     \* starts of the service
  logged,     \* records in the event log
  bookmark,   \* EventLogBookmarks in memory
  saved,      \* eventlog-bookmarks.json; 0 also for a file that cannot be read
  aggregates, \* _aggregates: the count of each domain, 0 when it has none
  capture,    \* the capture thread in AddOrUpdate: [at, of]
  drain,      \* Snapshot: [keys left, domain removed last, its count]
  known,      \* AgentState.ProcessKillExempt
  requests,   \* handlers of /agents/inventory: [at, batch]
  awaited,    \* the request the agent awaits
  rows,       \* computer_event_logs: rows of each event
  counts,     \* computer_dns_queries and computer_process_detections
  exempt,     \* agents.process_kill_exempt, or the global switch is off
  answer,     \* exempt, as the heartbeat's handler has read it
  seen,       \* queries sent and matches found (history)
  dropped,    \* events of failed batches (history)
  lost,       \* counts of failed batches and of stopped agents (history)
  drains,     \* aggregates removed while the capture thread held them (history)
  excused     \* the agent cannot know that it is exempt (history)

agentVars == <<loop, first, starts>>
eventVars == <<logged, bookmark, saved>>
dnsVars == <<aggregates, capture, drain>>
serverVars == <<requests, awaited, rows, counts>>
exemptVars == <<exempt, answer>>
historyVars == <<seen, dropped, lost, drains, excused>>
vars == <<agentVars, eventVars, dnsVars, known, serverVars, exemptVars, historyVars>>

Activities == {"heartbeat", "events", "dns", "processes"}
NoCounts == [c \in Counters |-> 0]
NoBatch == [events |-> {}, counts |-> NoCounts]
NoRequest == [at |-> "none", batch |-> NoBatch]
NotDraining == [keys |-> {}, of |-> None, count |-> 0]
NotCapturing == [at |-> "idle", of |-> None]
Idle == [at |-> "idle", what |-> "none", batch |-> NoBatch]
MayBeSeen(d) == seen[d] + seen[Watched] < MaxSeen
Plus(f, g) == [c \in Counters |-> f[c] + g[c]]
Batches == [events : SUBSET Events, counts : [Counters -> Nat]]

TypeOK ==
  /\ loop \in [at : {"idle", "drain", "kill", "send", "wait", "save", "heartbeat", "answered"},
               what : Activities \cup {"none"}, batch : Batches]
  /\ first \subseteq Activities
  /\ starts \in Nat
  /\ logged \in 0 .. MaxEvents /\ bookmark \in 0 .. MaxEvents /\ saved \in 0 .. MaxEvents
  /\ aggregates \in [Domains -> Nat]
  /\ capture \in [at : {"idle", "found", "counted"}, of : Domains \cup {None}]
  /\ drain \in [keys : SUBSET Domains, of : Domains \cup {None}, count : Nat]
  /\ known \in BOOLEAN
  /\ requests \in [Requests -> [at : {"none", "sent", "stored"}, batch : Batches]]
  /\ awaited \in Requests \cup {None}
  /\ rows \in [Events -> Nat] /\ counts \in [Counters -> Nat]
  /\ exempt \in BOOLEAN /\ answer \in BOOLEAN
  /\ seen \in [Counters -> Nat] /\ lost \in [Counters -> Nat] /\ drains \in [Domains -> Nat]
  /\ dropped \subseteq Events
  /\ excused \in BOOLEAN

\* RunAsync begins with every interval elapsed.
Init ==
  /\ loop = Idle /\ first = Activities /\ starts = 1
  /\ logged = 0 /\ bookmark = 0 /\ saved = 0
  /\ aggregates = [d \in Domains |-> 0] /\ capture = NotCapturing /\ drain = NotDraining
  /\ known = FALSE
  /\ requests = [r \in Requests |-> NoRequest] /\ awaited = None
  /\ rows = [e \in Events |-> 0] /\ counts = NoCounts
  /\ exempt \in BOOLEAN /\ answer = FALSE
  /\ seen = NoCounts /\ dropped = {} /\ lost = NoCounts
  /\ drains = [d \in Domains |-> 0] /\ excused = FALSE

-----------------------------------------------------------------------------
(* The loop of RunAsync.                                                   *)

\* What comes before a in the chain of the loop's tests.
Before(a) == CASE a = "heartbeat" -> {}
               [] a = "events" -> {"heartbeat"}
               [] a = "dns" -> {"heartbeat", "events"}
               [] a = "processes" -> {"heartbeat", "events", "dns"}

\* Mutant: no order.
TickAny(a) == loop.at = "idle" /\ first' = first \ {a}

\* A tick does the first activity that is due.  When the service starts all of
\* them are; later the interval of any may have elapsed and that of others not.
Tick(a) == /\ loop.at = "idle"
           /\ Before(a) \cap first = {}
           /\ first' = first \ {a}

\* An activity has its batch: it sends one that is not empty, if the computer
\* has an address; otherwise the batch is gone.
Send(a, batch) ==
  \/ /\ batch # NoBatch
     /\ loop' = [at |-> "send", what |-> a, batch |-> batch]
     /\ UNCHANGED <<dropped, lost>>
  \/ /\ loop' = Idle
     /\ dropped' = dropped \cup batch.events
     /\ lost' = Plus(lost, batch.counts)

-----------------------------------------------------------------------------
(* Event log.                                                              *)

LogEvent ==
  /\ logged < MaxEvents
  /\ logged' = logged + 1
  /\ UNCHANGED <<agentVars, bookmark, saved, dnsVars, known, serverVars, exemptVars, historyVars>>

Read == {e \in 1 .. logged : bookmark < e /\ e <= bookmark + MaxPerCycle}

\* Mutant: the bookmark is moved to the newest record, not to the last one read.
CollectNewest ==
  /\ Tick("events")
  /\ bookmark' = logged
  /\ Send("events", [NoBatch EXCEPT !.events = Read])
  /\ UNCHANGED <<starts, logged, saved, dnsVars, known, serverVars, exemptVars, seen, drains, excused>>

\* Mutant: the bookmark moves by a full page.
CollectPage ==
  /\ Tick("events")
  /\ bookmark' = bookmark + MaxPerCycle
  /\ Send("events", [NoBatch EXCEPT !.events = Read])
  /\ UNCHANGED <<starts, logged, saved, dnsVars, known, serverVars, exemptVars, seen, drains, excused>>

\* CollectFromLog: at most MaxEntriesPerLog records after the bookmark, which
\* moves at once.
Collect ==
  /\ Tick("events")
  /\ bookmark' = bookmark + Cardinality(Read)
  /\ Send("events", [NoBatch EXCEPT !.events = Read])
  /\ UNCHANGED <<starts, logged, saved, dnsVars, known, serverVars, exemptVars, seen, drains, excused>>

\* The log cannot be read: nothing is sent, and the bookmark stays.
CollectFails ==
  /\ Tick("events")
  /\ loop' = Idle
  /\ UNCHANGED <<starts, eventVars, dnsVars, known, serverVars, exemptVars, historyVars>>

\* EventLogBookmarks.Save truncates the file and writes it.
StartSave ==
  /\ loop.at = "save" /\ saved # bookmark
  /\ saved' = 0
  /\ UNCHANGED <<agentVars, logged, bookmark, dnsVars, known, serverVars, exemptVars, historyVars>>

\* Or fails to: the old file or the truncated one stays.
EndSave ==
  /\ loop.at = "save"
  /\ saved' \in {bookmark, saved}
  /\ loop' = Idle
  /\ UNCHANGED <<first, starts, logged, bookmark, dnsVars, known, serverVars, exemptVars, historyVars>>

-----------------------------------------------------------------------------
(* DNS queries.  The aggregate that Snapshot has removed is the object the *)
(* capture thread may have found before.                                   *)

\* TryGetValue finds nothing and TryAdd succeeds: nobody else adds.
CaptureNew(d) ==
  /\ capture.at = "idle" /\ aggregates[d] = 0 /\ MayBeSeen(d)
  /\ aggregates' = [aggregates EXCEPT ![d] = 1]
  /\ seen' = [seen EXCEPT ![d] = @ + 1]
  /\ UNCHANGED <<agentVars, eventVars, capture, drain, known, serverVars, exemptVars, dropped, lost, drains, excused>>

CaptureFind(d) ==
  /\ capture.at = "idle" /\ aggregates[d] > 0 /\ MayBeSeen(d)
  /\ capture' = [at |-> "found", of |-> d]
  /\ seen' = [seen EXCEPT ![d] = @ + 1]
  /\ UNCHANGED <<agentVars, eventVars, aggregates, drain, known, serverVars, exemptVars, dropped, lost, drains, excused>>

\* existing.Count++ on the object, wherever it is by now.
CaptureCount ==
  /\ capture.at = "found"
  /\ capture' = [capture EXCEPT !.at = "counted"]
  /\ IF aggregates[capture.of] > 0
     THEN aggregates' = [aggregates EXCEPT ![capture.of] = @ + 1] /\ UNCHANGED drain
     ELSE /\ drain' = IF drain.of = capture.of THEN [drain EXCEPT !.count = @ + 1] ELSE drain
          /\ UNCHANGED aggregates
  /\ UNCHANGED <<agentVars, eventVars, known, serverVars, exemptVars, historyVars>>

\* Mutant: an aggregate that was removed is not replaced by a new one.
CaptureDrop ==
  /\ capture.at = "counted"
  /\ capture' = NotCapturing
  /\ UNCHANGED <<agentVars, eventVars, aggregates, drain, known, serverVars, exemptVars, historyVars>>

\* TryUpdate succeeds while the object is still there; otherwise AddOrUpdate
\* begins anew and adds an aggregate of its own.
CaptureReplace ==
  /\ capture.at = "counted"
  /\ capture' = NotCapturing
  /\ aggregates' = [aggregates EXCEPT ![capture.of] = IF @ > 0 THEN @ ELSE 1]
  /\ UNCHANGED <<agentVars, eventVars, drain, known, serverVars, exemptVars, historyVars>>

\* Snapshot: the keys, then for each one TryRemove and the reading of Count.
StartDrain ==
  /\ Tick("dns")
  /\ loop' = [at |-> "drain", what |-> "dns", batch |-> NoBatch]
  /\ drain' = [NotDraining EXCEPT !.keys = {d \in Domains : aggregates[d] > 0}]
  /\ UNCHANGED <<starts, eventVars, aggregates, capture, known, serverVars, exemptVars, historyVars>>

DrainRemove(d) ==
  /\ loop.at = "drain" /\ drain.of = None /\ d \in drain.keys
  /\ drain' = [keys |-> drain.keys \ {d}, of |-> d, count |-> aggregates[d]]
  /\ aggregates' = [aggregates EXCEPT ![d] = 0]
  /\ drains' = IF capture.of = d THEN [drains EXCEPT ![d] = @ + 1] ELSE drains
  /\ UNCHANGED <<agentVars, eventVars, capture, known, serverVars, exemptVars, seen, dropped, lost, excused>>

DrainRead ==
  /\ loop.at = "drain" /\ drain.of # None
  /\ loop' = [loop EXCEPT !.batch.counts[drain.of] = drain.count]
  /\ drain' = [drain EXCEPT !.of = None, !.count = 0]
  /\ UNCHANGED <<first, starts, eventVars, aggregates, capture, known, serverVars, exemptVars, historyVars>>

EndDrain ==
  /\ loop.at = "drain" /\ drain = NotDraining
  /\ Send("dns", loop.batch)
  /\ UNCHANGED <<first, starts, eventVars, dnsVars, known, serverVars, exemptVars, seen, drains, excused>>

-----------------------------------------------------------------------------
(* Watched processes and the heartbeat.                                    *)

\* ProcessWatchCollector.Scan finds a process of the watch list, or none; it
\* kills what it finds unless the computer is exempt.
Scan ==
  /\ Tick("processes")
  /\ \/ Send("processes", NoBatch) /\ UNCHANGED seen
     \/ /\ \A d \in Domains : MayBeSeen(d)
        /\ seen' = [seen EXCEPT ![Watched] = @ + 1]
        /\ LET found == [NoBatch EXCEPT !.counts[Watched] = 1]
           IN  IF known THEN Send("processes", found)
               ELSE /\ loop' = [at |-> "kill", what |-> "processes", batch |-> found]
                    /\ UNCHANGED <<dropped, lost>>
  /\ UNCHANGED <<starts, eventVars, dnsVars, known, serverVars, exemptVars, drains, excused>>

Kill ==
  /\ loop.at = "kill"
  /\ Send("processes", loop.batch)
  /\ UNCHANGED <<first, starts, eventVars, dnsVars, known, serverVars, exemptVars, seen, drains, excused>>

\* An administrator exempts the computer or ends the exemption.
SetExempt ==
  /\ exempt' = ~exempt
  /\ excused' = TRUE
  /\ UNCHANGED <<agentVars, eventVars, dnsVars, known, serverVars, answer, seen, dropped, lost, drains>>

StartHeartbeat ==
  /\ Tick("heartbeat")
  /\ loop' = [at |-> "heartbeat", what |-> "heartbeat", batch |-> NoBatch]
  /\ UNCHANGED <<starts, eventVars, dnsVars, known, serverVars, exemptVars, historyVars>>

HeartbeatRead ==
  /\ loop.at = "heartbeat"
  /\ loop' = [loop EXCEPT !.at = "answered"]
  /\ answer' = exempt
  /\ UNCHANGED <<first, starts, eventVars, dnsVars, known, serverVars, exempt, historyVars>>

HeartbeatReply ==
  /\ loop.at = "answered"
  /\ loop' = Idle
  /\ known' = answer
  /\ answer' = FALSE
  /\ excused' = (answer # exempt)
  /\ UNCHANGED <<first, starts, eventVars, dnsVars, serverVars, exempt, seen, dropped, lost, drains>>

\* The error is logged; the next heartbeat is due after the full interval.
HeartbeatFails ==
  /\ loop.at \in {"heartbeat", "answered"}
  /\ loop' = Idle
  /\ excused' = (excused \/ known # exempt)
  /\ answer' = FALSE
  /\ UNCHANGED <<first, starts, eventVars, dnsVars, known, serverVars, exempt, seen, dropped, lost, drains>>

-----------------------------------------------------------------------------
(* POST /agents/inventory.                                                 *)

Post(r) ==
  /\ loop.at = "send"
  /\ requests[r].at = "none" /\ \A q \in 1 .. r - 1 : requests[q].at # "none"
  /\ requests' = [requests EXCEPT ![r] = [at |-> "sent", batch |-> loop.batch]]
  /\ awaited' = r
  /\ loop' = [loop EXCEPT !.at = "wait"]
  /\ UNCHANGED <<first, starts, eventVars, dnsVars, known, rows, counts, exemptVars, historyVars>>

\* Mutant: a plain INSERT under a table without the unique key.
InsertAll(events) == rows' = [e \in Events |-> IF e \in events THEN rows[e] + 1 ELSE rows[e]]

\* insertEventLogsBulk: INSERT IGNORE.
InsertIgnore(events) == rows' = [e \in Events |-> IF e \in events /\ rows[e] = 0 THEN 1 ELSE rows[e]]

\* upsertDnsQueriesBulk, upsertProcessDetectionsBulk: ON DUPLICATE KEY UPDATE
\* adds what is stored and what is new.
Add(new) == counts' = Plus(counts, new)

\* The statement of the handler succeeds; it may be the last to hear of it.
Ingest(r) ==
  /\ requests[r].at = "sent"
  /\ InsertIgnore(requests[r].batch.events)
  /\ Add(requests[r].batch.counts)
  /\ requests' = [requests EXCEPT ![r] = IF awaited = r THEN [at |-> "stored", batch |-> NoBatch]
                                         ELSE NoRequest]
  /\ UNCHANGED <<agentVars, eventVars, dnsVars, known, awaited, exemptVars, historyVars>>

\* The request gets lost on its way, is rejected, or its statement fails.
IngestFails(r) ==
  /\ requests[r].at = "sent"
  /\ lost' = Plus(lost, requests[r].batch.counts)
  /\ requests' = [requests EXCEPT ![r] = NoRequest]
  /\ UNCHANGED <<agentVars, eventVars, dnsVars, known, awaited, rows, counts, exemptVars,
                 seen, dropped, drains, excused>>

\* Every step of the handler has succeeded.
Reply ==
  /\ awaited # None /\ requests[awaited].at = "stored"
  /\ requests' = [requests EXCEPT ![awaited] = NoRequest]
  /\ awaited' = None
  /\ IF loop.what = "events" THEN loop' = [loop EXCEPT !.at = "save", !.batch = NoBatch] ELSE loop' = Idle
  /\ UNCHANGED <<first, starts, eventVars, dnsVars, known, rows, counts, exemptVars, historyVars>>

\* The agent gives up: a time-out, a lost reply, or an error of another step of
\* Promise.all, while this one goes on.
GiveUp ==
  /\ awaited # None
  /\ requests' = [requests EXCEPT ![awaited] = IF @.at = "sent" THEN @ ELSE NoRequest]
  /\ awaited' = None
  /\ loop' = Idle
  /\ dropped' = dropped \cup loop.batch.events
  /\ UNCHANGED <<first, starts, eventVars, dnsVars, known, rows, counts, exemptVars, seen, lost, drains, excused>>

\* The service stops or is killed, and starts again.
Restart ==
  /\ starts < MaxStarts
  /\ starts' = starts + 1
  /\ loop' = Idle /\ first' = Activities
  /\ bookmark' = saved
  /\ dropped' = {e \in dropped : e <= saved}
  /\ aggregates' = [d \in Domains |-> 0] /\ capture' = NotCapturing /\ drain' = NotDraining
  /\ lost' = [c \in Counters |->
                lost[c] + (IF loop.at \in {"drain", "kill", "send"} THEN loop.batch.counts[c] ELSE 0)
                        + (IF c \in Domains THEN aggregates[c] ELSE 0)
                        + (IF drain.of = c THEN drain.count ELSE 0)
                        + (IF capture.of = c /\ (capture.at = "found" \/ aggregates[c] = 0)
                           THEN 1 ELSE 0)]
  /\ known' = FALSE /\ answer' = FALSE
  /\ excused' = FALSE
  /\ requests' = IF awaited # None /\ requests[awaited].at = "stored"
                 THEN [requests EXCEPT ![awaited] = NoRequest] ELSE requests
  /\ awaited' = None
  /\ UNCHANGED <<logged, saved, rows, counts, exempt, seen, drains>>

-----------------------------------------------------------------------------

EventNext == LogEvent \/ Collect \/ CollectFails \/ StartSave \/ EndSave
CaptureNext == (\E d \in Domains : CaptureNew(d) \/ CaptureFind(d)) \/ CaptureCount \/ CaptureReplace
DrainNext == StartDrain \/ (\E d \in Domains : DrainRemove(d)) \/ DrainRead \/ EndDrain
ProcessNext == Scan \/ Kill \/ SetExempt
HeartbeatNext == StartHeartbeat \/ HeartbeatRead \/ HeartbeatReply \/ HeartbeatFails
RequestNext == \E r \in Requests : Post(r) \/ Ingest(r) \/ IngestFails(r)
LoopNext == Reply \/ GiveUp \/ Restart

Next == EventNext \/ CaptureNext \/ DrainNext \/ ProcessNext \/ HeartbeatNext \/ RequestNext \/ LoopNext

Spec == Init /\ [][Next]_vars

-----------------------------------------------------------------------------
(* Properties.                                                             *)

\* An event the bookmark has passed is stored, in the batch under way, or was
\* in a batch that failed: the bookmark never skips a record, whatever is cut
\* off after MaxEntriesPerLog and wherever the service stops.
PassedEventsAreAccounted ==
  \A e \in 1 .. bookmark : rows[e] > 0 \/ e \in loop.batch.events \/ e \in dropped

\* An event is stored once, although the agent sends it again after a restart
\* and the first handler may still be at work.
EventsStoredOnce == \A e \in Events : rows[e] <= 1

\* What is counted: collected, in a batch, in a request, stored, or given up.
InFlight(c) == (IF loop.at \in {"drain", "kill", "send"} THEN loop.batch.counts[c] ELSE 0)
SumOf(f) ==
  LET upTo[n \in 0 .. MaxRequests] == IF n = 0 THEN 0 ELSE upTo[n - 1] + f[n]
  IN  upTo[MaxRequests]
Sent(c) == SumOf([r \in Requests |-> requests[r].batch.counts[c]])
Collected(c) == IF c \in Domains
                THEN aggregates[c] + (IF drain.of = c THEN drain.count ELSE 0)
                ELSE 0
Total(c) == Collected(c) + InFlight(c) + Sent(c) + counts[c] + lost[c]

\* A query or a match is counted at least once, whatever the capture thread and Snapshot do to the
\* same aggregate at the same time, and a query twice at most once for each aggregate that was
\* removed while the capture thread held it; matches of processes are exact.
CountsAreAccounted ==
  /\ \A c \in Counters : seen[c] <= Total(c) + (IF capture.of = c THEN 1 ELSE 0)
  /\ \A d \in Domains : Total(d) <= seen[d] + drains[d]
  /\ Total(Watched) = seen[Watched]

\* DoProcessMonitorAsync: a computer that is exempt loses no process, unless the
\* agent could not hear of it since the exemption or its own start; the first
\* heartbeat comes before the first scan.
ExemptIsSpared == loop.at = "kill" => ~exempt \/ excused

\* Found violated. What has accumulated during an outage is sent in the next
\* cycles (EventLogCollector.cs:20-22): no event the file has passed is missing.
EventsSurviveOutage == \A e \in 1 .. saved : rows[e] > 0
=============================================================================
