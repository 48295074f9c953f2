--------------------------- MODULE AgentDataProofs ---------------------------
(***************************************************************************)
(* Proofs about what an agent sends and what the server makes of it: that  *)
(* every event and every query is accounted for and that an exempt         *)
(* computer is spared (AgentTelemetry), that what a request stored stays   *)
(* stored (InventorySync), and that the row of ip_entries it is stored for *)
(* is the computer's (Identity), for every number of events, domains,      *)
(* requests, failures, computers, addresses and rows.                      *)
(***************************************************************************)
EXTENDS MCAgentData, FiniteSetTheorems, WellFoundedInduction, TLAPS

-----------------------------------------------------------------------------
(* The inductive invariant of the event log.                               *)

BookmarksInOrder == saved <= bookmark /\ bookmark <= logged

\* Only a batch on its way holds events, none of which the file has passed:
\* a restart forgets the batch, and reads its events again.
BatchIsUnsaved ==
  /\ loop.batch.events # {} => loop.at \in {"send", "wait"}
  /\ \A e \in loop.batch.events : saved < e

\* The agent waits for the request that carries its batch; when the request is
\* stored, so are the events of the batch.
AwaitedCarriesBatch ==
  /\ awaited # None <=> loop.at = "wait"
  /\ awaited # None =>
       /\ requests[awaited].at = "sent" => requests[awaited].batch.events = loop.batch.events
       /\ requests[awaited].at = "stored" => \A e \in loop.batch.events : rows[e] > 0

EventInv ==
  /\ BookmarksInOrder
  /\ BatchIsUnsaved
  /\ AwaitedCarriesBatch
  /\ PassedEventsAreAccounted
  /\ EventsStoredOnce

-----------------------------------------------------------------------------
(* The inductive invariant of the exemption.                               *)

\* After the first heartbeat the agent knows what the server says, or is excused.
HeardOrExcused ==
  "heartbeat" \notin first /\ loop.at \notin {"heartbeat", "answered"} => known = exempt \/ excused

\* It kills when it has been told that it may.
KillsWhenTold == loop.at = "kill" => ~known /\ "heartbeat" \notin first

ExemptInv == HeardOrExcused /\ KillsWhenTold

-----------------------------------------------------------------------------
(* The inductive invariant of the counts.                                  *)

\* Only a request on its way has counts.
RequestsAreSpent == \A r \in Requests : requests[r].at # "sent" => requests[r].batch.counts = NoCounts

\* Snapshot has nothing yet of the aggregates it is still to remove, or has removed last.
DrainIsOfLoop ==
  /\ loop.at # "drain" => drain = NotDraining
  /\ drain.of \notin drain.keys
  /\ loop.at = "drain" => \A d \in Domains : d \in drain.keys \/ d = drain.of => loop.batch.counts[d] = 0

CaptureHasDomain == capture.at = "idle" <=> capture.of = None

\* The query that the capture thread holds is not counted yet if it has not come to that, and may never
\* be if its aggregate is gone.
Missing(d) == IF capture.of = d /\ (capture.at = "found" \/ aggregates[d] = 0) THEN 1 ELSE 0

\* How often it may still be counted: in the aggregate it has found, and again in a new one.
Spare(d) ==
  IF capture.of = d THEN (IF capture.at = "found" THEN 1 ELSE 0) + (IF aggregates[d] = 0 THEN 1 ELSE 0) ELSE 0

QueriesAreCounted ==
  \A d \in Domains : seen[d] <= Total(d) + Missing(d) /\ Total(d) + Spare(d) <= seen[d] + drains[d]
MatchesAreCounted == Total(Watched) = seen[Watched]

CountInv == RequestsAreSpent /\ DrainIsOfLoop /\ CaptureHasDomain /\ QueriesAreCounted /\ MatchesAreCounted

IInv == TypeOK /\ EventInv /\ ExemptInv /\ CountInv

-----------------------------------------------------------------------------
(* Helpers.                                                                *)

LEMMA BatchTypes ==
  /\ NoBatch \in Batches /\ NoCounts \in [Counters -> Nat]
  /\ NoBatch.events = {} /\ NoBatch.counts = NoCounts
  /\ Idle.batch = NoBatch /\ Idle.at = "idle"
  BY DEF NoBatch, Batches, NoCounts, Idle

LEMMA PlusType ==
  ASSUME NEW f \in [Counters -> Nat], NEW g \in [Counters -> Nat]
  PROVE  Plus(f, g) \in [Counters -> Nat]
  BY DEF Plus

\* A page is an interval after the bookmark, and its length is how far the
\* bookmark moves.
LEMMA PageIsInterval ==
  ASSUME TypeOK, BookmarksInOrder
  PROVE  /\ Read \in SUBSET Events
         /\ bookmark + Cardinality(Read) \in bookmark .. logged
         /\ Read = bookmark + 1 .. bookmark + Cardinality(Read)
<1> USE TelemetryAssumption DEF TypeOK, BookmarksInOrder
<1> DEFINE last == IF logged <= bookmark + MaxPerCycle THEN logged ELSE bookmark + MaxPerCycle
<1>1. last \in bookmark .. logged
  OBVIOUS
<1>2. Read = bookmark + 1 .. last
  BY <1>1 DEF Read
<1>3. Cardinality(Read) = last - bookmark
  <2>1. bookmark + 1 \in Int /\ last \in Int
    BY <1>1
  <2>2. Cardinality(bookmark + 1 .. last) = IF bookmark + 1 > last THEN 0 ELSE last - (bookmark + 1) + 1
    BY <2>1, FS_Interval
  <2> QED
    BY <1>1, <1>2, <2>1, <2>2
<1>4. Read \in SUBSET Events
  BY <1>1, <1>2 DEF Events
<1>5. bookmark + Cardinality(Read) = last
  BY <1>1, <1>3
<1> QED
  BY <1>1, <1>2, <1>4, <1>5

\* An activity that has its batch sends it or drops it.
LEMMA SendOutcome ==
  ASSUME TypeOK, NEW a \in Activities, NEW b \in Batches, Send(a, b)
  PROVE  /\ loop' \in [at : {"idle", "drain", "kill", "send", "wait", "save", "heartbeat", "answered"},
                       what : Activities \cup {"none"}, batch : Batches]
         /\ dropped' \in SUBSET Events
         /\ lost' \in [Counters -> Nat]
         /\ \/ loop'.at = "send" /\ loop'.batch = b /\ dropped' = dropped
            \/ loop' = Idle /\ dropped' = dropped \cup b.events
<1>1. CASE /\ loop' = [at |-> "send", what |-> a, batch |-> b]
           /\ UNCHANGED <<dropped, lost>>
  BY <1>1 DEF TypeOK
<1>2. CASE /\ loop' = Idle
           /\ dropped' = dropped \cup b.events
           /\ lost' = Plus(lost, b.counts)
  <2>1. b.events \subseteq Events /\ b.counts \in [Counters -> Nat]
    BY DEF Batches
  <2>2. lost' \in [Counters -> Nat]
    BY <1>2, <2>1, PlusType DEF TypeOK
  <2>3. Idle \in [at : {"idle", "drain", "kill", "send", "wait", "save", "heartbeat", "answered"},
                  what : Activities \cup {"none"}, batch : Batches]
    BY BatchTypes DEF Idle
  <2> QED
    BY <1>2, <2>1, <2>2, <2>3 DEF TypeOK
<1> QED
  BY <1>1, <1>2 DEF Send
-----------------------------------------------------------------------------
(* Types.                                                                  *)

LEMMA NextTypeOK ==
  ASSUME TypeOK, BookmarksInOrder, [Next]_vars
  PROVE  TypeOK'
<1> USE TelemetryAssumption DEF TypeOK, vars, agentVars, eventVars, dnsVars, serverVars, exemptVars, historyVars
<1> DEFINE LoopType == [at : {"idle", "drain", "kill", "send", "wait", "save", "heartbeat", "answered"},
                        what : Activities \cup {"none"}, batch : Batches]
           RequestType == [at : {"none", "sent", "stored"}, batch : Batches]
<1>idle. Idle \in LoopType
  BY BatchTypes DEF Idle
<1>none. NoRequest \in RequestType
  BY BatchTypes DEF NoRequest
<1>tick. ASSUME NEW a \in Activities, Tick(a) PROVE first' \subseteq Activities
  BY <1>tick DEF Tick
<1>events. CASE EventNext
  <2>1. CASE LogEvent
    BY <2>1 DEF LogEvent
  <2>2. CASE Collect
    <3>1. "events" \in Activities /\ [NoBatch EXCEPT !.events = Read] \in Batches
      BY PageIsInterval, BatchTypes DEF Activities, Batches
    <3>2. bookmark' \in 0 .. MaxEvents
      <4>1. bookmark' = bookmark + Cardinality(Read)
        BY <2>2 DEF Collect
      <4>2. bookmark + Cardinality(Read) \in bookmark .. logged
        BY PageIsInterval
      <4> QED
        BY <4>1, <4>2
    <3> QED
      BY <2>2, <3>1, <3>2, <1>tick, SendOutcome DEF Collect
  <2>3. CASE CollectFails
    BY <2>3, <1>idle, <1>tick DEF CollectFails, Activities
  <2>4. CASE StartSave
    BY <2>4 DEF StartSave
  <2>5. CASE EndSave
    BY <2>5, <1>idle DEF EndSave
  <2> QED
    BY <1>events, <2>1, <2>2, <2>3, <2>4, <2>5 DEF EventNext
<1>capture. CASE CaptureNext
  <2>1. ASSUME NEW d \in Domains, CaptureNew(d) PROVE TypeOK'
    <3>1. aggregates' \in [Domains -> Nat] /\ seen' \in [Counters -> Nat]
      BY <2>1 DEF CaptureNew, Counters
    <3> QED
      BY <2>1, <3>1 DEF CaptureNew
  <2>2. ASSUME NEW d \in Domains, CaptureFind(d) PROVE TypeOK'
    <3>1. seen' \in [Counters -> Nat]
      BY <2>2 DEF CaptureFind, Counters
    <3> QED
      BY <2>2, <3>1 DEF CaptureFind
  <2>3. CASE CaptureCount
    <3>1. aggregates' \in [Domains -> Nat]
      BY <2>3 DEF CaptureCount
    <3>2. drain' \in [keys : SUBSET Domains, of : Domains \cup {None}, count : Nat]
      BY <2>3 DEF CaptureCount
    <3>3. capture' \in [at : {"idle", "found", "counted"}, of : Domains \cup {None}]
      BY <2>3 DEF CaptureCount
    <3> QED
      BY <2>3, <3>1, <3>2, <3>3 DEF CaptureCount
  <2>4. CASE CaptureReplace
    <3>1. aggregates' \in [Domains -> Nat]
      BY <2>4 DEF CaptureReplace
    <3>2. capture' \in [at : {"idle", "found", "counted"}, of : Domains \cup {None}]
      BY <2>4 DEF CaptureReplace, NotCapturing
    <3> QED
      BY <2>4, <3>1, <3>2 DEF CaptureReplace
  <2> QED
    BY <1>capture, <2>1, <2>2, <2>3, <2>4 DEF CaptureNext
<1>drain. CASE DrainNext
  <2>1. CASE StartDrain
    <3>1. "dns" \in Activities
      BY DEF Activities
    <3>2. loop' \in LoopType
      BY <2>1, <3>1, BatchTypes DEF StartDrain
    <3>3. drain' \in [keys : SUBSET Domains, of : Domains \cup {None}, count : Nat]
      BY <2>1 DEF StartDrain, NotDraining
    <3> QED
      BY <2>1, <3>1, <3>2, <3>3, <1>tick DEF StartDrain
  <2>2. ASSUME NEW d \in Domains, DrainRemove(d) PROVE TypeOK'
    <3>1. drains' \in [Domains -> Nat] /\ aggregates' \in [Domains -> Nat]
      BY <2>2 DEF DrainRemove
    <3>2. drain' \in [keys : SUBSET Domains, of : Domains \cup {None}, count : Nat]
      BY <2>2 DEF DrainRemove
    <3> QED
      BY <2>2, <3>1, <3>2 DEF DrainRemove
  <2>3. CASE DrainRead
    <3>1. drain.of \in Counters /\ drain.count \in Nat
      BY <2>3 DEF DrainRead, Counters
    <3>2. [loop.batch EXCEPT !.counts[drain.of] = drain.count] \in Batches
      BY <3>1 DEF Batches
    <3>3. loop' = [loop EXCEPT !.batch = [loop.batch EXCEPT !.counts[drain.of] = drain.count]]
      BY <2>3 DEF DrainRead
    <3>4. loop' \in LoopType
      BY <3>2, <3>3
    <3>5. drain' \in [keys : SUBSET Domains, of : Domains \cup {None}, count : Nat]
      BY <2>3 DEF DrainRead
    <3> QED
      BY <2>3, <3>4, <3>5 DEF DrainRead
  <2>4. CASE EndDrain
    <3>1. "dns" \in Activities /\ loop.batch \in Batches
      BY DEF Activities
    <3> QED
      BY <2>4, <3>1, SendOutcome DEF EndDrain
  <2> QED
    BY <1>drain, <2>1, <2>2, <2>3, <2>4 DEF DrainNext
<1>process. CASE ProcessNext
  <2>0. "processes" \in Activities /\ loop.batch \in Batches
    BY DEF Activities
  <2>1. CASE Scan
    <3> DEFINE found == [NoBatch EXCEPT !.counts[Watched] = 1]
    <3>1. found \in Batches
      BY BatchTypes DEF Batches, Counters
    <3>2. CASE Send("processes", NoBatch) /\ UNCHANGED seen
      BY <2>0, <2>1, <3>2, <1>tick, BatchTypes, SendOutcome DEF Scan
    <3>3. CASE seen' = [seen EXCEPT ![Watched] = @ + 1] /\ Send("processes", found)
      <4>1. seen' \in [Counters -> Nat]
        BY <3>3 DEF Counters
      <4> QED
        BY <2>0, <2>1, <3>1, <3>3, <4>1, <1>tick, SendOutcome DEF Scan
    <3>4. CASE /\ seen' = [seen EXCEPT ![Watched] = @ + 1]
               /\ loop' = [at |-> "kill", what |-> "processes", batch |-> found]
               /\ UNCHANGED <<dropped, lost>>
      <4>1. seen' \in [Counters -> Nat]
        BY <3>4 DEF Counters
      <4>2. loop' \in LoopType
        BY <2>0, <3>1, <3>4
      <4> QED
        BY <2>0, <2>1, <3>4, <4>1, <4>2, <1>tick DEF Scan
    <3> QED
      BY <2>1, <3>2, <3>3, <3>4 DEF Scan
  <2>2. CASE Kill
    BY <2>0, <2>2, SendOutcome DEF Kill
  <2>3. CASE SetExempt
    BY <2>3 DEF SetExempt
  <2> QED
    BY <1>process, <2>1, <2>2, <2>3 DEF ProcessNext
<1>heartbeat. CASE HeartbeatNext
  <2>0. "heartbeat" \in Activities
    BY DEF Activities
  <2>1. CASE StartHeartbeat
    BY <2>0, <2>1, <1>tick, BatchTypes DEF StartHeartbeat
  <2>2. CASE HeartbeatRead
    BY <2>2 DEF HeartbeatRead
  <2>3. CASE HeartbeatReply
    <3>1. loop' \in LoopType
      BY <2>3, <1>idle DEF HeartbeatReply
    <3>2. known' \in BOOLEAN /\ answer' \in BOOLEAN /\ excused' \in BOOLEAN /\ exempt' \in BOOLEAN
      BY <2>3 DEF HeartbeatReply
    <3> QED
      BY <2>3, <3>1, <3>2 DEF HeartbeatReply
  <2>4. CASE HeartbeatFails
    <3>1. loop' \in LoopType
      BY <2>4, <1>idle DEF HeartbeatFails
    <3>2. known' \in BOOLEAN /\ answer' \in BOOLEAN /\ excused' \in BOOLEAN /\ exempt' \in BOOLEAN
      BY <2>4 DEF HeartbeatFails
    <3> QED
      BY <2>4, <3>1, <3>2 DEF HeartbeatFails
  <2> QED
    BY <1>heartbeat, <2>1, <2>2, <2>3, <2>4 DEF HeartbeatNext
<1>request. CASE RequestNext
  <2>1. ASSUME NEW r \in Requests, Post(r) PROVE TypeOK'
    <3>1. [at |-> "sent", batch |-> loop.batch] \in RequestType
      OBVIOUS
    <3>2. requests' \in [Requests -> RequestType]
      BY <2>1, <3>1 DEF Post
    <3>3. loop' \in LoopType
      BY <2>1 DEF Post
    <3> QED
      BY <2>1, <3>2, <3>3 DEF Post
  <2>2. ASSUME NEW r \in Requests, Ingest(r) PROVE TypeOK'
    <3>1. [at |-> "stored", batch |-> NoBatch] \in RequestType
      BY BatchTypes
    <3>2. requests' \in [Requests -> RequestType]
      BY <2>2, <3>1, <1>none DEF Ingest
    <3>3. requests[r].batch.counts \in [Counters -> Nat]
      BY DEF Batches
    <3>4. counts' \in [Counters -> Nat]
      BY <2>2, <3>3, PlusType DEF Ingest, Add
    <3>5. rows' \in [Events -> Nat]
      BY <2>2 DEF Ingest, InsertIgnore
    <3> QED
      BY <2>2, <3>2, <3>4, <3>5 DEF Ingest
  <2>3. ASSUME NEW r \in Requests, IngestFails(r) PROVE TypeOK'
    <3>1. requests[r].batch.counts \in [Counters -> Nat]
      BY DEF Batches
    <3>2. lost' \in [Counters -> Nat]
      BY <2>3, <3>1, PlusType DEF IngestFails
    <3>3. requests' \in [Requests -> RequestType]
      BY <2>3, <1>none DEF IngestFails
    <3> QED
      BY <2>3, <3>2, <3>3 DEF IngestFails
  <2> QED
    BY <1>request, <2>1, <2>2, <2>3 DEF RequestNext
<1>loop. CASE LoopNext
  <2>1. CASE Reply
    <3>1. requests' \in [Requests -> RequestType]
      BY <2>1, <1>none DEF Reply
    <3>2. loop' \in LoopType
      BY <2>1, <1>idle, BatchTypes DEF Reply
    <3> QED
      BY <2>1, <3>1, <3>2 DEF Reply
  <2>2. CASE GiveUp
    <3>1. requests' \in [Requests -> RequestType]
      BY <2>2, <1>none DEF GiveUp
    <3>2. loop.batch.events \subseteq Events
      BY DEF Batches
    <3> QED
      BY <2>2, <3>1, <3>2, <1>idle DEF GiveUp
  <2>3. CASE Restart
    <3>1. requests' \in [Requests -> RequestType]
      BY <2>3, <1>none DEF Restart
    <3>2. ASSUME NEW c \in Counters
          PROVE  /\ (IF loop.at \in {"drain", "kill", "send"} THEN loop.batch.counts[c] ELSE 0) \in Nat
                 /\ (IF c \in Domains THEN aggregates[c] ELSE 0) \in Nat
                 /\ (IF drain.of = c THEN drain.count ELSE 0) \in Nat
                 /\ (IF capture.of = c /\ (capture.at = "found" \/ aggregates[c] = 0) THEN 1 ELSE 0) \in Nat
                 /\ lost[c] \in Nat
      <4>1. loop.batch.counts \in [Counters -> Nat]
        BY DEF Batches
      <4> QED
        BY <4>1
    <3>3. lost' \in [Counters -> Nat]
      BY <2>3, <3>2 DEF Restart
    <3>4. capture' \in [at : {"idle", "found", "counted"}, of : Domains \cup {None}]
          /\ drain' \in [keys : SUBSET Domains, of : Domains \cup {None}, count : Nat]
      BY <2>3 DEF Restart, NotCapturing, NotDraining
    <3>5. loop' \in LoopType
      BY <2>3, <1>idle DEF Restart
    <3>6. /\ starts' = starts + 1 /\ first' = Activities /\ bookmark' = saved
          /\ dropped' = {e \in dropped : e <= saved} /\ aggregates' = [d \in Domains |-> 0]
          /\ known' = FALSE /\ answer' = FALSE /\ excused' = FALSE /\ awaited' = None
          /\ UNCHANGED <<logged, saved, rows, counts, exempt, seen, drains>>
      BY <2>3 DEF Restart
    <3>7. /\ starts' \in Nat /\ first' \subseteq Activities /\ bookmark' \in 0 .. MaxEvents
          /\ dropped' \subseteq Events /\ aggregates' \in [Domains -> Nat]
          /\ awaited' \in Requests \cup {None} /\ drains' \in [Domains -> Nat]
      BY <3>6
    <3>8. /\ known' \in BOOLEAN /\ answer' \in BOOLEAN /\ excused' \in BOOLEAN /\ exempt' \in BOOLEAN
          /\ rows' \in [Events -> Nat] /\ counts' \in [Counters -> Nat] /\ seen' \in [Counters -> Nat]
          /\ logged' \in 0 .. MaxEvents /\ saved' \in 0 .. MaxEvents
      BY <3>6
    <3> QED
      BY <3>1, <3>3, <3>4, <3>5, <3>7, <3>8
  <2> QED
    BY <1>loop, <2>1, <2>2, <2>3 DEF LoopNext
<1>stutter. CASE UNCHANGED vars
  BY <1>stutter
<1> QED
  BY <1>events, <1>capture, <1>drain, <1>process, <1>heartbeat, <1>request, <1>loop, <1>stutter DEF Next
-----------------------------------------------------------------------------
(* The event log.                                                          *)

\* What a step that leaves the event log alone may do to the loop: put another
\* batch without events in its hands, or its own on or off the way.
EventsAside ==
  /\ UNCHANGED <<eventVars, rows, dropped, requests, awaited>>
  /\ loop.batch.events = {} /\ loop'.batch.events = {}
  /\ loop.at # "wait" /\ loop'.at # "wait"

LEMMA AsideKeepsEvents ==
  ASSUME EventInv, EventsAside
  PROVE  EventInv'
  BY DEF EventInv, EventsAside, BookmarksInOrder, BatchIsUnsaved, AwaitedCarriesBatch,
         PassedEventsAreAccounted, EventsStoredOnce, eventVars

LEMMA SendsAside ==
  ASSUME TypeOK, EventInv, NEW a \in Activities, NEW b \in Batches, Send(a, b), b.events = {},
         loop.at \notin {"send", "wait"},
         UNCHANGED <<eventVars, rows, requests, awaited>>
  PROVE  EventInv'
<1>1. loop.batch.events = {}
  BY DEF EventInv, BatchIsUnsaved
<1>2. CASE loop'.at = "send" /\ loop'.batch = b /\ dropped' = dropped
  BY <1>1, <1>2, AsideKeepsEvents DEF EventsAside
<1>3. CASE loop' = Idle /\ dropped' = dropped \cup b.events
  <2>1. dropped' = dropped
    BY <1>3, SMT
  <2>2. loop'.batch.events = {} /\ loop'.at # "wait"
    BY <1>3, BatchTypes
  <2> QED
    BY <1>1, <2>1, <2>2, AsideKeepsEvents DEF EventsAside
<1> QED
  BY <1>2, <1>3, SendOutcome

LEMMA CollectKeepsEvents ==
  ASSUME TypeOK, EventInv, Collect
  PROVE  EventInv'
<1> USE DEF EventInv
<1> DEFINE batch == [NoBatch EXCEPT !.events = Read]
<1>1. /\ loop.at = "idle" /\ bookmark' = bookmark + Cardinality(Read) /\ Send("events", batch)
      /\ UNCHANGED <<logged, saved, rows, requests, awaited>>
  BY DEF Collect, Tick, serverVars
<1>2. batch \in Batches /\ batch.events = Read /\ "events" \in Activities
  BY PageIsInterval, BatchTypes DEF Activities, Batches
<1> HIDE DEF batch
<1>3. \/ loop'.at = "send" /\ loop'.batch = batch /\ dropped' = dropped
      \/ loop' = Idle /\ dropped' = dropped \cup Read
  BY <1>1, <1>2, SendOutcome
<1>4. /\ bookmark' \in bookmark .. logged /\ Read = bookmark + 1 .. bookmark'
      /\ bookmark \in Nat /\ saved \in Nat /\ logged \in Nat
  BY <1>1, PageIsInterval, TelemetryAssumption DEF TypeOK
<1>5. BookmarksInOrder'
  BY <1>1, <1>4 DEF BookmarksInOrder
<1>6. BatchIsUnsaved'
  <2>1. \A e \in Read : saved < e
    BY <1>4 DEF BookmarksInOrder
  <2>2. loop'.batch.events = {} \/ (loop'.at = "send" /\ loop'.batch.events = Read)
    <3>1. loop'.batch = NoBatch \/ (loop'.at = "send" /\ loop'.batch = batch)
      BY <1>3, BatchTypes
    <3> QED
      BY <1>2, <3>1, BatchTypes
  <2>3. saved' = saved
    BY <1>1
  <2> QED
    BY <2>1, <2>2, <2>3 DEF BatchIsUnsaved
<1>7. AwaitedCarriesBatch'
  BY <1>1, <1>3, BatchTypes DEF AwaitedCarriesBatch
<1>8. PassedEventsAreAccounted'
  <2> SUFFICES ASSUME NEW e \in 1 .. bookmark'
               PROVE  (rows[e] > 0)' \/ e \in loop'.batch.events \/ e \in dropped'
    BY DEF PassedEventsAreAccounted
  <2>1. CASE e \in 1 .. bookmark
    <3>1. loop.batch.events = {}
      BY <1>1 DEF BatchIsUnsaved
    <3> QED
      BY <1>1, <1>3, <2>1, <3>1 DEF PassedEventsAreAccounted
  <2>2. CASE e \in Read
    BY <1>2, <1>3, <2>2
  <2>3. e \in 1 .. bookmark \/ e \in bookmark + 1 .. bookmark'
    BY <1>4
  <2> QED
    BY <1>4, <2>1, <2>2, <2>3
<1>9. EventsStoredOnce'
  BY <1>1 DEF EventsStoredOnce
<1> QED
  BY <1>5, <1>6, <1>7, <1>8, <1>9

LEMMA RequestsKeepEvents ==
  ASSUME TypeOK, EventInv, NEW r \in Requests, Post(r) \/ Ingest(r) \/ IngestFails(r)
  PROVE  EventInv'
<1> USE TelemetryAssumption DEF EventInv
<1>1. CASE Post(r)
  <2>1. /\ loop.at = "send" /\ loop' = [loop EXCEPT !.at = "wait"] /\ awaited' = r /\ r # None
        /\ requests'[r] = [at |-> "sent", batch |-> loop.batch]
        /\ UNCHANGED <<logged, bookmark, saved, rows, dropped>>
    BY <1>1 DEF Post, eventVars, historyVars, TypeOK
  <2>2. loop'.at = "wait" /\ loop'.batch = loop.batch
    BY <2>1 DEF TypeOK
  <2> QED
    BY <2>1, <2>2 DEF BookmarksInOrder, BatchIsUnsaved, AwaitedCarriesBatch, PassedEventsAreAccounted, EventsStoredOnce
<1>2. CASE Ingest(r)
  <2>1. /\ requests[r].at = "sent" /\ UNCHANGED <<loop, logged, bookmark, saved, awaited, dropped>>
        /\ rows' = [e \in Events |-> IF e \in requests[r].batch.events /\ rows[e] = 0 THEN 1 ELSE rows[e]]
        /\ requests' = [requests EXCEPT ![r] = IF awaited = r THEN [at |-> "stored", batch |-> NoBatch]
                                               ELSE NoRequest]
    BY <1>2 DEF Ingest, InsertIgnore, agentVars, eventVars, historyVars
  <2>2. \A e \in Events : /\ rows[e] > 0 => rows'[e] > 0
                          /\ e \in requests[r].batch.events => rows'[e] > 0
                          /\ rows'[e] <= 1
    BY <2>1 DEF EventsStoredOnce, TypeOK
  <2>3. 1 .. bookmark \subseteq Events /\ loop.batch.events \subseteq Events
    BY DEF TypeOK, Events, Batches
  <2>4. AwaitedCarriesBatch'
    <3>1. CASE awaited = r
      <4>1. requests'[awaited].at = "stored"
        BY <2>1, <3>1 DEF TypeOK
      <4> QED
        BY <2>1, <2>2, <2>3, <3>1, <4>1 DEF AwaitedCarriesBatch
    <3>2. CASE awaited # r
      <4>1. awaited # None => requests'[awaited] = requests[awaited]
        BY <2>1, <3>2 DEF TypeOK
      <4> QED
        BY <2>1, <2>2, <2>3, <4>1 DEF AwaitedCarriesBatch
    <3> QED
      BY <3>1, <3>2
  <2> QED
    BY <2>1, <2>2, <2>3, <2>4 DEF BookmarksInOrder, BatchIsUnsaved, PassedEventsAreAccounted, EventsStoredOnce
<1>3. CASE IngestFails(r)
  <2>1. /\ UNCHANGED <<loop, logged, bookmark, saved, awaited, dropped, rows>>
        /\ requests' = [requests EXCEPT ![r] = NoRequest]
    BY <1>3 DEF IngestFails, agentVars, eventVars
  <2>2. awaited # None => requests'[awaited] = requests[awaited] \/ requests'[awaited].at = "none"
    BY <2>1 DEF TypeOK, NoRequest
  <2> QED
    BY <2>1, <2>2 DEF BookmarksInOrder, BatchIsUnsaved, AwaitedCarriesBatch, PassedEventsAreAccounted, EventsStoredOnce
<1> QED
  BY <1>1, <1>2, <1>3

LEMMA LoopKeepsEvents ==
  ASSUME TypeOK, EventInv, LoopNext
  PROVE  EventInv'
<1> USE TelemetryAssumption DEF EventInv
<1>1. CASE Reply
  <2>1. /\ awaited # None /\ requests[awaited].at = "stored" /\ awaited' = None
        /\ UNCHANGED <<logged, bookmark, saved, rows, dropped>>
    BY <1>1 DEF Reply, eventVars, historyVars
  <2>2. loop'.at \in {"save", "idle"} /\ loop'.batch = NoBatch
    BY <1>1, BatchTypes DEF Reply, TypeOK
  <2>3. \A e \in loop.batch.events : rows[e] > 0
    BY <2>1 DEF AwaitedCarriesBatch
  <2> QED
    BY <2>1, <2>2, <2>3, BatchTypes DEF BookmarksInOrder, BatchIsUnsaved, AwaitedCarriesBatch, PassedEventsAreAccounted, EventsStoredOnce
<1>2. CASE GiveUp
  <2>1. /\ awaited' = None /\ loop' = Idle /\ dropped' = dropped \cup loop.batch.events
        /\ UNCHANGED <<logged, bookmark, saved, rows>>
    BY <1>2 DEF GiveUp, eventVars
  <2> QED
    BY <2>1, BatchTypes DEF BookmarksInOrder, BatchIsUnsaved, AwaitedCarriesBatch, PassedEventsAreAccounted, EventsStoredOnce
<1>3. CASE Restart
  <2>1. /\ awaited' = None /\ loop' = Idle /\ bookmark' = saved
        /\ dropped' = {e \in dropped : e <= saved}
        /\ UNCHANGED <<logged, saved, rows>>
    BY <1>3 DEF Restart
  <2>2. saved \in Nat /\ bookmark \in Nat /\ logged \in Nat /\ loop.batch.events \subseteq Nat
    BY DEF TypeOK, Batches, Events
  <2>3. PassedEventsAreAccounted'
    <3> SUFFICES ASSUME NEW e \in 1 .. saved PROVE rows[e] > 0 \/ e \in dropped'
      BY <2>1 DEF PassedEventsAreAccounted
    <3>1. e \in 1 .. bookmark /\ e \notin loop.batch.events
      BY <2>2 DEF BookmarksInOrder, BatchIsUnsaved
    <3> QED
      BY <2>1, <3>1 DEF PassedEventsAreAccounted
  <2> QED
    BY <2>1, <2>2, <2>3, BatchTypes DEF BookmarksInOrder, BatchIsUnsaved, AwaitedCarriesBatch, EventsStoredOnce
<1> QED
  BY <1>1, <1>2, <1>3 DEF LoopNext

LEMMA NextEventInv ==
  ASSUME TypeOK, EventInv, [Next]_vars
  PROVE  EventInv'
<1> USE DEF agentVars, eventVars, dnsVars, serverVars, exemptVars, historyVars
<1>hand. /\ loop.at \notin {"send", "wait"} => loop.batch.events = {}
         /\ loop.batch \in Batches
  BY DEF EventInv, BatchIsUnsaved, TypeOK
<1>act. Activities = {"heartbeat", "events", "dns", "processes"} /\ NoBatch \in Batches /\ NoBatch.events = {}
  BY BatchTypes DEF Activities
<1>events. CASE EventNext
  <2>1. CASE LogEvent
    BY <2>1, TelemetryAssumption DEF LogEvent, EventInv, BookmarksInOrder, BatchIsUnsaved, AwaitedCarriesBatch,
       PassedEventsAreAccounted, EventsStoredOnce, TypeOK
  <2>2. CASE CollectFails
    BY <2>2, <1>hand, AsideKeepsEvents, BatchTypes DEF CollectFails, Tick, EventsAside
  <2>3. CASE StartSave \/ EndSave
    <3>1. /\ loop.at = "save" /\ loop'.at \in {"save", "idle"} /\ loop'.batch.events = {}
          /\ saved' \in {0, saved, bookmark} /\ UNCHANGED <<logged, bookmark, rows, requests, awaited, dropped>>
      BY <2>3, <1>hand, BatchTypes DEF StartSave, EndSave
    <3>2. saved \in Nat /\ bookmark \in Nat /\ logged \in Nat
      BY TelemetryAssumption DEF TypeOK
    <3> QED
      BY <3>1, <3>2, <1>hand DEF EventInv, BookmarksInOrder, BatchIsUnsaved, AwaitedCarriesBatch,
         PassedEventsAreAccounted, EventsStoredOnce
  <2> QED
    BY <1>events, <2>1, <2>2, <2>3, CollectKeepsEvents DEF EventNext
<1>capture. CASE CaptureNext \/ UNCHANGED vars
  <2>1. UNCHANGED <<loop, logged, bookmark, saved, rows, dropped, requests, awaited>>
    BY <1>capture DEF CaptureNext, CaptureNew, CaptureFind, CaptureCount, CaptureReplace, vars
  <2> QED
    BY <2>1 DEF EventInv, BookmarksInOrder, BatchIsUnsaved, AwaitedCarriesBatch, PassedEventsAreAccounted, EventsStoredOnce
<1>drain. CASE DrainNext
  <2>1. CASE StartDrain
    BY <2>1, <1>hand, <1>act, AsideKeepsEvents DEF StartDrain, Tick, EventsAside
  <2>2. ASSUME NEW d \in Domains, DrainRemove(d) PROVE EventInv'
    BY <2>2, <1>hand, AsideKeepsEvents DEF DrainRemove, EventsAside
  <2>3. CASE DrainRead
    <3>1. loop.at = "drain" /\ loop'.at = "drain" /\ loop'.batch.events = loop.batch.events
      BY <2>3 DEF DrainRead, TypeOK, Batches
    <3> QED
      BY <2>3, <3>1, <1>hand, AsideKeepsEvents DEF DrainRead, EventsAside
  <2>4. CASE EndDrain
    BY <2>4, <1>hand, <1>act, SendsAside DEF EndDrain
  <2> QED
    BY <1>drain, <2>1, <2>2, <2>3, <2>4 DEF DrainNext
<1>process. CASE ProcessNext
  <2>1. CASE Scan
    <3> DEFINE found == [NoBatch EXCEPT !.counts[Watched] = 1]
    <3>1. found \in Batches /\ found.events = {}
      BY BatchTypes DEF Batches, Counters
    <3>2. loop.at = "idle"
      BY <2>1 DEF Scan, Tick
    <3>3. UNCHANGED <<eventVars, rows, requests, awaited>>
      BY <2>1 DEF Scan
    <3>4. CASE Send("processes", NoBatch) \/ Send("processes", found)
      BY <3>1, <3>2, <3>3, <3>4, <1>act, SendsAside
    <3>5. CASE loop' = [at |-> "kill", what |-> "processes", batch |-> found] /\ UNCHANGED dropped
      BY <3>1, <3>2, <3>3, <3>5, <1>hand, AsideKeepsEvents DEF EventsAside
    <3> QED
      BY <2>1, <3>4, <3>5 DEF Scan
  <2>2. CASE Kill
    BY <2>2, <1>hand, <1>act, SendsAside DEF Kill
  <2>3. CASE SetExempt
    BY <2>3 DEF SetExempt, EventInv, BookmarksInOrder, BatchIsUnsaved, AwaitedCarriesBatch,
       PassedEventsAreAccounted, EventsStoredOnce
  <2> QED
    BY <1>process, <2>1, <2>2, <2>3 DEF ProcessNext
<1>heartbeat. CASE HeartbeatNext
  <2>1. /\ UNCHANGED <<eventVars, rows, dropped, requests, awaited>>
        /\ loop.at \in {"idle", "heartbeat", "answered"} /\ loop'.at # "wait"
        /\ loop'.batch.events = {} \/ loop'.batch = loop.batch
    BY <1>heartbeat, BatchTypes
       DEF HeartbeatNext, StartHeartbeat, HeartbeatRead, HeartbeatReply, HeartbeatFails, Tick, TypeOK
  <2> QED
    BY <2>1, <1>hand, AsideKeepsEvents DEF EventsAside
<1> QED
  BY <1>events, <1>capture, <1>drain, <1>process, <1>heartbeat, RequestsKeepEvents, LoopKeepsEvents
     DEF Next, RequestNext
-----------------------------------------------------------------------------
(* The exemption.                                                          *)

LEMMA NextExemptInv ==
  ASSUME TypeOK, EventInv, ExemptInv, [Next]_vars
  PROVE  ExemptInv'
<1> USE DEF ExemptInv, HeardOrExcused, KillsWhenTold, agentVars, eventVars, dnsVars, serverVars, exemptVars, historyVars
<1>act. Activities = {"heartbeat", "events", "dns", "processes"} /\ NoBatch \in Batches
  BY BatchTypes DEF Activities
<1>batch. loop.batch \in Batches /\ Idle.at = "idle"
  BY BatchTypes DEF TypeOK
\* A tick other than the heartbeat comes after the first heartbeat.
<1>tick. ASSUME NEW a \in {"events", "dns", "processes"}, Tick(a)
         PROVE  /\ loop.at = "idle" /\ "heartbeat" \notin first /\ "heartbeat" \notin first'
  BY <1>tick DEF Tick, Before
<1>send. ASSUME NEW a \in Activities, NEW b \in Batches, Send(a, b)
         PROVE  loop'.at \in {"idle", "send"}
  BY <1>send, SendOutcome, BatchTypes
<1>events. CASE EventNext
  <2>1. CASE LogEvent \/ StartSave
    BY <2>1 DEF LogEvent, StartSave
  <2>2. CASE Collect \/ CollectFails
    <3>1. Tick("events") /\ loop'.at \in {"idle", "send"} /\ UNCHANGED <<known, exempt, excused>>
      <4>1. CASE Collect
        BY <4>1, BatchTypes DEF Collect, Send
      <4>2. CASE CollectFails
        BY <4>2, BatchTypes DEF CollectFails
      <4> QED
        BY <2>2, <4>1, <4>2
    <3> QED
      BY <3>1, <1>tick
  <2>3. CASE EndSave
    BY <2>3, <1>batch DEF EndSave
  <2> QED
    BY <1>events, <2>1, <2>2, <2>3 DEF EventNext
<1>capture. CASE CaptureNext \/ UNCHANGED vars
  BY <1>capture DEF CaptureNext, CaptureNew, CaptureFind, CaptureCount, CaptureReplace, vars
<1>drain. CASE DrainNext
  <2>1. CASE StartDrain
    <3>1. loop'.at = "drain" /\ UNCHANGED <<known, exempt, excused>>
      BY <2>1 DEF StartDrain
    <3> QED
      BY <2>1, <3>1, <1>tick DEF StartDrain
  <2>2. ASSUME NEW d \in Domains, DrainRemove(d) PROVE ExemptInv'
    BY <2>2 DEF DrainRemove
  <2>3. CASE DrainRead
    <3>1. loop'.at = "drain"
      BY <2>3 DEF DrainRead, TypeOK
    <3> QED
      BY <2>3, <3>1 DEF DrainRead
  <2>4. CASE EndDrain
    BY <2>4, <1>act, <1>batch, <1>send DEF EndDrain
  <2> QED
    BY <1>drain, <2>1, <2>2, <2>3, <2>4 DEF DrainNext
<1>process. CASE ProcessNext
  <2>1. CASE Scan
    <3>1. Tick("processes") /\ UNCHANGED <<known, exempt, excused>>
      BY <2>1 DEF Scan
    <3>2. loop'.at \in {"idle", "send"} \/ (loop'.at = "kill" /\ ~known)
      BY <2>1, BatchTypes DEF Scan, Send
    <3> QED
      BY <3>1, <3>2, <1>tick
  <2>2. CASE Kill
    BY <2>2, <1>act, <1>batch, <1>send DEF Kill
  <2>3. CASE SetExempt
    BY <2>3 DEF SetExempt
  <2> QED
    BY <1>process, <2>1, <2>2, <2>3 DEF ProcessNext
<1>heartbeat. CASE HeartbeatNext
  <2>1. CASE StartHeartbeat
    BY <2>1 DEF StartHeartbeat
  <2>2. CASE HeartbeatRead
    BY <2>2 DEF HeartbeatRead, TypeOK
  <2>3. CASE HeartbeatReply
    <3>1. loop'.at = "idle" /\ UNCHANGED exempt
      BY <2>3, <1>batch DEF HeartbeatReply
    <3>2. known' = answer /\ excused' = (answer # exempt)
      BY <2>3 DEF HeartbeatReply
    <3>3. exempt \in BOOLEAN /\ answer \in BOOLEAN
      BY DEF TypeOK
    <3>4. known' = exempt' \/ excused'
      BY <3>1, <3>2, <3>3
    <3> QED
      BY <3>1, <3>4
  <2>4. CASE HeartbeatFails
    <3>1. loop'.at = "idle" /\ UNCHANGED <<exempt, known>> /\ excused' = (excused \/ known # exempt)
      BY <2>4, <1>batch DEF HeartbeatFails
    <3> QED
      BY <3>1
  <2> QED
    BY <1>heartbeat, <2>1, <2>2, <2>3, <2>4 DEF HeartbeatNext
<1>request. CASE RequestNext
  <2> SUFFICES ASSUME NEW r \in Requests, Post(r) \/ Ingest(r) \/ IngestFails(r)
               PROVE  ExemptInv'
    BY <1>request DEF RequestNext
  <2>1. CASE Post(r)
    <3>1. loop.at = "send" /\ loop'.at = "wait"
      BY <2>1 DEF Post, TypeOK
    <3> QED
      BY <2>1, <3>1 DEF Post
  <2>2. CASE Ingest(r)
    BY <2>2 DEF Ingest
  <2>3. CASE IngestFails(r)
    BY <2>3 DEF IngestFails
  <2> QED
    BY <2>1, <2>2, <2>3
<1>loop. CASE LoopNext
  <2>0. awaited # None => loop.at = "wait"
    BY DEF EventInv, AwaitedCarriesBatch
  <2>1. CASE Reply
    <3>1. loop.at = "wait" /\ loop'.at \in {"save", "idle"}
      BY <2>0, <2>1, <1>batch DEF Reply, TypeOK
    <3> QED
      BY <2>1, <3>1 DEF Reply
  <2>2. CASE GiveUp
    BY <2>0, <2>2, <1>batch DEF GiveUp
  <2>3. CASE Restart
    <3>1. loop'.at = "idle" /\ "heartbeat" \in first'
      BY <2>3, <1>act, <1>batch DEF Restart
    <3> QED
      BY <3>1
  <2> QED
    BY <1>loop, <2>1, <2>2, <2>3 DEF LoopNext
<1> QED
  BY <1>events, <1>capture, <1>drain, <1>process, <1>heartbeat, <1>request, <1>loop DEF Next
-----------------------------------------------------------------------------
(* Sums over the requests.                                                 *)

\* A set of numbers up to a bound has a least one, as the strict subsets of a finite set are
\* well-founded.
LEMMA LeastNumber ==
  ASSUME NEW bound \in Nat, NEW T \in SUBSET (0 .. bound), T # {}
  PROVE  \E n \in T : \A m \in T : n <= m
<1>. DEFINE S == 0 .. bound
            F == {0 .. n : n \in T}
<1>1. IsFiniteSet(S)
  BY FS_Interval
<1>2. IsWellFoundedOn(StrictSubsetOrdering(S), SUBSET S)
  BY <1>1, FS_FiniteSubsetsOfFinite, FS_StrictSubsetOrderingWellFounded
<1>3. \A n \in T : 0 .. n \subseteq S /\ 0 .. n \in F
  OBVIOUS
<1>4. PICK x \in F : \A y \in F : ~(<<y, x>> \in StrictSubsetOrdering(S))
  <2>1. F \subseteq SUBSET S /\ F # {}
    BY <1>3
  <2>. HIDE DEF F
  <2>. QED
    BY <1>2, <2>1, WFMin
<1>5. PICK n \in T : x = 0 .. n
  OBVIOUS
<1>6. ASSUME NEW m \in T, m < n PROVE FALSE
  <2>1. m \in Nat /\ n \in Nat
    OBVIOUS
  <2>2. n \in 0 .. n /\ n \notin 0 .. m /\ 0 .. m \subseteq 0 .. n
    BY <2>1, <1>6
  <2>3. 0 .. m \in F /\ 0 .. m \in SUBSET S /\ 0 .. n \in SUBSET S /\ 0 .. m # 0 .. n
    BY <1>3, <2>2
  <2>4. <<0 .. m, 0 .. n>> \in StrictSubsetOrdering(S)
    <3>. HIDE DEF S
    <3>1. \A a, b \in SUBSET S : a \subseteq b /\ a # b => <<a, b>> \in StrictSubsetOrdering(S)
      BY DEF StrictSubsetOrdering
    <3>. QED
      BY <3>1, <2>3, <2>2
  <2>. HIDE DEF S, F
  <2>. QED
    BY <2>3, <2>4, <1>4, <1>5
<1>7. \A m \in T : m \in Nat /\ n \in Nat
  OBVIOUS
<1>. QED
  BY <1>6, <1>7

Sums(f, k, s) == s[0] = 0 /\ \A n \in 1 .. k : s[n] = s[n - 1] + f[n]
HasSum(f, k) == \E s \in [0 .. k -> Nat] : Sums(f, k, s)

LEMMA SumsExist == ASSUME NEW f \in [Requests -> Nat] PROVE HasSum(f, MaxRequests)
<1>. DEFINE Bad == {k \in 0 .. MaxRequests : ~HasSum(f, k)}
<1>1. ASSUME NEW k \in Bad, \A m \in Bad : k <= m PROVE FALSE
  <2>0. k \in Nat /\ k <= MaxRequests /\ ~HasSum(f, k)
    BY TelemetryAssumption
  <2>1. CASE k = 0
    <3>. DEFINE s == [n \in 0 .. 0 |-> 0]
    <3>1. s \in [0 .. 0 -> Nat] /\ s[0] = 0
      OBVIOUS
    <3>2. Sums(f, 0, s)
      BY <3>1 DEF Sums
    <3>. QED
      BY <3>1, <3>2, <2>1, <2>0 DEF HasSum
  <2>2. CASE k # 0
    <3>1. k - 1 \in 0 .. MaxRequests /\ k - 1 \notin Bad
      <4>1. k - 1 \in 0 .. MaxRequests /\ ~(k <= k - 1)
        BY <2>0, <2>2, TelemetryAssumption
      <4>. QED
        BY <4>1, <1>1
    <3>2. HasSum(f, k - 1)
      BY <3>1
    <3>3. PICK s \in [0 .. k - 1 -> Nat] : Sums(f, k - 1, s)
      BY <3>2 DEF HasSum
    <3>. DEFINE t == [n \in 0 .. k |-> IF n = k THEN s[k - 1] + f[k] ELSE s[n]]
    <3>4. k \in Requests /\ f[k] \in Nat /\ k - 1 \in 0 .. k - 1 /\ s[k - 1] \in Nat
      BY <2>0, <2>2, TelemetryAssumption DEF Requests
    <3>5. t \in [0 .. k -> Nat]
      BY <3>4, <2>0, <2>2
    <3>6. \A n \in 0 .. k - 1 : t[n] = s[n]
      BY <2>0, <2>2
    <3>7. t[k] = s[k - 1] + f[k]
      BY <2>0
    <3>8. t[0] = 0 /\ \A n \in 1 .. k : t[n] = t[n - 1] + f[n]
      <4>. HIDE DEF t
      <4>1. t[0] = 0
        BY <3>6, <3>3, <2>0, <2>2 DEF Sums
      <4>2. ASSUME NEW n \in 1 .. k PROVE t[n] = t[n - 1] + f[n]
        <5>1. n - 1 \in 0 .. k - 1 /\ t[n - 1] = s[n - 1]
          BY <3>6, <2>0
        <5>2. CASE n = k
          BY <5>1, <5>2, <3>7
        <5>3. CASE n # k
          <6>1. n \in 1 .. k - 1 /\ n \in 0 .. k - 1
            BY <5>3, <2>0
          <6>. QED
            BY <6>1, <5>1, <3>6, <3>3 DEF Sums
        <5>. QED
          BY <5>2, <5>3
      <4>. QED
        BY <4>1, <4>2
    <3>9. Sums(f, k, t)
      BY <3>8 DEF Sums
    <3>10. HasSum(f, k)
      <4>. HIDE DEF t
      <4>. QED
        BY <3>5, <3>9 DEF HasSum
    <3>. QED
      BY <3>10, <2>0
  <2>. QED
    BY <2>1, <2>2
<1>2. Bad \in SUBSET (0 .. MaxRequests)
  OBVIOUS
<1>3. Bad = {}
  <2>. HIDE DEF Bad
  <2>. QED
    BY <1>2, <1>1, LeastNumber, TelemetryAssumption
<1>. QED
  BY <1>3, TelemetryAssumption

LEMMA SumsOf ==
  ASSUME NEW f \in [Requests -> Nat]
  PROVE  \E s \in [0 .. MaxRequests -> Nat] : Sums(f, MaxRequests, s) /\ SumOf(f) = s[MaxRequests]
<1>3. PICK s \in [0 .. MaxRequests -> Nat] : Sums(f, MaxRequests, s)
  BY SumsExist DEF HasSum
<1>4. s = [n \in 0 .. MaxRequests |-> IF n = 0 THEN 0 ELSE s[n - 1] + f[n]]
  <2>1. \A n \in 0 .. MaxRequests : s[n] = IF n = 0 THEN 0 ELSE s[n - 1] + f[n]
    BY <1>3, TelemetryAssumption DEF Sums
  <2>. QED
    BY <2>1
<1>. DEFINE u == CHOOSE u : u = [n \in 0 .. MaxRequests |-> IF n = 0 THEN 0 ELSE u[n - 1] + f[n]]
<1>5. u = [n \in 0 .. MaxRequests |-> IF n = 0 THEN 0 ELSE u[n - 1] + f[n]]
  BY <1>4
<1>6. SumOf(f) = u[MaxRequests]
  BY DEF SumOf
<1>. HIDE DEF u
<1>7. Sums(f, MaxRequests, u)
  <2>1. \A n \in 0 .. MaxRequests : u[n] = IF n = 0 THEN 0 ELSE u[n - 1] + f[n]
    BY <1>5
  <2>. QED
    BY <2>1, TelemetryAssumption DEF Sums
<1>8. u[MaxRequests] = s[MaxRequests]
  <2>. DEFINE Odd == {n \in 0 .. MaxRequests : u[n] # s[n]}
  <2>1. ASSUME NEW k \in Odd, \A m \in Odd : k <= m PROVE FALSE
    <3>1. k # 0
      BY <1>7, <1>3, TelemetryAssumption DEF Sums
    <3>2. k \in 1 .. MaxRequests /\ k - 1 \in 0 .. MaxRequests /\ k - 1 \notin Odd
      BY <3>1, <2>1, TelemetryAssumption
    <3>. QED
      BY <3>2, <3>1, <1>7, <1>3 DEF Sums
  <2>2. Odd \in SUBSET (0 .. MaxRequests)
    OBVIOUS
  <2>3. Odd = {}
    <3>. HIDE DEF Odd
    <3>. QED
      BY <2>1, <2>2, LeastNumber, TelemetryAssumption
  <2>4. \A n \in 0 .. MaxRequests : u[n] = s[n]
    BY <2>3
  <2>. QED
    BY <2>4, TelemetryAssumption
<1>. QED
  BY <1>3, <1>6, <1>8 DEF Sums

\* A sum of nothing.
LEMMA SumOfNone ==
  ASSUME NEW f \in [Requests -> Nat], \A r \in Requests : f[r] = 0
  PROVE  SumOf(f) = 0
<1>1. PICK s \in [0 .. MaxRequests -> Nat] : Sums(f, MaxRequests, s) /\ SumOf(f) = s[MaxRequests]
  BY SumsOf
<1>. DEFINE Odd == {n \in 0 .. MaxRequests : s[n] # 0}
<1>2. ASSUME NEW k \in Odd, \A m \in Odd : k <= m PROVE FALSE
  <2>1. k # 0
    BY <1>1 DEF Sums
  <2>2. k \in 1 .. MaxRequests /\ k - 1 \in 0 .. MaxRequests /\ k - 1 \notin Odd
    BY <2>1, <1>2, TelemetryAssumption
  <2>. QED
    BY <2>2, <1>1 DEF Sums, Requests
<1>3. Odd \in SUBSET (0 .. MaxRequests)
  OBVIOUS
<1>4. Odd = {}
  <2>. HIDE DEF Odd
  <2>. QED
    BY <1>2, <1>3, LeastNumber, TelemetryAssumption
<1>. QED
  BY <1>1, <1>4, TelemetryAssumption

\* One summand is replaced.
LEMMA SumOfChanged ==
  ASSUME NEW f \in [Requests -> Nat], NEW g \in [Requests -> Nat], NEW r \in Requests,
         \A q \in Requests \ {r} : g[q] = f[q]
  PROVE  SumOf(f) \in Nat /\ SumOf(g) \in Nat /\ SumOf(g) + f[r] = SumOf(f) + g[r]
<1>1. PICK s \in [0 .. MaxRequests -> Nat] : Sums(f, MaxRequests, s) /\ SumOf(f) = s[MaxRequests]
  BY SumsOf
<1>2. PICK t \in [0 .. MaxRequests -> Nat] : Sums(g, MaxRequests, t) /\ SumOf(g) = t[MaxRequests]
  BY SumsOf
<1>. DEFINE Right(n) == IF n < r THEN t[n] = s[n] ELSE t[n] + f[r] = s[n] + g[r]
            Odd == {n \in 0 .. MaxRequests : ~Right(n)}
<1>0. r \in 1 .. MaxRequests /\ r \in Nat /\ f[r] \in Nat /\ g[r] \in Nat /\ MaxRequests \in Nat
  BY TelemetryAssumption DEF Requests
<1>3. ASSUME NEW k \in Odd, \A m \in Odd : k <= m PROVE FALSE
  <2>1. k # 0
    BY <1>0, <1>1, <1>2 DEF Sums
  <2>2. k \in 1 .. MaxRequests /\ k - 1 \in 0 .. MaxRequests /\ Right(k - 1)
    <3>1. k - 1 \in 0 .. MaxRequests /\ ~(k <= k - 1)
      BY <2>1, <1>0
    <3>. QED
      BY <3>1, <1>3, <2>1, <1>0
  <2>3. s[k] = s[k - 1] + f[k] /\ t[k] = t[k - 1] + g[k] /\ s[k - 1] \in Nat /\ t[k - 1] \in Nat /\ f[k] \in Nat /\ g[k] \in Nat
    <3>1. s[k] = s[k - 1] + f[k]
      BY <2>2, <1>1 DEF Sums
    <3>2. t[k] = t[k - 1] + g[k]
      BY <2>2, <1>2 DEF Sums
    <3>3. s[k - 1] \in Nat /\ t[k - 1] \in Nat
      BY <2>2, <1>1, <1>2
    <3>4. f[k] \in Nat /\ g[k] \in Nat
      BY <2>2 DEF Requests
    <3> QED
      BY <3>1, <3>2, <3>3, <3>4
  <2>4. CASE k < r
    BY <2>2, <2>3, <2>4, <1>0 DEF Requests
  <2>5. CASE k = r
    BY <2>2, <2>3, <2>5, <1>0
  <2>6. CASE k > r
    <3>1. f[k] = g[k]
      BY <2>2, <2>6, <1>0 DEF Requests
    <3>2. ~(k < r) /\ ~(k - 1 < r)
      BY <2>2, <2>6, <1>0
    <3>3. t[k - 1] + f[r] = s[k - 1] + g[r]
      BY <3>2, <2>2
    <3>4. t[k] + f[r] = s[k] + g[r]
      <4>1. PICK a \in Nat, b \in Nat, c \in Nat : a = t[k - 1] /\ b = s[k - 1] /\ c = f[k]
        BY <2>3
      <4>2. PICK d \in Nat, e \in Nat : d = f[r] /\ e = g[r]
        BY <1>0
      <4>3. t[k] = a + c /\ s[k] = b + c
        BY <4>1, <2>3, <3>1
      <4>4. a + d = b + e
        BY <4>1, <4>2, <3>3
      <4>5. (a + c) + d = (b + c) + e
        BY <4>4
      <4>. QED
        BY <4>2, <4>3, <4>5
    <3>. QED
      BY <3>4, <3>2
  <2>. QED
    BY <2>2, <2>4, <2>5, <2>6, <1>0
<1>4. Odd \in SUBSET (0 .. MaxRequests)
  OBVIOUS
<1>5. Odd = {}
  <2>. HIDE DEF Odd
  <2>. QED
    BY <1>3, <1>4, LeastNumber, TelemetryAssumption
<1>6. MaxRequests \in 0 .. MaxRequests /\ ~(MaxRequests < r)
  BY <1>0
<1>7. Right(MaxRequests)
  BY <1>5, <1>6
<1>. QED
  BY <1>0, <1>1, <1>2, <1>6, <1>7
\* What is sent changes by the counts of the one request that changes.
LEMMA SentChanges ==
  ASSUME TypeOK, TypeOK', NEW c \in Counters, NEW r \in Requests,
         \A q \in Requests \ {r} : requests'[q] = requests[q]
  PROVE  /\ Sent(c) \in Nat /\ Sent(c)' \in Nat
         /\ requests[r].batch.counts[c] \in Nat /\ requests'[r].batch.counts[c] \in Nat
         /\ Sent(c)' + requests[r].batch.counts[c] = Sent(c) + requests'[r].batch.counts[c]
<1>. DEFINE f == [q \in Requests |-> requests[q].batch.counts[c]]
            g == [q \in Requests |-> requests'[q].batch.counts[c]]
<1>1. \A q \in Requests : requests[q].batch.counts[c] \in Nat /\ requests'[q].batch.counts[c] \in Nat
  <2>1. requests \in [Requests -> [at : {"none", "sent", "stored"}, batch : Batches]]
    BY DEF TypeOK
  <2>2. requests' \in [Requests -> [at : {"none", "sent", "stored"}, batch : Batches]]
    BY DEF TypeOK
  <2>3. \A b \in Batches : b.counts[c] \in Nat
    BY DEF Batches
  <2>. QED
    BY <2>1, <2>2, <2>3
<1>2. f \in [Requests -> Nat] /\ g \in [Requests -> Nat] /\ f[r] = requests[r].batch.counts[c]
      /\ g[r] = requests'[r].batch.counts[c] /\ \A q \in Requests \ {r} : g[q] = f[q]
  BY <1>1
<1>3. Sent(c) = SumOf(f) /\ Sent(c)' = SumOf(g)
  BY DEF Sent, SumOf
<1>. HIDE DEF f, g
<1>4. SumOf(f) \in Nat /\ SumOf(g) \in Nat /\ SumOf(g) + f[r] = SumOf(f) + g[r]
  BY <1>2, SumOfChanged
<1>. QED
  BY <1>1, <1>2, <1>3, <1>4

\* What is counted are numbers, of requests as they are.
LEMMA TermsAre ==
  ASSUME TypeOK, NEW c \in Counters
  PROVE  /\ Sent(c) \in Nat /\ Collected(c) \in Nat /\ InFlight(c) \in Nat /\ counts[c] \in Nat /\ lost[c] \in Nat
         /\ seen[c] \in Nat /\ loop.batch \in Batches /\ loop.batch.counts[c] \in Nat
<1>. DEFINE f == [q \in Requests |-> requests[q].batch.counts[c]]
<1>0. loop.batch \in Batches /\ requests \in [Requests -> [at : {"none", "sent", "stored"}, batch : Batches]]
      /\ \A b \in Batches : b.counts[c] \in Nat
  BY DEF TypeOK, Batches
<1>1. Sent(c) = SumOf(f)
  BY DEF Sent
<1>2. f \in [Requests -> Nat]
  BY <1>0
<1>3. SumOf(f) \in Nat
  <2>. HIDE DEF f
  <2>1. PICK s \in [0 .. MaxRequests -> Nat] : SumOf(f) = s[MaxRequests]
    BY <1>2, SumsOf
  <2>. QED
    BY <2>1, TelemetryAssumption
<1>4. Collected(c) \in Nat
  <2>1. /\ drain.count \in Nat
        /\ c \in Domains => aggregates[c] \in Nat
    BY DEF TypeOK
  <2>. QED
    BY <2>1 DEF Collected
<1>5. InFlight(c) \in Nat
  BY <1>0 DEF InFlight
<1>6. counts[c] \in Nat /\ lost[c] \in Nat /\ seen[c] \in Nat
  BY DEF TypeOK
<1>. QED
  BY <1>0, <1>1, <1>3, <1>4, <1>5, <1>6

\* The history of the queries, and what the capture thread holds.
QueryHistory == <<capture, aggregates, seen, drains>>

LEMMA TotalsStay ==
  ASSUME QueriesAreCounted, MatchesAreCounted, UNCHANGED QueryHistory, \A c \in Counters : Total(c)' = Total(c)
  PROVE  QueriesAreCounted' /\ MatchesAreCounted'
<1>1. UNCHANGED <<capture, aggregates, seen, drains>>
  BY DEF QueryHistory
<1>2. QueriesAreCounted'
  <2>. SUFFICES ASSUME NEW d \in Domains
                PROVE  (seen[d] <= Total(d) + Missing(d))' /\ (Total(d) + Spare(d) <= seen[d] + drains[d])'
    BY DEF QueriesAreCounted
  <2>1. Total(d)' = Total(d) /\ Missing(d)' = Missing(d) /\ Spare(d)' = Spare(d)
    BY <1>1 DEF Missing, Spare, Counters
  <2>. QED
    BY <1>1, <2>1 DEF QueriesAreCounted
<1>3. MatchesAreCounted'
  BY <1>1 DEF MatchesAreCounted, Counters
<1>. QED
  BY <1>2, <1>3

\* A batch in hand is sent or lost.
LEMMA SendKeepsTotals ==
  ASSUME TypeOK, NEW a \in Activities, NEW b \in Batches, Send(a, b),
         UNCHANGED <<aggregates, drain, requests, counts>>,
         NEW c \in Counters, InFlight(c) = b.counts[c]
  PROVE  Total(c)' = Total(c)
<1>1. Sent(c)' = Sent(c) /\ Collected(c)' = Collected(c) /\ counts'[c] = counts[c]
  BY DEF Sent, SumOf, Collected
<1>2. b.counts[c] \in Nat
  BY DEF Batches
<1>3. InFlight(c)' + lost'[c] = InFlight(c) + lost[c]
  <2>1. CASE loop' = [at |-> "send", what |-> a, batch |-> b] /\ lost' = lost
    BY <2>1 DEF InFlight
  <2>2. CASE loop' = Idle /\ lost' = Plus(lost, b.counts)
    <3>1. InFlight(c)' = 0
      BY <2>2, BatchTypes DEF InFlight
    <3>2. lost'[c] = lost[c] + b.counts[c]
      BY <2>2 DEF Plus
    <3>. QED
      BY <3>1, <3>2, <1>2, TermsAre
  <2>. QED
    BY <2>1, <2>2 DEF Send
<1>4. InFlight(c)' \in Nat /\ lost'[c] \in Nat
  <2>1. CASE loop' = [at |-> "send", what |-> a, batch |-> b] /\ lost' = lost
    BY <2>1, <1>2, TermsAre DEF InFlight
  <2>2. CASE loop' = Idle /\ lost' = Plus(lost, b.counts)
    <3>1. InFlight(c)' = 0
      BY <2>2, BatchTypes DEF InFlight
    <3>2. lost'[c] = lost[c] + b.counts[c]
      BY <2>2 DEF Plus
    <3>. QED
      BY <3>1, <3>2, <1>2, TermsAre
  <2>. QED
    BY <2>1, <2>2 DEF Send
<1>. QED
  BY <1>1, <1>3, <1>4, TermsAre DEF Total

\* The loop goes on with an empty hand, or with the same one.
LEMMA HandKeepsTotals ==
  ASSUME TypeOK, UNCHANGED <<aggregates, drain, requests, counts, lost>>,
         NEW c \in Counters, InFlight(c)' = InFlight(c)
  PROVE  Total(c)' = Total(c)
  BY DEF Total, Sent, SumOf, Collected


LEMMA RequestsStaySpent == ASSUME TypeOK, RequestsAreSpent, [Next]_vars PROVE RequestsAreSpent'
<1>. USE DEF RequestsAreSpent
<1>0. /\ NoRequest.batch.counts = NoCounts /\ NoBatch.counts = NoCounts
      /\ requests \in [Requests -> [at : {"none", "sent", "stored"}, batch : Batches]]
  BY BatchTypes DEF NoRequest, TypeOK
<1>1. CASE UNCHANGED requests
  BY <1>1
<1>2. ASSUME NEW r \in Requests, Post(r) \/ Ingest(r) \/ IngestFails(r) PROVE RequestsAreSpent'
  <2>1. \/ requests' = [requests EXCEPT ![r] = [at |-> "sent", batch |-> loop.batch]]
        \/ requests' = [requests EXCEPT ![r] = [at |-> "stored", batch |-> NoBatch]]
        \/ requests' = [requests EXCEPT ![r] = NoRequest]
    BY <1>2 DEF Post, Ingest, IngestFails
  <2>. QED
    BY <2>1, <1>0
<1>3. CASE Reply \/ GiveUp \/ Restart
  <2>1. \/ UNCHANGED requests
        \/ awaited \in Requests /\ requests' = [requests EXCEPT ![awaited] = NoRequest]
    BY <1>3, <1>0 DEF Reply, GiveUp, Restart, TypeOK
  <2>. QED
    BY <2>1, <1>0
<1>4. CASE EventNext \/ CaptureNext \/ DrainNext \/ ProcessNext \/ HeartbeatNext \/ UNCHANGED vars
  <2>1. UNCHANGED requests
    BY <1>4 DEF EventNext, LogEvent, Collect, CollectFails, StartSave, EndSave, CaptureNext, CaptureNew, CaptureFind,
       CaptureCount, CaptureReplace, DrainNext, StartDrain, DrainRemove, DrainRead, EndDrain, ProcessNext, Scan, Kill,
       SetExempt, HeartbeatNext, StartHeartbeat, HeartbeatRead, HeartbeatReply, HeartbeatFails, serverVars, vars
  <2>. QED
    BY <2>1
<1>. QED
  BY <1>2, <1>3, <1>4 DEF Next, RequestNext, LoopNext

\* Outside Snapshot the loop leaves it alone.
LEMMA LoopLeavesDrain ==
  ASSUME DrainIsOfLoop, UNCHANGED drain, loop.at # "drain", loop'.at # "drain"
  PROVE  DrainIsOfLoop'
  BY DEF DrainIsOfLoop

LEMMA DrainStaysOfLoop == ASSUME TypeOK, EventInv, DrainIsOfLoop, CaptureHasDomain, [Next]_vars PROVE DrainIsOfLoop'
<1>0. /\ loop.batch \in Batches /\ NoBatch.counts = NoCounts /\ Idle.at = "idle"
      /\ NotDraining.keys = {} /\ NotDraining.of = None /\ None \notin Domains
      /\ \A d \in Domains : NoCounts[d] = 0
      /\ loop \in [at : {"idle", "drain", "kill", "send", "wait", "save", "heartbeat", "answered"},
                   what : Activities \cup {"none"}, batch : Batches]
      /\ drain \in [keys : SUBSET Domains, of : Domains \cup {None}, count : Nat]
  BY BatchTypes, TelemetryAssumption DEF NotDraining, TypeOK, NoCounts, Counters
<1>1. CASE EventNext
  <2>1. UNCHANGED drain
    BY <1>1 DEF EventNext, LogEvent, Collect, CollectFails, StartSave, EndSave, dnsVars
  <2>2. UNCHANGED loop \/ (loop.at # "drain" /\ loop'.at # "drain")
    BY <1>1, <1>0 DEF EventNext, LogEvent, Collect, CollectFails, StartSave, EndSave, Send, Tick, agentVars
  <2>. QED
    BY <2>1, <2>2, LoopLeavesDrain DEF DrainIsOfLoop
<1>2. CASE CaptureNext
  <2>1. UNCHANGED loop
    BY <1>2 DEF CaptureNext, CaptureNew, CaptureFind, CaptureCount, CaptureReplace, agentVars
  <2>2. drain'.keys = drain.keys /\ drain'.of = drain.of /\ (drain = NotDraining => drain' = drain)
    <3>1. CASE CaptureCount
      <4>1. capture.of # None
        BY <3>1 DEF CaptureCount, CaptureHasDomain
      <4>2. drain' = drain \/ (drain.of = capture.of /\ drain' = [drain EXCEPT !.count = @ + 1])
        BY <3>1 DEF CaptureCount
      <4>. QED
        BY <4>1, <4>2, <1>0
    <3>. QED
      BY <3>1, <1>2 DEF CaptureNext, CaptureNew, CaptureFind, CaptureReplace
  <2>. QED
    BY <2>1, <2>2 DEF DrainIsOfLoop
<1>3. CASE DrainNext
  <2>1. CASE StartDrain
    <3>1. loop'.at = "drain" /\ loop'.batch.counts = NoCounts /\ drain'.of = None /\ drain'.keys \subseteq Domains
      BY <2>1, <1>0 DEF StartDrain, NotDraining
    <3>. QED
      BY <3>1, <1>0 DEF DrainIsOfLoop
  <2>2. ASSUME NEW d \in Domains, DrainRemove(d) PROVE DrainIsOfLoop'
    <3>1. loop.at = "drain" /\ d \in drain.keys /\ drain'.keys = drain.keys \ {d} /\ drain'.of = d /\ UNCHANGED loop
      BY <2>2 DEF DrainRemove, agentVars
    <3>. QED
      BY <3>1 DEF DrainIsOfLoop
  <2>3. CASE DrainRead
    <3>1. /\ loop.at = "drain" /\ loop'.at = "drain" /\ drain.of \in Domains
          /\ drain'.keys = drain.keys /\ drain'.of = None
      BY <2>3, <1>0 DEF DrainRead
    <3>2. \A d \in Domains \ {drain.of} : loop'.batch.counts[d] = loop.batch.counts[d]
      BY <2>3, <1>0 DEF DrainRead, Batches, Counters
    <3>. QED
      BY <3>1, <3>2, <1>0 DEF DrainIsOfLoop
  <2>4. CASE EndDrain
    <3>1. loop'.at # "drain" /\ drain' = NotDraining
      BY <2>4, <1>0 DEF EndDrain, Send, dnsVars
    <3>. QED
      BY <3>1, <1>0 DEF DrainIsOfLoop
  <2>. QED
    BY <1>3, <2>1, <2>2, <2>3, <2>4 DEF DrainNext
<1>4. CASE ProcessNext
  <2>1. UNCHANGED drain
    BY <1>4 DEF ProcessNext, Scan, Kill, SetExempt, dnsVars
  <2>2. CASE Scan \/ Kill
    <3>1. loop.at # "drain" /\ loop'.at # "drain"
      BY <2>2, <1>0 DEF Scan, Kill, Tick, Send
    <3>. QED
      BY <3>1, <2>1, LoopLeavesDrain
  <2>3. CASE SetExempt
    BY <2>1, <2>3 DEF SetExempt, agentVars, DrainIsOfLoop
  <2>. QED
    BY <1>4, <2>2, <2>3 DEF ProcessNext
<1>5. CASE HeartbeatNext
  <2>1. UNCHANGED drain /\ loop.at # "drain" /\ loop'.at # "drain"
    BY <1>5, <1>0 DEF HeartbeatNext, StartHeartbeat, HeartbeatRead, HeartbeatReply, HeartbeatFails, Tick, dnsVars
  <2>. QED
    BY <2>1, LoopLeavesDrain
<1>6. CASE RequestNext
  <2>. PICK r \in Requests : Post(r) \/ Ingest(r) \/ IngestFails(r)
    BY <1>6 DEF RequestNext
  <2>1. UNCHANGED drain /\ (UNCHANGED loop \/ (loop.at # "drain" /\ loop'.at # "drain"))
    BY <1>0 DEF Post, Ingest, IngestFails, dnsVars, agentVars
  <2>. QED
    BY <2>1, LoopLeavesDrain DEF DrainIsOfLoop
<1>7. CASE Reply \/ GiveUp
  <2>1. loop.at = "wait"
    BY <1>7 DEF Reply, GiveUp, EventInv, AwaitedCarriesBatch
  <2>2. loop'.at # "drain" /\ UNCHANGED drain
    BY <1>7, <1>0 DEF Reply, GiveUp, dnsVars
  <2>. QED
    BY <2>1, <2>2, LoopLeavesDrain
<1>8. CASE Restart
  <2>1. loop'.at = "idle" /\ drain' = NotDraining
    BY <1>8, <1>0 DEF Restart
  <2>. QED
    BY <2>1, <1>0 DEF DrainIsOfLoop
<1>9. CASE UNCHANGED vars
  BY <1>9 DEF vars, agentVars, dnsVars, DrainIsOfLoop
<1>. QED
  BY <1>1, <1>2, <1>3, <1>4, <1>5, <1>6, <1>7, <1>8, <1>9 DEF Next, LoopNext

LEMMA CaptureKeepsDomain == ASSUME TypeOK, CaptureHasDomain, [Next]_vars PROVE CaptureHasDomain'
<1>0. NotCapturing.at = "idle" /\ NotCapturing.of = None /\ None \notin Domains
  BY TelemetryAssumption DEF NotCapturing
<1>1. CASE CaptureNext
  BY <1>1, <1>0 DEF CaptureNext, CaptureNew, CaptureFind, CaptureCount, CaptureReplace, CaptureHasDomain, TypeOK
<1>2. CASE Restart
  BY <1>2, <1>0 DEF Restart, CaptureHasDomain
<1>3. CASE EventNext \/ DrainNext \/ ProcessNext \/ HeartbeatNext \/ RequestNext \/ Reply \/ GiveUp \/ UNCHANGED vars
  <2>1. UNCHANGED capture
    BY <1>3 DEF EventNext, LogEvent, Collect, CollectFails, StartSave, EndSave, DrainNext, StartDrain, DrainRemove,
       DrainRead, EndDrain, ProcessNext, Scan, Kill, SetExempt, HeartbeatNext, StartHeartbeat, HeartbeatRead,
       HeartbeatReply, HeartbeatFails, RequestNext, Post, Ingest, IngestFails, Reply, GiveUp, dnsVars, vars
  <2>. QED
    BY <2>1 DEF CaptureHasDomain
<1>. QED
  BY <1>1, <1>2, <1>3 DEF Next, LoopNext

\* What the loop does with the event log, processes and heartbeats leaves every total as it is, but
\* for a match that is seen.
LEMMA EventsKeepTotals ==
  ASSUME TypeOK, EventInv, EventNext, NEW c \in Counters
  PROVE  Total(c)' = Total(c)
<1>. USE DEF dnsVars, serverVars, historyVars, agentVars
<1>0. Idle.at = "idle" /\ NoBatch.counts[c] = 0 /\ "events" \in Activities
  BY BatchTypes DEF NoCounts, Activities
<1>1. CASE Collect
  <2>. DEFINE b == [NoBatch EXCEPT !.events = Read]
  <2>1. b \in Batches /\ b.counts[c] = 0
    BY PageIsInterval, BatchTypes, <1>0 DEF Batches, EventInv
  <2>2. InFlight(c) = 0
    BY <1>1 DEF Collect, Tick, InFlight
  <2>3. Send("events", b) /\ UNCHANGED <<aggregates, drain, requests, counts>>
    BY <1>1 DEF Collect
  <2>. HIDE DEF b
  <2>. QED
    BY <2>1, <2>2, <2>3, <1>0, SendKeepsTotals
<1>2. CASE LogEvent \/ CollectFails \/ StartSave \/ EndSave
  <2>1. UNCHANGED <<aggregates, drain, requests, counts, lost>>
    BY <1>2 DEF LogEvent, CollectFails, StartSave, EndSave
  <2>2. InFlight(c)' = InFlight(c)
    BY <1>2, <1>0 DEF LogEvent, CollectFails, StartSave, EndSave, Tick, InFlight
  <2>. QED
    BY <2>1, <2>2, HandKeepsTotals
<1>. QED
  BY <1>1, <1>2 DEF EventNext, LogEvent, CollectFails, StartSave, EndSave

LEMMA HeartbeatsKeepTotals ==
  ASSUME TypeOK, HeartbeatNext, NEW c \in Counters
  PROVE  Total(c)' = Total(c)
<1>1. UNCHANGED <<aggregates, drain, requests, counts, lost>>
  BY DEF HeartbeatNext, StartHeartbeat, HeartbeatRead, HeartbeatReply, HeartbeatFails, dnsVars, serverVars, historyVars
<1>2. InFlight(c) = 0
  BY DEF HeartbeatNext, StartHeartbeat, HeartbeatRead, HeartbeatReply, HeartbeatFails, Tick, InFlight
<1>3. loop'.at \in {"idle", "heartbeat", "answered"}
  BY BatchTypes DEF HeartbeatNext, StartHeartbeat, HeartbeatRead, HeartbeatReply, HeartbeatFails, TypeOK
<1>4. InFlight(c)' = 0
  BY <1>3 DEF InFlight
<1>. QED
  BY <1>1, <1>2, <1>4, HandKeepsTotals

\* Requests carry what was in the loop's hand to the tables, or lose it.
LEMMA RequestsKeepTotals ==
  ASSUME TypeOK, TypeOK', RequestsAreSpent, NEW r \in Requests, Post(r) \/ Ingest(r) \/ IngestFails(r), NEW c \in Counters
  PROVE  Total(c)' = Total(c)
<1>0. /\ requests \in [Requests -> [at : {"none", "sent", "stored"}, batch : Batches]]
      /\ NoBatch.counts[c] = 0 /\ NoRequest.batch = NoBatch
      /\ Collected(c) \in Nat /\ InFlight(c) \in Nat /\ counts[c] \in Nat /\ lost[c] \in Nat /\ loop.batch.counts[c] \in Nat
      /\ loop \in [at : {"idle", "drain", "kill", "send", "wait", "save", "heartbeat", "answered"},
                   what : Activities \cup {"none"}, batch : Batches]
  BY BatchTypes, TermsAre DEF TypeOK, NoCounts, NoRequest
<1>1. /\ Sent(c) \in Nat /\ Sent(c)' \in Nat
      /\ requests[r].batch.counts[c] \in Nat /\ requests'[r].batch.counts[c] \in Nat
      /\ Sent(c)' + requests[r].batch.counts[c] = Sent(c) + requests'[r].batch.counts[c]
  <2>1. \A q \in Requests \ {r} : requests'[q] = requests[q]
    BY <1>0 DEF Post, Ingest, IngestFails
  <2>. QED
    BY <2>1, SentChanges
<1>2. Collected(c)' = Collected(c)
  BY DEF Post, Ingest, IngestFails, dnsVars, Collected
<1>3. CASE Post(r)
  <2>1. requests[r].batch.counts[c] = 0
    BY <1>3 DEF Post, RequestsAreSpent, NoCounts
  <2>2. requests'[r].batch.counts[c] = loop.batch.counts[c]
    BY <1>3, <1>0 DEF Post
  <2>3. InFlight(c) = loop.batch.counts[c] /\ InFlight(c)' = 0
    BY <1>3, <1>0 DEF Post, InFlight
  <2>4. UNCHANGED <<counts, lost>>
    BY <1>3 DEF Post, historyVars
  <2>5. Sent(c)' = Sent(c) + loop.batch.counts[c]
    BY <2>1, <2>2, <1>0, <1>1
  <2>. QED
    BY <2>3, <2>4, <2>5, <1>0, <1>1, <1>2 DEF Total
<1>4. CASE Ingest(r)
  <2>1. requests'[r].batch.counts[c] = 0
    BY <1>4, <1>0 DEF Ingest
  <2>2. counts'[c] = counts[c] + requests[r].batch.counts[c]
    BY <1>4 DEF Ingest, Add, Plus
  <2>3. InFlight(c)' = InFlight(c) /\ UNCHANGED lost
    BY <1>4 DEF Ingest, InFlight, agentVars, historyVars
  <2>4. Sent(c)' + requests[r].batch.counts[c] = Sent(c)
    BY <2>1, <1>1
  <2>. QED
    BY <2>2, <2>3, <2>4, <1>0, <1>1, <1>2 DEF Total
<1>5. CASE IngestFails(r)
  <2>1. requests'[r].batch.counts[c] = 0
    BY <1>5, <1>0 DEF IngestFails
  <2>2. lost'[c] = lost[c] + requests[r].batch.counts[c]
    BY <1>5 DEF IngestFails, Plus
  <2>3. InFlight(c)' = InFlight(c) /\ UNCHANGED counts
    BY <1>5 DEF IngestFails, InFlight, agentVars
  <2>4. Sent(c)' + requests[r].batch.counts[c] = Sent(c)
    BY <2>1, <1>1
  <2>. QED
    BY <2>2, <2>3, <2>4, <1>0, <1>1, <1>2 DEF Total
<1>. QED
  BY <1>3, <1>4, <1>5

\* An answer, or giving up, only forgets a request that is spent.
LEMMA AnswersKeepSent ==
  ASSUME TypeOK, TypeOK', RequestsAreSpent, Reply \/ GiveUp \/ Restart, NEW c \in Counters
  PROVE  Sent(c)' = Sent(c)
<1>0. /\ requests \in [Requests -> [at : {"none", "sent", "stored"}, batch : Batches]]
      /\ NoBatch.counts[c] = 0 /\ NoRequest.batch = NoBatch
  BY BatchTypes DEF TypeOK, NoCounts, NoRequest
<1>1. CASE UNCHANGED requests
  BY <1>1 DEF Sent, SumOf
<1>2. CASE requests' # requests
  <2>1. /\ awaited \in Requests /\ requests[awaited].at # "sent"
        /\ requests' = [requests EXCEPT ![awaited] = NoRequest]
    BY <1>2, <1>0 DEF Reply, GiveUp, Restart, TypeOK
  <2>2. requests[awaited].batch.counts[c] = 0 /\ requests'[awaited].batch.counts[c] = 0
        /\ \A q \in Requests \ {awaited} : requests'[q] = requests[q]
    BY <2>1, <1>0 DEF RequestsAreSpent, NoCounts
  <2>3. /\ Sent(c) \in Nat /\ Sent(c)' \in Nat
        /\ Sent(c)' + requests[awaited].batch.counts[c] = Sent(c) + requests'[awaited].batch.counts[c]
    BY <2>1, <2>2, SentChanges
  <2>. QED
    BY <2>2, <2>3
<1>. QED
  BY <1>1, <1>2

LEMMA RepliesKeepTotals ==
  ASSUME TypeOK, TypeOK', EventInv, RequestsAreSpent, Reply \/ GiveUp, NEW c \in Counters
  PROVE  Total(c)' = Total(c)
<1>0. Idle.at = "idle" /\ loop \in [at : {"idle", "drain", "kill", "send", "wait", "save", "heartbeat", "answered"},
                                    what : Activities \cup {"none"}, batch : Batches]
  BY BatchTypes DEF TypeOK
<1>1. Sent(c)' = Sent(c)
  BY AnswersKeepSent
<1>2. loop.at = "wait" /\ loop'.at \in {"save", "idle"}
  BY <1>0 DEF Reply, GiveUp, EventInv, AwaitedCarriesBatch
<1>3. InFlight(c) = 0 /\ InFlight(c)' = 0
  BY <1>2 DEF InFlight
<1>4. Collected(c)' = Collected(c) /\ UNCHANGED <<counts, lost>>
  BY DEF Reply, GiveUp, dnsVars, historyVars, Collected
<1>. QED
  BY <1>1, <1>3, <1>4 DEF Total

\* Snapshot takes a domain out of the aggregates and puts its count into the batch.
LEMMA DrainKeepsTotals ==
  ASSUME TypeOK, DrainIsOfLoop, DrainNext, NEW c \in Counters
  PROVE  Total(c)' = Total(c)
<1>. USE DEF serverVars, historyVars
<1>0. /\ Idle.at = "idle" /\ NoBatch.counts[c] = 0 /\ "dns" \in Activities /\ None \notin Domains
      /\ loop \in [at : {"idle", "drain", "kill", "send", "wait", "save", "heartbeat", "answered"},
                   what : Activities \cup {"none"}, batch : Batches]
      /\ drain \in [keys : SUBSET Domains, of : Domains \cup {None}, count : Nat]
      /\ aggregates \in [Domains -> Nat]
      /\ NotDraining.of = None
  BY BatchTypes, TelemetryAssumption DEF NoCounts, Activities, TypeOK, NotDraining
<1>1. CASE StartDrain
  <2>1. drain.of = None /\ drain'.of = None /\ UNCHANGED <<aggregates, requests, counts, lost>>
    BY <1>1, <1>0 DEF StartDrain, Tick, DrainIsOfLoop, NotDraining
  <2>2. InFlight(c) = 0 /\ InFlight(c)' = 0
    BY <1>1, <1>0 DEF StartDrain, Tick, InFlight
  <2>3. Collected(c)' = Collected(c)
    BY <2>1, <1>0 DEF Collected
  <2>. QED
    BY <2>1, <2>2, <2>3 DEF Total, Sent, SumOf
<1>2. ASSUME NEW d \in Domains, DrainRemove(d) PROVE Total(c)' = Total(c)
  <2>1. /\ drain.of = None /\ drain'.of = d /\ drain'.count = aggregates[d]
        /\ aggregates' = [aggregates EXCEPT ![d] = 0] /\ UNCHANGED <<loop, requests, counts, lost>>
    BY <1>2 DEF DrainRemove, agentVars
  <2>2. Collected(c)' = Collected(c)
    <3>1. CASE c \notin Domains
      BY <3>1 DEF Collected
    <3>2. CASE c = d
      BY <3>2, <2>1, <1>0 DEF Collected
    <3>3. CASE c \in Domains /\ c # d
      BY <3>3, <2>1, <1>0 DEF Collected
    <3>. QED
      BY <3>1, <3>2, <3>3
  <2>3. InFlight(c)' = InFlight(c)
    BY <2>1 DEF InFlight
  <2>. QED
    BY <2>1, <2>2, <2>3 DEF Total, Sent, SumOf
<1>3. CASE DrainRead
  <2>1. /\ loop.at = "drain" /\ loop'.at = "drain" /\ drain.of \in Domains /\ drain'.of = None
        /\ UNCHANGED <<aggregates, requests, counts, lost>>
    BY <1>3, <1>0 DEF DrainRead, dnsVars
  <2>2. /\ loop'.batch.counts[drain.of] = drain.count /\ loop.batch.counts[drain.of] = 0
        /\ c # drain.of => loop'.batch.counts[c] = loop.batch.counts[c]
    BY <1>3, <2>1, <1>0 DEF DrainRead, Batches, Counters, DrainIsOfLoop
  <2>3. Collected(c) \in Nat /\ Sent(c) \in Nat /\ counts[c] \in Nat /\ lost[c] \in Nat
    BY TermsAre
  <2>4. InFlight(c) = loop.batch.counts[c] /\ InFlight(c)' = loop'.batch.counts[c]
    BY <2>1 DEF InFlight
  <2>5. CASE c = drain.of
    <3>1. Collected(c) = Collected(c)' + drain.count /\ Collected(c)' \in Nat
      BY <2>1, <2>5, <1>0 DEF Collected
    <3>2. InFlight(c) = 0 /\ InFlight(c)' = drain.count
      BY <2>4, <2>2, <2>5
    <3>3. Sent(c)' = Sent(c)
      BY <2>1 DEF Sent, SumOf
    <3>. QED
      BY <2>1, <2>3, <3>1, <3>2, <3>3, <1>0 DEF Total
  <2>6. CASE c # drain.of
    <3>1. Collected(c)' = Collected(c)
      BY <2>1, <2>6, <1>0 DEF Collected
    <3>. QED
      BY <2>1, <2>2, <2>4, <2>6, <3>1 DEF Total, Sent, SumOf
  <2>. QED
    BY <2>5, <2>6
<1>4. CASE EndDrain
  <2>1. loop.at = "drain" /\ Send("dns", loop.batch) /\ UNCHANGED <<aggregates, drain, requests, counts>>
    BY <1>4 DEF EndDrain, dnsVars
  <2>2. InFlight(c) = loop.batch.counts[c] /\ loop.batch \in Batches
    BY <2>1, <1>0 DEF InFlight
  <2>. QED
    BY <2>1, <2>2, <1>0, SendKeepsTotals
<1>. QED
  BY <1>1, <1>2, <1>3, <1>4 DEF DrainNext

\* Every step of the capture thread leaves the domains it does not hold as they are.
LEMMA CaptureCountsQueries ==
  ASSUME TypeOK, CaptureHasDomain, DrainIsOfLoop, QueriesAreCounted, MatchesAreCounted, CaptureNext
  PROVE  QueriesAreCounted' /\ MatchesAreCounted'
<1>0. /\ None \notin Domains /\ Watched \notin Domains /\ Counters = Domains \cup {Watched}
      /\ capture \in [at : {"idle", "found", "counted"}, of : Domains \cup {None}]
      /\ drain \in [keys : SUBSET Domains, of : Domains \cup {None}, count : Nat]
      /\ aggregates \in [Domains -> Nat] /\ seen \in [Counters -> Nat] /\ drains \in [Domains -> Nat]
      /\ NotCapturing = [at |-> "idle", of |-> None]
  BY TelemetryAssumption DEF Counters, TypeOK, NotCapturing
<1>1. /\ UNCHANGED <<loop, requests, counts, lost, drains>>
      /\ \A c \in Counters : InFlight(c)' = InFlight(c) /\ Sent(c)' = Sent(c)
  <2>1. UNCHANGED <<loop, requests, counts, lost, drains>>
    BY DEF CaptureNext, CaptureNew, CaptureFind, CaptureCount, CaptureReplace, agentVars, serverVars, historyVars
  <2>. QED
    BY <2>1 DEF InFlight, Sent, SumOf
<1>. DEFINE Rest(c) == InFlight(c) + Sent(c) + counts[c] + lost[c]
<1>2. \A c \in Counters : /\ Rest(c) \in Nat /\ Collected(c) \in Nat
                          /\ Total(c) = Collected(c) + Rest(c) /\ Total(c)' = Collected(c)' + Rest(c)
  <2>. SUFFICES ASSUME NEW c \in Counters
                PROVE  /\ Rest(c) \in Nat /\ Collected(c) \in Nat
                       /\ Total(c) = Collected(c) + Rest(c) /\ Total(c)' = Collected(c)' + Rest(c)
    OBVIOUS
  <2>1. InFlight(c) \in Nat /\ Sent(c) \in Nat /\ counts[c] \in Nat /\ lost[c] \in Nat /\ Collected(c) \in Nat
    BY TermsAre
  <2>2. Collected(c)' \in Nat
    <3>1. aggregates' \in [Domains -> Nat] /\ drain'.count \in Nat
      BY <1>0 DEF CaptureNext, CaptureNew, CaptureFind, CaptureCount, CaptureReplace
    <3>. QED
      BY <3>1 DEF Collected
  <2>. QED
    BY <1>1, <2>1, <2>2 DEF Total
<1>. HIDE DEF Rest
<1>3. ASSUME NEW d \in Domains
      PROVE  \/ /\ UNCHANGED <<aggregates[d], seen[d], capture>> /\ Collected(d)' = Collected(d)
             \/ /\ capture.of # d /\ capture'.of # d /\ UNCHANGED <<aggregates[d], seen[d]>> /\ Collected(d)' = Collected(d)
             \/ /\ capture.of # d /\ capture'.of # d /\ seen'[d] = seen[d] + 1 /\ Collected(d)' = Collected(d) + 1
             \/ /\ capture.of # d /\ capture' = [at |-> "found", of |-> d] /\ seen'[d] = seen[d] + 1
                /\ Collected(d)' = Collected(d) /\ UNCHANGED aggregates[d] /\ aggregates[d] > 0
             \/ /\ capture = [at |-> "found", of |-> d] /\ capture' = [at |-> "counted", of |-> d] /\ UNCHANGED seen[d]
                /\ \/ aggregates[d] > 0 /\ aggregates'[d] > 0 /\ Collected(d)' = Collected(d) + 1
                   \/ aggregates[d] = 0 /\ aggregates'[d] = 0 /\ Collected(d)' \in {Collected(d), Collected(d) + 1}
             \/ /\ capture = [at |-> "counted", of |-> d] /\ capture'.of # d /\ UNCHANGED seen[d]
                /\ \/ aggregates[d] > 0 /\ Collected(d)' = Collected(d)
                   \/ aggregates[d] = 0 /\ Collected(d)' = Collected(d) + 1
  <2>0. /\ aggregates[d] \in Nat /\ drain.count \in Nat /\ seen[d] \in Nat /\ d # None
        /\ Collected(d) = aggregates[d] + (IF drain.of = d THEN drain.count ELSE 0)
        /\ Collected(d)' = aggregates'[d] + (IF drain'.of = d THEN drain'.count ELSE 0)
    BY <1>0 DEF Collected
  <2>1. ASSUME NEW e \in Domains, CaptureNew(e)
        PROVE  /\ UNCHANGED capture /\ capture.of = None
               /\ \/ UNCHANGED <<aggregates[d], seen[d]>> /\ Collected(d)' = Collected(d)
                  \/ seen'[d] = seen[d] + 1 /\ Collected(d)' = Collected(d) + 1
    <3>1. UNCHANGED <<drain, capture>> /\ capture.of = None
      BY <2>1 DEF CaptureNew, CaptureHasDomain
    <3>2. CASE e = d
      BY <2>0, <2>1, <3>1, <3>2, <1>0 DEF CaptureNew
    <3>3. CASE e # d
      BY <2>0, <2>1, <3>1, <3>3, <1>0 DEF CaptureNew
    <3>. QED
      BY <3>1, <3>2, <3>3
  <2>2. ASSUME NEW e \in Domains, CaptureFind(e)
        PROVE  /\ capture.of = None /\ capture' = [at |-> "found", of |-> e] /\ UNCHANGED <<aggregates, drain>>
               /\ Collected(d)' = Collected(d) /\ aggregates[e] > 0
               /\ IF e = d THEN seen'[d] = seen[d] + 1 ELSE seen'[d] = seen[d]
    BY <2>0, <2>2, <1>0 DEF CaptureFind, CaptureHasDomain
  <2>3. ASSUME CaptureCount
        PROVE  IF capture.of = d
               THEN /\ capture = [at |-> "found", of |-> d] /\ capture' = [at |-> "counted", of |-> d] /\ UNCHANGED seen[d]
                    /\ \/ aggregates[d] > 0 /\ aggregates'[d] > 0 /\ Collected(d)' = Collected(d) + 1
                       \/ aggregates[d] = 0 /\ aggregates'[d] = 0 /\ Collected(d)' \in {Collected(d), Collected(d) + 1}
               ELSE capture'.of # d /\ UNCHANGED <<aggregates[d], seen[d]>> /\ Collected(d)' = Collected(d)
    <3>1. /\ capture.at = "found" /\ capture'.at = "counted" /\ capture'.of = capture.of /\ UNCHANGED seen
          /\ capture.of \in Domains
      BY <2>3, <1>0 DEF CaptureCount, CaptureHasDomain, historyVars
    <3>2. capture = [at |-> "found", of |-> capture.of] /\ capture' = [at |-> "counted", of |-> capture.of]
      BY <2>3, <3>1, <1>0 DEF CaptureCount
    <3>3. CASE aggregates[capture.of] > 0
      <4>1. aggregates' = [aggregates EXCEPT ![capture.of] = @ + 1] /\ UNCHANGED drain
        BY <2>3, <3>3 DEF CaptureCount
      <4>. QED
        BY <4>1, <3>1, <3>2, <3>3, <2>0, <1>0
    <3>4. CASE ~(aggregates[capture.of] > 0)
      <4>1. UNCHANGED aggregates /\ drain' = IF drain.of = capture.of THEN [drain EXCEPT !.count = @ + 1] ELSE drain
        BY <2>3, <3>4 DEF CaptureCount
      <4>2. aggregates[capture.of] = 0
        BY <3>4, <3>1, <1>0
      <4>. QED
        BY <4>1, <4>2, <3>1, <3>2, <2>0, <1>0
    <3>. QED
      BY <3>3, <3>4
  <2>4. ASSUME CaptureReplace
        PROVE  IF capture.of = d
               THEN /\ capture = [at |-> "counted", of |-> d] /\ capture'.of # d /\ UNCHANGED seen[d]
                    /\ \/ aggregates[d] > 0 /\ Collected(d)' = Collected(d)
                       \/ aggregates[d] = 0 /\ Collected(d)' = Collected(d) + 1
               ELSE capture'.of # d /\ UNCHANGED <<aggregates[d], seen[d]>> /\ Collected(d)' = Collected(d)
    <3>1. /\ capture.at = "counted" /\ capture'.of = None /\ UNCHANGED <<seen, drain>> /\ capture.of \in Domains
          /\ aggregates' = [aggregates EXCEPT ![capture.of] = IF @ > 0 THEN @ ELSE 1]
      BY <2>4, <1>0 DEF CaptureReplace, CaptureHasDomain, historyVars
    <3>2. capture = [at |-> "counted", of |-> capture.of]
      BY <3>1, <1>0
    <3>3. CASE capture.of = d
      BY <3>1, <3>2, <3>3, <2>0, <1>0
    <3>4. CASE capture.of # d
      BY <3>1, <3>4, <2>0, <1>0
    <3>. QED
      BY <3>3, <3>4
  <2>5. CASE \E e \in Domains : CaptureNew(e)
    BY <2>5, <2>1, <2>0
  <2>6. CASE \E e \in Domains : CaptureFind(e)
    BY <2>6, <2>2, <2>0
  <2>7. CASE CaptureCount
    BY <2>7, <2>3
  <2>8. CASE CaptureReplace
    BY <2>8, <2>4
  <2>. QED
    BY <2>5, <2>6, <2>7, <2>8 DEF CaptureNext
<1>4. QueriesAreCounted'
  <2>. SUFFICES ASSUME NEW d \in Domains
                PROVE  (seen[d] <= Total(d) + Missing(d))' /\ (Total(d) + Spare(d) <= seen[d] + drains[d])'
    BY DEF QueriesAreCounted
  <2>0. /\ d \in Counters /\ seen[d] \in Nat /\ drains[d] \in Nat /\ drains'[d] = drains[d] /\ aggregates[d] \in Nat
        /\ Rest(d) \in Nat /\ Collected(d) \in Nat
        /\ Total(d) = Collected(d) + Rest(d) /\ Total(d)' = Collected(d)' + Rest(d)
    BY <1>0, <1>1, <1>2
  <2>1. seen[d] <= Total(d) + Missing(d) /\ Total(d) + Spare(d) <= seen[d] + drains[d]
    BY DEF QueriesAreCounted
  <2>2. CASE UNCHANGED <<aggregates[d], seen[d], capture>> /\ Collected(d)' = Collected(d)
    BY <2>0, <2>1, <2>2 DEF Missing, Spare
  <2>3. CASE /\ capture.of # d /\ capture'.of # d /\ UNCHANGED <<aggregates[d], seen[d]>> /\ Collected(d)' = Collected(d)
    BY <2>0, <2>1, <2>3 DEF Missing, Spare
  <2>4. CASE /\ capture.of # d /\ capture'.of # d /\ seen'[d] = seen[d] + 1 /\ Collected(d)' = Collected(d) + 1
    BY <2>0, <2>1, <2>4 DEF Missing, Spare
  <2>5. CASE /\ capture.of # d /\ capture' = [at |-> "found", of |-> d] /\ seen'[d] = seen[d] + 1
             /\ Collected(d)' = Collected(d) /\ UNCHANGED aggregates[d] /\ aggregates[d] > 0
    BY <2>0, <2>1, <2>5 DEF Missing, Spare
  <2>6. CASE /\ capture = [at |-> "found", of |-> d] /\ capture' = [at |-> "counted", of |-> d] /\ UNCHANGED seen[d]
             /\ \/ aggregates[d] > 0 /\ aggregates'[d] > 0 /\ Collected(d)' = Collected(d) + 1
                \/ aggregates[d] = 0 /\ aggregates'[d] = 0 /\ Collected(d)' \in {Collected(d), Collected(d) + 1}
    BY <2>0, <2>1, <2>6 DEF Missing, Spare
  <2>7. CASE /\ capture = [at |-> "counted", of |-> d] /\ capture'.of # d /\ UNCHANGED seen[d]
             /\ \/ aggregates[d] > 0 /\ Collected(d)' = Collected(d)
                \/ aggregates[d] = 0 /\ Collected(d)' = Collected(d) + 1
    BY <2>0, <2>1, <2>7 DEF Missing, Spare
  <2>. QED
    BY <1>3, <2>2, <2>3, <2>4, <2>5, <2>6, <2>7
<1>5. MatchesAreCounted'
  <2>1. seen'[Watched] = seen[Watched]
    BY <1>0 DEF CaptureNext, CaptureNew, CaptureFind, CaptureCount, CaptureReplace, historyVars
  <2>2. Collected(Watched)' = Collected(Watched)
    BY <1>0 DEF Collected
  <2>. QED
    BY <1>0, <1>2, <2>1, <2>2 DEF MatchesAreCounted
<1>. QED
  BY <1>4, <1>5

\* A match that is found is in the loop's hand, on its way or lost.
LEMMA ScanCountsMatches ==
  ASSUME TypeOK, QueriesAreCounted, MatchesAreCounted, Scan
  PROVE  QueriesAreCounted' /\ MatchesAreCounted'
<1>. DEFINE found == [NoBatch EXCEPT !.counts[Watched] = 1]
<1>0. /\ "processes" \in Activities /\ loop.at = "idle" /\ Watched \notin Domains /\ Counters = Domains \cup {Watched}
      /\ UNCHANGED <<aggregates, capture, drain, requests, counts, drains>>
      /\ seen \in [Counters -> Nat]
  BY TelemetryAssumption DEF Activities, Scan, Tick, dnsVars, serverVars, Counters, TypeOK
<1>1. /\ NoBatch \in Batches /\ \A c \in Counters : NoBatch.counts[c] = 0 /\ InFlight(c) = 0
      /\ found \in Batches /\ found.counts[Watched] = 1 /\ \A d \in Domains : found.counts[d] = 0
  BY <1>0, BatchTypes DEF NoCounts, InFlight, Batches
<1>. HIDE DEF found
<1>2. CASE Send("processes", NoBatch) /\ UNCHANGED seen
  <2>1. \A c \in Counters : Total(c)' = Total(c)
    BY <1>0, <1>1, <1>2, SendKeepsTotals
  <2>. QED
    BY <2>1, <1>0, <1>2, TotalsStay DEF QueryHistory
<1>3. ASSUME seen' = [seen EXCEPT ![Watched] = @ + 1],
             Send("processes", found) \/ (loop' = [at |-> "kill", what |-> "processes", batch |-> found] /\ lost' = lost)
      PROVE  QueriesAreCounted' /\ MatchesAreCounted'
  <2>1. ASSUME NEW c \in Counters PROVE Total(c)' = Total(c) + found.counts[c]
    <3>0. /\ Sent(c) \in Nat /\ Collected(c) \in Nat /\ counts[c] \in Nat /\ lost[c] \in Nat /\ found.counts[c] \in Nat
          /\ Sent(c)' = Sent(c) /\ Collected(c)' = Collected(c) /\ counts'[c] = counts[c] /\ InFlight(c) = 0
      <4>1. found.counts[c] \in Nat
        BY <1>0, <1>1 DEF Batches
      <4>2. Sent(c)' = Sent(c) /\ Collected(c)' = Collected(c) /\ counts'[c] = counts[c]
        BY <1>0 DEF Sent, SumOf, Collected
      <4>. QED
        BY <4>1, <4>2, <1>1, TermsAre
    <3>1. CASE loop'.at \in {"kill", "send"} /\ loop'.batch = found /\ lost' = lost
      <4>1. InFlight(c)' = found.counts[c]
        BY <3>1 DEF InFlight
      <4>. QED
        BY <3>0, <3>1, <4>1 DEF Total
    <3>2. CASE loop' = Idle /\ lost' = Plus(lost, found.counts)
      <4>1. InFlight(c)' = 0
        BY <3>2, BatchTypes DEF InFlight
      <4>2. lost'[c] = lost[c] + found.counts[c]
        BY <3>2 DEF Plus
      <4>. QED
        BY <3>0, <4>1, <4>2 DEF Total
    <3>. QED
      BY <1>3, <3>1, <3>2 DEF Send
  <2>2. /\ \A d \in Domains : Total(d)' = Total(d) /\ seen'[d] = seen[d]
        /\ Total(Watched)' = Total(Watched) + 1 /\ seen'[Watched] = seen[Watched] + 1
    <3>1. \A c \in Counters : Total(c) \in Nat
      BY TermsAre DEF Total
    <3>. QED
      BY <3>1, <2>1, <1>0, <1>1, <1>3
  <2>3. MatchesAreCounted'
    BY <2>2 DEF MatchesAreCounted
  <2>4. QueriesAreCounted'
    <3>. SUFFICES ASSUME NEW d \in Domains
                  PROVE  (seen[d] <= Total(d) + Missing(d))' /\ (Total(d) + Spare(d) <= seen[d] + drains[d])'
      BY DEF QueriesAreCounted
    <3>1. Missing(d)' = Missing(d) /\ Spare(d)' = Spare(d)
      BY <1>0 DEF Missing, Spare
    <3>. QED
      BY <3>1, <2>2, <1>0 DEF QueriesAreCounted
  <2>. QED
    BY <2>3, <2>4
<1>. QED
  BY <1>2, <1>3 DEF Scan, found

\* What a stop of the service costs is what the agent held and had not posted.
LEMMA RestartCounts ==
  ASSUME TypeOK, TypeOK', EventInv, RequestsAreSpent, DrainIsOfLoop, CaptureHasDomain, QueriesAreCounted, MatchesAreCounted, Restart
  PROVE  QueriesAreCounted' /\ MatchesAreCounted'
<1>0. /\ None \notin Counters /\ Watched \notin Domains /\ Counters = Domains \cup {Watched}
      /\ aggregates \in [Domains -> Nat] /\ drain.count \in Nat /\ drain.of \in Domains \cup {None}
      /\ capture.of \in Domains \cup {None}
      /\ NotCapturing.of = None /\ NotDraining.of = None /\ Idle.at = "idle"
      /\ capture.at \in {"idle", "found", "counted"}
  BY TelemetryAssumption, BatchTypes DEF Counters, TypeOK, NotCapturing, NotDraining
<1>1. /\ loop' = Idle /\ aggregates' = [d \in Domains |-> 0] /\ capture'.of = None /\ drain'.of = None
      /\ UNCHANGED <<counts, seen, drains>>
  BY <1>0 DEF Restart
<1>2. ASSUME NEW c \in Counters
      PROVE  /\ Total(c) \in Nat
             /\ Total(c)' = Total(c) + (IF c \in Domains THEN Missing(c) ELSE 0)
  <2>. DEFINE hand == IF loop.at \in {"drain", "kill", "send"} THEN loop.batch.counts[c] ELSE 0
              kept == IF c \in Domains THEN aggregates[c] ELSE 0
              last == IF drain.of = c THEN drain.count ELSE 0
              held == IF capture.of = c /\ (capture.at = "found" \/ aggregates[c] = 0) THEN 1 ELSE 0
  <2>0. /\ Sent(c) \in Nat /\ Collected(c) \in Nat /\ InFlight(c) \in Nat /\ counts[c] \in Nat /\ lost[c] \in Nat
        /\ Sent(c)' = Sent(c)
    BY TermsAre, AnswersKeepSent
  <2>1. Collected(c)' = 0 /\ InFlight(c)' = 0
    BY <1>0, <1>1 DEF Collected, InFlight
  <2>2. hand = InFlight(c) /\ kept \in Nat /\ last \in Nat /\ held \in {0, 1}
    BY <1>0 DEF InFlight
  <2>3. c \notin Domains => drain.of # c /\ capture.of # c
    BY <1>0
  <2>4. Collected(c) = kept + last
    BY <1>0, <2>3 DEF Collected
  <2>5. held = IF c \in Domains THEN Missing(c) ELSE 0
    BY <2>3 DEF Missing
  <2>6. lost'[c] = lost[c] + hand + kept + last + held
    BY DEF Restart
  <2>7. Total(c) = kept + last + hand + Sent(c) + counts[c] + lost[c] /\ Total(c) \in Nat
    <3>. HIDE DEF kept, last, hand
    <3>. QED
      BY <2>0, <2>2, <2>4 DEF Total
  <2>8. Total(c)' = 0 + 0 + Sent(c) + counts[c] + (lost[c] + hand + kept + last + held)
    <3>. HIDE DEF kept, last, hand, held
    <3>. QED
      BY <1>1, <2>0, <2>1, <2>6 DEF Total
  <2>. HIDE DEF kept, last, hand, held
  <2>. QED
    BY <2>0, <2>2, <2>5, <2>7, <2>8
<1>3. QueriesAreCounted'
  <2>. SUFFICES ASSUME NEW d \in Domains
                PROVE  (seen[d] <= Total(d) + Missing(d))' /\ (Total(d) + Spare(d) <= seen[d] + drains[d])'
    BY DEF QueriesAreCounted
  <2>0. d \in Counters /\ d # None /\ seen[d] \in Nat /\ drains[d] \in Nat
    BY <1>0 DEF TypeOK
  <2>1. Missing(d)' = 0 /\ Spare(d)' = 0
    BY <1>1, <2>0 DEF Missing, Spare
  <2>2. Missing(d) <= Spare(d) /\ Missing(d) \in Nat /\ Spare(d) \in Nat
    BY DEF Missing, Spare
  <2>3. Total(d) \in Nat /\ Total(d)' = Total(d) + Missing(d)
    BY <1>2, <2>0
  <2>. QED
    BY <1>1, <2>0, <2>1, <2>2, <2>3 DEF QueriesAreCounted
<1>4. MatchesAreCounted'
  <2>1. Total(Watched) \in Nat /\ Total(Watched)' = Total(Watched)
    BY <1>0, <1>2
  <2>. QED
    BY <1>1, <2>1 DEF MatchesAreCounted
<1>. QED
  BY <1>3, <1>4

LEMMA CountsGoOn == ASSUME TypeOK, TypeOK', EventInv, CountInv, [Next]_vars PROVE CountInv'
<1>. USE DEF CountInv
<1>1. RequestsAreSpent' /\ DrainIsOfLoop' /\ CaptureHasDomain'
  BY RequestsStaySpent, DrainStaysOfLoop, CaptureKeepsDomain
<1>2. CASE EventNext
  <2>1. UNCHANGED QueryHistory
    BY <1>2 DEF EventNext, LogEvent, Collect, CollectFails, StartSave, EndSave, dnsVars, historyVars, QueryHistory
  <2>. QED
    BY <1>1, <1>2, <2>1, EventsKeepTotals, TotalsStay
<1>3. CASE CaptureNext
  BY <1>1, <1>3, CaptureCountsQueries
<1>4. CASE StartDrain \/ DrainRead \/ EndDrain
  <2>1. UNCHANGED QueryHistory
    BY <1>4 DEF StartDrain, DrainRead, EndDrain, dnsVars, historyVars, QueryHistory
  <2>2. DrainNext
    BY <1>4 DEF DrainNext
  <2>. QED
    BY <1>1, <2>1, <2>2, DrainKeepsTotals, TotalsStay
<1>5. ASSUME NEW d \in Domains, DrainRemove(d) PROVE CountInv'
  <2>0. /\ aggregates \in [Domains -> Nat] /\ drains \in [Domains -> Nat] /\ seen \in [Counters -> Nat]
        /\ UNCHANGED <<capture, seen>> /\ aggregates' = [aggregates EXCEPT ![d] = 0]
        /\ drains' = IF capture.of = d THEN [drains EXCEPT ![d] = @ + 1] ELSE drains
        /\ Counters = Domains \cup {Watched}
    BY <1>5 DEF DrainRemove, TypeOK, Counters
  <2>1. \A c \in Counters : Total(c)' = Total(c) /\ Total(c) \in Nat
    <3>1. DrainNext
      BY <1>5 DEF DrainNext
    <3>2. \A c \in Counters : Total(c) \in Nat
      BY TermsAre DEF Total
    <3>. QED
      BY <3>1, <3>2, DrainKeepsTotals
  <2>2. MatchesAreCounted'
    BY <2>0, <2>1 DEF MatchesAreCounted
  <2>3. QueriesAreCounted'
    <3>. SUFFICES ASSUME NEW e \in Domains
                  PROVE  (seen[e] <= Total(e) + Missing(e))' /\ (Total(e) + Spare(e) <= seen[e] + drains[e])'
      BY DEF QueriesAreCounted
    <3>0. /\ Total(e)' = Total(e) /\ Total(e) \in Nat /\ seen[e] \in Nat /\ drains[e] \in Nat /\ aggregates[e] \in Nat
          /\ seen[e] <= Total(e) + Missing(e) /\ Total(e) + Spare(e) <= seen[e] + drains[e]
      BY <2>0, <2>1 DEF QueriesAreCounted
    <3>1. CASE e = d /\ capture.of = d
      <4>1. aggregates'[e] = 0 /\ drains'[e] = drains[e] + 1
        BY <2>0, <3>1
      <4>2. Missing(e)' = 1 /\ Missing(e) \in {0, 1} /\ Spare(e)' <= Spare(e) + 1 /\ Spare(e) \in Nat /\ Spare(e)' \in Nat
        BY <2>0, <3>1, <4>1 DEF Missing, Spare
      <4>. QED
        BY <2>0, <3>0, <4>1, <4>2
    <3>2. CASE ~(e = d /\ capture.of = d)
      <4>1. Missing(e)' = Missing(e) /\ Spare(e)' = Spare(e) /\ drains'[e] = drains[e]
        BY <2>0, <3>2 DEF Missing, Spare
      <4>. QED
        BY <2>0, <3>0, <4>1
    <3>. QED
      BY <3>1, <3>2
  <2>. QED
    BY <1>1, <2>2, <2>3
<1>6. CASE Scan
  BY <1>1, <1>6, ScanCountsMatches
<1>7. CASE Kill
  <2>1. /\ UNCHANGED QueryHistory /\ loop.at = "kill" /\ Send("processes", loop.batch)
        /\ UNCHANGED <<aggregates, drain, requests, counts>>
    BY <1>7 DEF Kill, dnsVars, serverVars, historyVars, QueryHistory
  <2>2. loop.batch \in Batches /\ "processes" \in Activities
    BY DEF TypeOK, Activities
  <2>3. \A c \in Counters : InFlight(c) = loop.batch.counts[c]
    BY <2>1 DEF InFlight
  <2>4. \A c \in Counters : Total(c)' = Total(c)
    BY <2>1, <2>2, <2>3, SendKeepsTotals
  <2>. QED
    BY <1>1, <2>1, <2>4, TotalsStay
<1>8. CASE SetExempt \/ UNCHANGED vars
  <2>1. UNCHANGED QueryHistory /\ UNCHANGED <<loop, aggregates, drain, requests, counts, lost>>
    BY <1>8 DEF SetExempt, agentVars, dnsVars, serverVars, historyVars, vars, QueryHistory
  <2>2. \A c \in Counters : InFlight(c)' = InFlight(c)
    BY <2>1 DEF InFlight
  <2>. QED
    BY <1>1, <2>1, <2>2, HandKeepsTotals, TotalsStay
<1>9. CASE HeartbeatNext
  <2>1. UNCHANGED QueryHistory
    BY <1>9 DEF HeartbeatNext, StartHeartbeat, HeartbeatRead, HeartbeatReply, HeartbeatFails, dnsVars, historyVars, QueryHistory
  <2>. QED
    BY <1>1, <1>9, <2>1, HeartbeatsKeepTotals, TotalsStay
<1>10. ASSUME NEW r \in Requests, Post(r) \/ Ingest(r) \/ IngestFails(r) PROVE CountInv'
  <2>1. UNCHANGED QueryHistory
    BY <1>10 DEF Post, Ingest, IngestFails, dnsVars, historyVars, QueryHistory
  <2>. QED
    BY <1>1, <1>10, <2>1, RequestsKeepTotals, TotalsStay
<1>11. CASE Reply \/ GiveUp
  <2>1. UNCHANGED QueryHistory
    BY <1>11 DEF Reply, GiveUp, dnsVars, historyVars, QueryHistory
  <2>. QED
    BY <1>1, <1>11, <2>1, RepliesKeepTotals, TotalsStay
<1>12. CASE Restart
  BY <1>1, <1>12, RestartCounts
<1>. QED
  BY <1>2, <1>3, <1>4, <1>5, <1>6, <1>7, <1>8, <1>9, <1>10, <1>11, <1>12
     DEF Next, DrainNext, ProcessNext, RequestNext, LoopNext

LEMMA CountsStart == ASSUME Init, TypeOK PROVE CountInv
<1>0. /\ NoRequest.batch = NoBatch /\ NoBatch.counts = NoCounts /\ NotDraining.keys = {} /\ NotDraining.of = None
      /\ \A c \in Counters : NoCounts[c] = 0
      /\ NotCapturing.at = "idle" /\ NotCapturing.of = None /\ None \notin Counters /\ Idle.at = "idle"
      /\ Watched \in Counters /\ Domains \subseteq Counters
  BY BatchTypes, TelemetryAssumption DEF NoRequest, NotDraining, NotCapturing, NoCounts, Counters
<1>1. RequestsAreSpent /\ DrainIsOfLoop /\ CaptureHasDomain
  BY <1>0 DEF Init, RequestsAreSpent, DrainIsOfLoop, CaptureHasDomain
<1>2. ASSUME NEW c \in Counters PROVE Total(c) = 0 /\ seen[c] = 0
  <2>1. Sent(c) = 0
    <3>. DEFINE f == [r \in Requests |-> requests[r].batch.counts[c]]
    <3>1. f \in [Requests -> Nat] /\ \A r \in Requests : f[r] = 0
      BY <1>0 DEF Init
    <3>2. SumOf(f) = 0
      <4>. HIDE DEF f
      <4>. QED
        BY <3>1, SumOfNone
    <3>. QED
      BY <3>2 DEF Sent
  <2>2. Collected(c) = 0 /\ InFlight(c) = 0 /\ counts[c] = 0 /\ lost[c] = 0 /\ seen[c] = 0
    BY <1>0 DEF Init, Collected, InFlight
  <2>. QED
    BY <2>1, <2>2 DEF Total
<1>3. \A d \in Domains : Missing(d) = 0 /\ Spare(d) = 0 /\ drains[d] = 0
  BY <1>0 DEF Init, Missing, Spare
<1>4. QueriesAreCounted /\ MatchesAreCounted
  BY <1>0, <1>2, <1>3 DEF QueriesAreCounted, MatchesAreCounted
<1>. QED
  BY <1>1, <1>4 DEF CountInv

LEMMA CountsAreSound == ASSUME TypeOK, CountInv PROVE CountsAreAccounted
<1>0. \A c \in Counters : Total(c) \in Nat /\ seen[c] \in Nat
  BY TermsAre DEF Total
<1>00. Counters = Domains \cup {Watched} /\ capture.of \in Domains \cup {None} /\ None \notin Counters
  BY TelemetryAssumption DEF Counters, TypeOK
<1>1. ASSUME NEW c \in Counters PROVE seen[c] <= Total(c) + (IF capture.of = c THEN 1 ELSE 0)
  <2>1. CASE c \in Domains
    BY <1>0, <2>1 DEF CountInv, QueriesAreCounted, Missing
  <2>2. CASE c = Watched
    BY <1>0, <2>2 DEF CountInv, MatchesAreCounted
  <2>. QED
    BY <1>00, <2>1, <2>2
<1>2. ASSUME NEW d \in Domains PROVE Total(d) <= seen[d] + drains[d]
  <2>1. Total(d) \in Nat /\ seen[d] \in Nat /\ drains[d] \in Nat /\ Spare(d) \in Nat
    BY <1>0, <1>00 DEF TypeOK, Spare
  <2>. QED
    BY <2>1 DEF CountInv, QueriesAreCounted
<1>. QED
  BY <1>1, <1>2 DEF CountInv, MatchesAreCounted, CountsAreAccounted
-----------------------------------------------------------------------------
(* The theorems.                                                           *)

LEMMA InitIInv == Init => IInv
<1> SUFFICES ASSUME Init PROVE IInv
  OBVIOUS
<1> USE TelemetryAssumption
<1>1. TypeOK
  <2>1. loop \in [at : {"idle", "drain", "kill", "send", "wait", "save", "heartbeat", "answered"},
                 what : Activities \cup {"none"}, batch : Batches]
    BY BatchTypes DEF Init, Idle
  <2>2. requests \in [Requests -> [at : {"none", "sent", "stored"}, batch : Batches]]
    <3>1. NoRequest \in [at : {"none", "sent", "stored"}, batch : Batches]
      BY BatchTypes DEF NoRequest
    <3> QED
      BY <3>1 DEF Init
  <2>3. /\ capture \in [at : {"idle", "found", "counted"}, of : Domains \cup {None}]
        /\ drain \in [keys : SUBSET Domains, of : Domains \cup {None}, count : Nat]
    BY DEF Init, NotCapturing, NotDraining
  <2>4. /\ first \subseteq Activities /\ starts \in Nat /\ awaited \in Requests \cup {None}
        /\ logged \in 0 .. MaxEvents /\ bookmark \in 0 .. MaxEvents /\ saved \in 0 .. MaxEvents
        /\ dropped \subseteq Events
    BY DEF Init
  <2>5. known \in BOOLEAN /\ exempt \in BOOLEAN /\ answer \in BOOLEAN /\ excused \in BOOLEAN
    BY DEF Init
  <2>6. /\ aggregates \in [Domains -> Nat] /\ rows \in [Events -> Nat] /\ drains \in [Domains -> Nat]
        /\ counts \in [Counters -> Nat] /\ seen \in [Counters -> Nat] /\ lost \in [Counters -> Nat]
    BY BatchTypes DEF Init
  <2> QED
    BY <2>1, <2>2, <2>3, <2>4, <2>5, <2>6 DEF TypeOK
<1>2. EventInv
  BY BatchTypes DEF Init, EventInv, BookmarksInOrder, BatchIsUnsaved, AwaitedCarriesBatch,
     PassedEventsAreAccounted, EventsStoredOnce
<1>3. ExemptInv
  BY BatchTypes DEF Init, ExemptInv, HeardOrExcused, KillsWhenTold, Activities
<1> QED
  BY <1>1, <1>2, <1>3, CountsStart DEF IInv

THEOREM SpecIInv == Spec => []IInv
<1>1. IInv /\ [Next]_vars => IInv'
  BY NextTypeOK, NextEventInv, NextExemptInv, CountsGoOn DEF IInv, EventInv
<1> QED
  BY InitIInv, <1>1, PTL DEF Spec

\* The types of what the agent and the server keep, for any bounds.
THEOREM TypeCorrect == Spec => []TypeOK
  BY SpecIInv, PTL DEF IInv

\* CollectFromLog and EventLogBookmarks: the bookmark passes no event that is
\* not stored, on its way, or in a batch that failed.
THEOREM PassedEvents == Spec => []PassedEventsAreAccounted
  BY SpecIInv, PTL DEF IInv, EventInv

\* insertEventLogsBulk stores an event once however often the agent sends it.
THEOREM EventsOnce == Spec => []EventsStoredOnce
  BY SpecIInv, PTL DEF IInv, EventInv

\* DoProcessMonitorAsync kills nothing on a computer that is exempt, unless the
\* agent could not have heard of the exemption.
THEOREM ExemptComputersAreSpared == Spec => []ExemptIsSpared
<1>1. IInv => ExemptIsSpared
  BY DEF IInv, ExemptInv, HeardOrExcused, KillsWhenTold, ExemptIsSpared
<1> QED
  BY SpecIInv, <1>1, PTL

\* DnsQueryCollector and ProcessWatchCollector: no query is lost, and none counted twice without an
\* aggregate that was removed under the capture thread; matches are exact.
THEOREM CountsAccounted == Spec => []CountsAreAccounted
<1>1. IInv => CountsAreAccounted
  BY CountsAreSound DEF IInv
<1> QED
  BY SpecIInv, <1>1, PTL

-----------------------------------------------------------------------------
(* What the database has of a computer.                                    *)

\* Requests that have not come, and the kinds that bring lists.
Unstarted ==
  /\ \A s \in Syncs : s > started => handler[s] = Unsent /\ prior[s] = {}
  /\ disturbed \subseteq 1 .. started
  /\ clearing => started > 0
  /\ \A s \in Syncs : handler[s].kind = "full" <=> handler[s].list # "none"

\* A request that was over when another came is over.
PriorIsOver ==
  \A t \in Syncs : \A s \in prior[t] : s < t /\ ~Running(s)

\* The list is of requests that have stored it.  One that has deleted it stays without those that
\* were over before it; a stored list is gone only by a clear or by a request beside or after it;
\* without a list some request has not stored its own.
ListInv ==
  /\ \A s \in list : handler[s].list = "done"
  /\ \A t \in Syncs : handler[t].list \in {"insert", "done"} => prior[t] \cap list = {}
  /\ \A s \in Syncs : handler[s].list = "done" /\ s \notin list /\ s \notin disturbed =>
       \E t \in Syncs : t # s /\ t <= started /\ t \notin prior[s] /\ handler[t].kind = "full"
  /\ list = {} /\ disturbed = {} =>
       \/ \A s \in Syncs : handler[s].list # "done"
       \/ \E s \in Syncs : handler[s].kind = "full" /\ handler[s].list \in {"insert", "failed"}

Finished == {s \in Syncs : handler[s].meta = "done"}

\* Rows are numbered in the order of their insertion, each by a request that ended with it.  A row
\* that a request has found goes only by a clear, and without a clear the last row is the entry's.
RowsInv ==
  /\ inserted <= Cardinality(Finished)
  /\ RowIds \subseteq 1 .. inserted
  /\ disturbed = {} => RowIds = 1 .. inserted /\ attached = inserted
  /\ \A s \in Syncs : handler[s].meta \in {"base", "parts", "write", "done"} /\ s \notin disturbed =>
       handler[s].row \in RowIds \/ (handler[s].meta = "write" /\ handler[s].row = 0)
  /\ \A s \in Syncs : handler[s].meta \in {"base", "parts"} => handler[s].row \in Syncs

\* The newest metadata, in the only row, with nothing beside and only events after it.
Settled(s) ==
  /\ handler[s].kind = "full" /\ handler[s].meta = "done" /\ s \notin disturbed
  /\ \A t \in 1 .. started : ~Overlap(s, t) /\ (t > s => handler[t].kind = "partial")
  /\ RowIds = {handler[s].row}

\* What a later request has read of it.
Carries(t, s) ==
  /\ handler[t].meta \in {"base", "parts", "write"} => handler[t].row = handler[s].row
  /\ handler[t].meta \in {"parts", "read", "write"} => handler[t].old["scalars"] = s
  /\ handler[t].meta \in {"read", "write"} => handler[t].old["parts"] = s

\* The only row is the one that a request has left, as it has left it.
Holds(s) ==
  /\ RowIds = {handler[s].row}
  /\ metadata[handler[s].row]["scalars"] = s /\ metadata[handler[s].row]["parts"] = s

SettledInv ==
  \A s \in Syncs : Settled(s) =>
    /\ metadata[handler[s].row]["scalars"] = s /\ metadata[handler[s].row]["parts"] = s
    /\ \A t \in (s + 1) .. started : Carries(t, s)

SyncInv ==
  /\ SyncTypeOK
  /\ Unstarted
  /\ PriorIsOver
  /\ ListInv
  /\ RowsInv
  /\ SettledInv

-----------------------------------------------------------------------------
(* Requests at work.                                                       *)

ListStages == {"none", "delete", "insert", "done", "failed"}
MetaStages == {"none", "find", "base", "parts", "read", "write", "done", "failed"}
Numbers == 0 .. MaxSyncs
Values == [Fields -> Numbers]
Handlers == [kind : Kinds, list : ListStages, meta : MetaStages, row : 0 .. MaxSyncs, old : Values]

\* The types that change in a step of a request.
HandlerTyped == handler \in [Syncs -> Handlers]
RowsTyped == /\ metadata \in [Syncs -> Values \cup {NoRow}]
             /\ inserted \in 0 .. MaxSyncs /\ attached \in 0 .. MaxSyncs
RestTyped == /\ started \in 0 .. MaxSyncs /\ list \subseteq Syncs
             /\ faults \in 0 .. MaxFaults /\ clearing \in BOOLEAN
             /\ prior \in [Syncs -> SUBSET Syncs] /\ disturbed \subseteq Syncs

LEMMA TypesSplit ==
  /\ SyncTypeOK <=> HandlerTyped /\ RowsTyped /\ RestTyped
  /\ SyncTypeOK' <=> HandlerTyped' /\ RowsTyped' /\ RestTyped'
BY DEF SyncTypeOK, HandlerTyped, RowsTyped, RestTyped, Handlers, ListStages, MetaStages, Values, Numbers

\* What a part of a request does to the fields of the requests.
LEMMA ToListFields ==
  ASSUME HandlerTyped, NEW s \in Syncs, NEW at \in ListStages, ToList(s, at)
  PROVE  /\ HandlerTyped'
         /\ \A t \in Syncs \ {s} : handler'[t] = handler[t]
         /\ handler'[s].kind = handler[s].kind /\ handler'[s].list = at
         /\ handler'[s].meta = handler[s].meta /\ handler'[s].row = handler[s].row
         /\ handler'[s].old = handler[s].old
BY DEF ToList, HandlerTyped, Handlers

LEMMA ToMetaFields ==
  ASSUME HandlerTyped, NEW s \in Syncs, NEW at \in MetaStages, ToMeta(s, at)
  PROVE  /\ HandlerTyped'
         /\ \A t \in Syncs \ {s} : handler'[t] = handler[t]
         /\ handler'[s].kind = handler[s].kind /\ handler'[s].list = handler[s].list
         /\ handler'[s].meta = at /\ handler'[s].row = handler[s].row
         /\ handler'[s].old = handler[s].old
BY DEF ToMeta, HandlerTyped, Handlers

LEMMA ToRowFields ==
  ASSUME HandlerTyped, NEW s \in Syncs, NEW at \in MetaStages, NEW id \in 0 .. MaxSyncs,
         handler' = [handler EXCEPT ![s].meta = at, ![s].row = id]
  PROVE  /\ HandlerTyped'
         /\ \A t \in Syncs \ {s} : handler'[t] = handler[t]
         /\ handler'[s].kind = handler[s].kind /\ handler'[s].list = handler[s].list
         /\ handler'[s].meta = at /\ handler'[s].row = id
         /\ handler'[s].old = handler[s].old
BY DEF HandlerTyped, Handlers

\* A request goes on with what it has read.
ReadInto(s, at, old) == [handler[s] EXCEPT !.meta = at, !.old = old]

LEMMA ToOldFields ==
  ASSUME HandlerTyped, NEW s \in Syncs, NEW at \in MetaStages, NEW old \in Values,
         handler' = [handler EXCEPT ![s] = ReadInto(s, at, old)]
  PROVE  /\ HandlerTyped'
         /\ \A t \in Syncs \ {s} : handler'[t] = handler[t]
         /\ handler'[s].kind = handler[s].kind /\ handler'[s].list = handler[s].list
         /\ handler'[s].meta = at /\ handler'[s].row = handler[s].row /\ handler'[s].old = old
<1> DEFINE new == ReadInto(s, at, old)
<1>1. /\ new \in Handlers /\ new.kind = handler[s].kind /\ new.list = handler[s].list
      /\ new.meta = at /\ new.row = handler[s].row /\ new.old = old
  BY DEF HandlerTyped, Handlers, ReadInto
<1>2. handler' = [handler EXCEPT ![s] = new]
  OBVIOUS
<1> HIDE DEF new
<1> QED
  BY <1>1, <1>2 DEF HandlerTyped

LEMMA EndMetaFields ==
  ASSUME HandlerTyped, NEW s \in Syncs, NEW at \in MetaStages, NEW id \in 0 .. MaxSyncs,
         EndMeta(s, at, id)
  PROVE  /\ HandlerTyped'
         /\ \A t \in Syncs \ {s} : handler'[t] = handler[t]
         /\ handler'[s].kind = handler[s].kind /\ handler'[s].list = handler[s].list
         /\ handler'[s].meta = at /\ handler'[s].row = id
<1>1. Nothing \in Values
  BY InventorySyncAssumption DEF Nothing, Values, Numbers
<1> QED
  BY <1>1 DEF EndMeta, HandlerTyped, Handlers

\* A step of a running request leaves the others as they are, which were over or are.
LEMMA WorkKeepsOrder ==
  ASSUME Unstarted, PriorIsOver, NEW s \in Syncs, Running(s), HandlerTyped, RestTyped,
         \A t \in Syncs \ {s} : handler'[t] = handler[t],
         handler'[s].kind = handler[s].kind,
         handler'[s].list = "none" <=> handler[s].list = "none",
         UNCHANGED <<started, prior, disturbed, clearing>>
  PROVE  Unstarted' /\ PriorIsOver' /\ s <= started
<1>1. s <= started
  <2>1. handler[s] # Unsent
    BY DEF Running, Unsent
  <2>2. s \in Nat /\ started \in Nat
    BY DEF Syncs, RestTyped
  <2> QED
    BY <2>1, <2>2 DEF Unstarted
<1>2. Unstarted'
  BY <1>1 DEF Unstarted, Syncs, RestTyped
<1>3. PriorIsOver'
  BY DEF PriorIsOver, Running, RestTyped
<1> QED
  BY <1>1, <1>2, <1>3

\* Steps that do nothing to the list.
LEMMA ListIsUntouched ==
  ASSUME ListInv, PriorIsOver, RestTyped,
         \A t \in Syncs : handler'[t].kind = handler[t].kind /\ handler'[t].list = handler[t].list,
         UNCHANGED <<list, started, prior, disturbed>>
  PROVE  ListInv'
BY DEF ListInv, RestTyped

\* Steps that do nothing to the metadata and what requests have read of it.
LEMMA MetadataIsUntouched ==
  ASSUME RowsInv, SettledInv, RestTyped,
         \A t \in Syncs : /\ handler'[t].kind = handler[t].kind /\ handler'[t].meta = handler[t].meta
                          /\ handler'[t].row = handler[t].row /\ handler'[t].old = handler[t].old,
         UNCHANGED <<metadata, inserted, attached, started, prior, disturbed>>
  PROVE  RowsInv' /\ SettledInv'
<1>1. RowIds' = RowIds
  BY DEF RowIds
<1>2. Finished' = Finished
  BY DEF Finished
<1>3. RowsInv'
  BY <1>1, <1>2 DEF RowsInv
<1>4. SettledInv'
  <2>1. 1 .. started \subseteq Syncs
    BY InventorySyncAssumption DEF Syncs, RestTyped
  <2>2. ASSUME NEW s \in Syncs PROVE Settled(s)' => Settled(s)
    BY <1>1, <2>1 DEF Settled, Overlap
  <2>3. ASSUME NEW s \in Syncs, NEW t \in Syncs, Carries(t, s) PROVE Carries(t, s)'
    BY <2>3 DEF Carries
  <2> QED
    BY <2>1, <2>2, <2>3 DEF SettledInv, Syncs
<1> QED
  BY <1>3, <1>4

\* The requests that have ended with a row are counted.
LEMMA FinishedIsCounted ==
  /\ Cardinality(Finished) \in Nat /\ IsFiniteSet(Finished)
  /\ \A s \in Syncs \ Finished : Cardinality(Finished) < MaxSyncs
<1>1. IsFiniteSet(Syncs) /\ Cardinality(Syncs) = MaxSyncs
  <2>1. MaxSyncs >= 1 => IsFiniteSet(1 .. MaxSyncs) /\ Cardinality(1 .. MaxSyncs) = MaxSyncs - 1 + 1
    BY InventorySyncAssumption, FS_Interval
  <2>2. MaxSyncs = 0 => Syncs = {}
    BY DEF Syncs
  <2> QED
    BY <2>1, <2>2, InventorySyncAssumption, FS_EmptySet DEF Syncs
<1>2. Finished \subseteq Syncs
  BY DEF Finished
<1>3. IsFiniteSet(Finished) /\ Cardinality(Finished) \in Nat
  BY <1>1, <1>2, FS_Subset, FS_CardinalityType
<1>4. ASSUME NEW s \in Syncs \ Finished PROVE Cardinality(Finished) < MaxSyncs
  <2>1. Finished # Syncs
    BY <1>4
  <2> QED
    BY <1>1, <1>2, <1>3, <2>1, FS_Subset, InventorySyncAssumption
<1> QED
  BY <1>3, <1>4

\* A running request beside the newest inventory came after it and brings no metadata.
LEMMA ActorIsLater ==
  ASSUME PriorIsOver, RestTyped, NEW x \in Syncs, Settled(x), NEW s \in Syncs, Running(s),
         s <= started, s # x
  PROVE  s \in (x + 1) .. started /\ handler[s].kind = "partial"
<1>1. s \in 1 .. started
  BY DEF Syncs, RestTyped
<1>2. s \in prior[x] \/ x \in prior[s]
  BY <1>1 DEF Settled, Overlap
<1>3. s \notin prior[x]
  BY DEF PriorIsOver
<1>4. x < s
  BY <1>2, <1>3 DEF PriorIsOver
<1> QED
  BY <1>1, <1>4 DEF Settled, Syncs, RestTyped

\* A step of a request that only reads, or fails, keeps the rows.
LEMMA ReaderKeepsRows ==
  ASSUME RowsInv, HandlerTyped, HandlerTyped', RowsTyped, NEW s \in Syncs, Running(s),
         handler[s].meta # "done",
         \A t \in Syncs \ {s} : handler'[t] = handler[t],
         UNCHANGED <<metadata, inserted, attached, disturbed>>,
         handler'[s].meta \in {"base", "parts", "write", "done"} /\ s \notin disturbed =>
           handler'[s].row \in RowIds \/ (handler'[s].meta = "write" /\ handler'[s].row = 0),
         handler'[s].meta \in {"base", "parts"} => handler'[s].row \in Syncs
  PROVE  RowsInv'
<1>1. RowIds' = RowIds
  BY DEF RowIds
<1>2. Finished \subseteq Finished'
  BY DEF Finished
<1>3. Cardinality(Finished) <= Cardinality(Finished')
  <2>1. IsFiniteSet(Finished')
    <3>1. IsFiniteSet(Syncs)
      BY InventorySyncAssumption, FS_Interval DEF Syncs
    <3> QED
      BY <3>1, FS_Subset DEF Finished
  <2> QED
    BY <1>2, <2>1, FS_Subset
<1>4. inserted <= Cardinality(Finished')
  <2>1. Cardinality(Finished) \in Nat /\ Cardinality(Finished') \in Nat
    <3>1. IsFiniteSet(Syncs) /\ Finished \subseteq Syncs /\ Finished' \subseteq Syncs
      <4>1. IsFiniteSet(Syncs)
        BY InventorySyncAssumption, FS_Interval DEF Syncs
      <4>2. Finished \subseteq Syncs /\ Finished' \subseteq Syncs
        BY DEF Finished
      <4> QED
        BY <4>1, <4>2
    <3> QED
      BY <3>1, FS_Subset, FS_CardinalityType
  <2> QED
    BY <1>3, <2>1 DEF RowsInv, RowsTyped
<1> QED
  BY <1>1, <1>4 DEF RowsInv

\* The newest metadata outlasts a request that only reads.
LEMMA ReaderKeepsSettled ==
  ASSUME SettledInv, PriorIsOver, RestTyped, NEW s \in Syncs, Running(s), s <= started,
         \A t \in Syncs \ {s} : handler'[t] = handler[t],
         handler'[s].kind = handler[s].kind,
         UNCHANGED <<metadata, started, prior, disturbed>>,
         handler'[s].meta # "done" \/ s \in disturbed,
         \A x \in Syncs \ {s} : Holds(x) /\ Carries(s, x) => Carries(s, x)'
  PROVE  SettledInv'
<1>1. RowIds' = RowIds
  BY DEF RowIds
<1>2. 1 .. started \subseteq Syncs
  BY InventorySyncAssumption DEF Syncs, RestTyped
<1>3. ASSUME NEW x \in Syncs, Settled(x)' PROVE x # s /\ Settled(x)
  BY <1>1, <1>2, <1>3 DEF Settled, Overlap
<1> SUFFICES ASSUME NEW x \in Syncs, Settled(x)'
             PROVE  /\ metadata[handler[x].row]["scalars"] = x /\ metadata[handler[x].row]["parts"] = x
                    /\ handler'[x] = handler[x]
                    /\ \A t \in (x + 1) .. started : Carries(t, x)'
  BY DEF SettledInv
<1>4. x # s /\ Settled(x) /\ handler'[x] = handler[x]
  BY <1>3
<1>5. /\ metadata[handler[x].row]["scalars"] = x /\ metadata[handler[x].row]["parts"] = x
      /\ \A t \in (x + 1) .. started : Carries(t, x)
  BY <1>4 DEF SettledInv
<1>6. s \in (x + 1) .. started
  BY <1>4, ActorIsLater
<1>7. ASSUME NEW t \in (x + 1) .. started PROVE Carries(t, x)'
  <2>1. CASE t = s
    BY <1>4, <1>5, <1>6, <2>1 DEF Holds, Settled
  <2>2. CASE t # s
    <3>1. t \in Syncs
      BY <1>2 DEF Syncs, RestTyped
    <3> QED
      BY <1>4, <1>5, <2>2, <3>1 DEF Carries
  <2> QED
    BY <2>1, <2>2
<1> QED
  BY <1>4, <1>5, <1>7

-----------------------------------------------------------------------------
(* The steps.                                                              *)

LEMMA StartKeepsInv == ASSUME SyncInv, NEW kind \in Kinds, StartSync(kind) PROVE SyncInv'
<1>0. /\ Unstarted /\ PriorIsOver /\ ListInv /\ RowsInv /\ SettledInv
      /\ HandlerTyped /\ RowsTyped /\ RestTyped
  BY TypesSplit DEF SyncInv
<1>n. PICK n \in Nat : n = started + 1
  BY <1>0 DEF RestTyped
<1>1. /\ n \in Syncs /\ started' = n /\ started \in Nat /\ n <= MaxSyncs /\ MaxSyncs \in Nat
      /\ handler[n] = Unsent /\ prior[n] = {}
      /\ prior' = [prior EXCEPT ![n] = {s \in 1 .. started : ~Running(s)}]
      /\ UNCHANGED <<tableVars, faults, clearing>>
      /\ disturbed \subseteq disturbed' /\ disturbed' \subseteq disturbed \cup {n}
      /\ disturbed \subseteq 1 .. started
      /\ n \in disturbed' <=> clearing
  BY <1>0, <1>n, InventorySyncAssumption DEF StartSync, RestTyped, Syncs, Unstarted
<1>2. /\ HandlerTyped'
      /\ \A t \in Syncs \ {n} : handler'[t] = handler[t]
      /\ handler'[n].kind = kind
      /\ handler'[n].list = IF kind = "full" THEN "delete" ELSE "none"
      /\ handler'[n].meta \in {"read", "find"} /\ (kind = "partial" => handler'[n].meta = "find")
  <2>1. /\ handler' = [handler EXCEPT ![n] =
                   [Unsent EXCEPT !.kind = kind,
                                  !.list = IF kind = "full" THEN "delete" ELSE "none",
                                  !.meta = IF kind = "post" THEN "read" ELSE "find"]]
        /\ handler \in [Syncs -> Handlers]
    BY <1>0, <1>n DEF StartSync, HandlerTyped
  <2>2. Unsent \in Handlers
    BY InventorySyncAssumption DEF Unsent, Handlers, Kinds, ListStages, MetaStages, Nothing, Values, Numbers
  <2>3. /\ \A t \in Syncs \ {n} : handler'[t] = handler[t]
        /\ handler'[n] = [Unsent EXCEPT !.kind = kind,
                                  !.list = IF kind = "full" THEN "delete" ELSE "none",
                                  !.meta = IF kind = "post" THEN "read" ELSE "find"]
    BY <1>1, <2>1
  <2>4. /\ handler'[n].kind = kind
        /\ handler'[n].list = IF kind = "full" THEN "delete" ELSE "none"
        /\ handler'[n].meta = IF kind = "post" THEN "read" ELSE "find"
        /\ handler'[n] \in Handlers
    BY <2>2, <2>3 DEF Handlers, Unsent, ListStages, MetaStages
  <2>5. HandlerTyped'
    <3>1. handler' = [t \in Syncs |-> handler'[t]]
      BY <2>1
    <3> QED
      BY <2>1, <2>3, <2>4, <3>1 DEF HandlerTyped
  <2> QED
    BY <2>3, <2>4, <2>5
<1>3. prior'[n] = {s \in 1 .. started : ~Running(s)} /\ \A t \in Syncs \ {n} : prior'[t] = prior[t]
  BY <1>0, <1>1 DEF RestTyped
<1>4. RowsTyped' /\ RestTyped'
  <2>1. {s \in 1 .. started : ~Running(s)} \in SUBSET Syncs
    BY <1>1, <1>n DEF Syncs
  <2> QED
    BY <1>0, <1>1, <2>1 DEF RowsTyped, RestTyped, tableVars, Syncs
<1>5. Unstarted'
  <2>1. \A s \in Syncs : s > started' => handler'[s] = Unsent /\ prior'[s] = {}
    BY <1>0, <1>1, <1>2, <1>3, <1>n DEF Unstarted, Syncs
  <2>2. disturbed' \subseteq 1 .. started'
    BY <1>1, <1>n
  <2>3. \A s \in Syncs : handler'[s].kind = "full" <=> handler'[s].list # "none"
    BY <1>0, <1>1, <1>2 DEF Unstarted
  <2> QED
    BY <1>0, <1>1, <1>n, <2>1, <2>2, <2>3 DEF Unstarted, RestTyped
<1>6. PriorIsOver'
  <2> SUFFICES ASSUME NEW t \in Syncs, NEW s \in prior'[t] PROVE s < t /\ ~Running(s)'
    BY DEF PriorIsOver
  <2>1. CASE t = n
    <3>1. s \in 1 .. started /\ ~Running(s) /\ s # n /\ s \in Syncs
      BY <1>1, <1>3, <1>n, <2>1 DEF Syncs
    <3> QED
      BY <1>1, <1>2, <1>n, <2>1, <3>1 DEF Running
  <2>2. CASE t # n
    <3>1. s \in prior[t] /\ s \in Syncs /\ prior[t] # {}
      BY <1>0, <1>3, <2>2 DEF RestTyped
    <3>2. s < t /\ ~Running(s)
      BY <1>0, <3>1 DEF PriorIsOver
    <3>3. t <= started
      BY <1>0, <3>1 DEF Unstarted, Syncs, RestTyped
    <3>4. s # n
      BY <1>1, <1>n, <3>2, <3>3 DEF Syncs
    <3> QED
      BY <1>2, <3>1, <3>2, <3>4 DEF Running
  <2> QED
    BY <2>1, <2>2
<1>7. ListInv'
  <2>1. ASSUME NEW s \in list' PROVE handler'[s].list = "done"
    <3>1. s \in list /\ s \in Syncs /\ handler[s].list = "done"
      BY <1>0, <1>1, <2>1 DEF ListInv, tableVars, RestTyped
    <3>2. s # n
      BY <1>1, <3>1 DEF Unsent
    <3> QED
      BY <1>2, <3>1, <3>2
  <2>2. \A t \in Syncs : handler'[t].list \in {"insert", "done"} => prior'[t] \cap list' = {}
    BY <1>0, <1>1, <1>2, <1>3 DEF ListInv, tableVars
  <2>3. ASSUME NEW s \in Syncs, handler'[s].list = "done" /\ s \notin list' /\ s \notin disturbed'
        PROVE \E t \in Syncs : t # s /\ t <= started' /\ t \notin prior'[s] /\ handler'[t].kind = "full"
    <3>1. s # n
      BY <1>2, <2>3
    <3>2. PICK t \in Syncs : t # s /\ t <= started /\ t \notin prior[s] /\ handler[t].kind = "full"
      BY <1>0, <1>1, <1>2, <2>3, <3>1 DEF ListInv, tableVars
    <3>3. t # n /\ t <= started'
      BY <1>1, <1>n, <3>2 DEF Syncs
    <3> QED
      BY <1>2, <1>3, <3>1, <3>2, <3>3
  <2>4. list' = {} /\ disturbed' = {} =>
       \/ \A s \in Syncs : handler'[s].list # "done"
       \/ \E s \in Syncs : handler'[s].kind = "full" /\ handler'[s].list \in {"insert", "failed"}
    <3>1. handler[n].list = "none"
      BY <1>1 DEF Unsent
    <3> QED
      BY <1>0, <1>1, <1>2, <3>1 DEF ListInv, tableVars
  <2> QED
    BY <2>1, <2>2, <2>3, <2>4 DEF ListInv
<1>8. RowsInv'
  <2>1. RowIds' = RowIds
    BY <1>1 DEF RowIds, tableVars
  <2>2. handler[n].meta # "done" /\ handler'[n].meta # "done"
    BY <1>1, <1>2 DEF Unsent
  <2>3. Finished' = Finished
    BY <1>2, <2>2 DEF Finished
  <2> QED
    BY <1>0, <1>1, <1>2, <2>1, <2>3 DEF RowsInv, tableVars
<1>9. SettledInv'
  <2> SUFFICES ASSUME NEW x \in Syncs, Settled(x)'
               PROVE  /\ metadata[handler'[x].row]["scalars"] = x /\ metadata[handler'[x].row]["parts"] = x
                      /\ \A t \in (x + 1) .. started' : Carries(t, x)'
    BY <1>1 DEF SettledInv, tableVars
  <2>1. x # n /\ handler'[x] = handler[x]
    BY <1>2 DEF Settled
  <2>2. \A t \in 1 .. started : t # n /\ t \in 1 .. started' /\ t \in Syncs
    BY <1>1, <1>n DEF Syncs
  <2>3. Settled(x)
    BY <1>1, <1>2, <1>3, <2>1, <2>2 DEF Settled, Overlap, RowIds, tableVars
  <2>4. /\ metadata[handler[x].row]["scalars"] = x /\ metadata[handler[x].row]["parts"] = x
        /\ \A t \in (x + 1) .. started : Carries(t, x)
    BY <1>0, <2>3 DEF SettledInv
  <2>5. n \in 1 .. started' /\ x < n
    <3>1. handler[x] # Unsent
      BY <2>3 DEF Settled, Unsent
    <3> QED
      BY <1>0, <1>1, <1>n, <3>1 DEF Unstarted, Syncs
  <2>6. handler'[n].kind = "partial"
    BY <2>5 DEF Settled
  <2>7. Carries(n, x)'
    <3>1. handler'[n].meta = "find"
      BY <1>2, <2>6
    <3> QED
      BY <3>1 DEF Carries
  <2>8. ASSUME NEW t \in (x + 1) .. started', t # n PROVE Carries(t, x)'
    <3>1. t \in (x + 1) .. started /\ t \in Syncs
      BY <1>1, <1>n, <2>8 DEF Syncs
    <3> QED
      BY <1>2, <2>1, <2>4, <2>8, <3>1 DEF Carries
  <2>9. \A t \in (x + 1) .. started' : Carries(t, x)'
    BY <2>7, <2>8
  <2> QED
    BY <2>1, <2>4, <2>9
<1> QED
  BY <1>2, <1>4, <1>5, <1>6, <1>7, <1>8, <1>9, TypesSplit DEF SyncInv

LEMMA ListStepKeepsInv ==
  ASSUME SyncInv, NEW s \in Syncs, DeleteList(s) \/ InsertList(s) \/ ListFails(s)
  PROVE  SyncInv'
<1>0. /\ Unstarted /\ PriorIsOver /\ ListInv /\ RowsInv /\ SettledInv
      /\ HandlerTyped /\ RowsTyped /\ RestTyped
  BY TypesSplit DEF SyncInv
<1>1. /\ handler[s].list \in {"delete", "insert"} /\ Running(s)
      /\ UNCHANGED <<started, metadata, inserted, attached, clearing, prior, disturbed>>
  BY DEF DeleteList, InsertList, ListFails, Running, tableVars, syncHistory
<1>2. PICK at \in {"insert", "done", "failed"} :
        /\ ToList(s, at)
        /\ \/ handler[s].list = "delete" /\ at = "insert" /\ list' = {}
           \/ handler[s].list = "insert" /\ at = "done" /\ list' = list \cup {s}
           \/ at = "failed" /\ list' = list
  BY DEF DeleteList, InsertList, ListFails, tableVars
<1>3. /\ HandlerTyped'
      /\ \A t \in Syncs \ {s} : handler'[t] = handler[t]
      /\ handler'[s].kind = handler[s].kind /\ handler'[s].list = at
      /\ handler'[s].meta = handler[s].meta /\ handler'[s].row = handler[s].row
      /\ handler'[s].old = handler[s].old
  <2>1. at \in ListStages
    BY DEF ListStages
  <2> QED
    BY <1>0, <1>2, <2>1, ToListFields
<1>4. RowsTyped' /\ RestTyped'
  <2>1. faults' \in 0 .. MaxFaults
    BY <1>0, InventorySyncAssumption DEF RestTyped, DeleteList, InsertList, ListFails, Fault
  <2> QED
    BY <1>0, <1>1, <1>2, <2>1 DEF RowsTyped, RestTyped
<1>5. Unstarted' /\ PriorIsOver' /\ s <= started
  BY <1>0, <1>1, <1>3, WorkKeepsOrder
<1>6. RowsInv' /\ SettledInv'
  <2>1. \A t \in Syncs : /\ handler'[t].kind = handler[t].kind /\ handler'[t].meta = handler[t].meta
                         /\ handler'[t].row = handler[t].row /\ handler'[t].old = handler[t].old
    BY <1>3
  <2> QED
    BY <1>0, <1>1, <2>1, MetadataIsUntouched
<1>7. \A t \in Syncs : s \notin prior[t]
  BY <1>0, <1>1 DEF PriorIsOver
<1>8. handler[s].kind = "full"
  BY <1>0, <1>1 DEF Unstarted
<1>9. ListInv'
  <2>1. \A x \in list' : handler'[x].list = "done"
    BY <1>0, <1>1, <1>2, <1>3 DEF ListInv, RestTyped
  <2>2. \A t \in Syncs : handler'[t].list \in {"insert", "done"} => prior'[t] \cap list' = {}
    <3>1. CASE list' = {}
      BY <3>1
    <3>2. CASE list' \subseteq list \cup {s} /\ (at # "failed" => handler[s].list \in {"insert", "done"})
      BY <1>0, <1>1, <1>3, <1>7, <3>2 DEF ListInv
    <3> QED
      BY <1>2, <3>1, <3>2
  <2>3. ASSUME NEW x \in Syncs, handler'[x].list = "done" /\ x \notin list' /\ x \notin disturbed'
        PROVE \E t \in Syncs : t # x /\ t <= started' /\ t \notin prior'[x] /\ handler'[t].kind = "full"
    <3>1. x # s
      BY <1>2, <1>3, <2>3
    <3>2. CASE list' = {}
      BY <1>1, <1>3, <1>5, <1>7, <1>8, <3>1
    <3>3. CASE list \subseteq list'
      <4>1. PICK t \in Syncs : t # x /\ t <= started /\ t \notin prior[x] /\ handler[t].kind = "full"
        BY <1>0, <1>1, <1>3, <2>3, <3>1, <3>3 DEF ListInv
      <4> QED
        BY <1>1, <1>3, <4>1
    <3> QED
      BY <1>2, <3>2, <3>3
  <2>4. list' = {} /\ disturbed' = {} =>
       \/ \A x \in Syncs : handler'[x].list # "done"
       \/ \E x \in Syncs : handler'[x].kind = "full" /\ handler'[x].list \in {"insert", "failed"}
    BY <1>2, <1>3, <1>8
  <2> QED
    BY <2>1, <2>2, <2>3, <2>4 DEF ListInv
<1> QED
  BY <1>3, <1>4, <1>5, <1>6, <1>9, TypesSplit DEF SyncInv

\* The steps of patchMetadataForIpEntry and txGetExistingMetaId, and those that end without a row.
LEMMA ReadStepKeepsInv ==
  ASSUME SyncInv, NEW s \in Syncs,
         FindMetadata(s) \/ ReadBase(s) \/ ReadParts(s) \/ ReadMetadataId(s) \/ UpdateMisses(s) \/ MetadataFails(s)
  PROVE  SyncInv'
<1>0. /\ Unstarted /\ PriorIsOver /\ ListInv /\ RowsInv /\ SettledInv
      /\ HandlerTyped /\ RowsTyped /\ RestTyped
  BY TypesSplit DEF SyncInv
<1>1. /\ handler[s].meta \notin {"none", "done", "failed"} /\ Running(s)
      /\ UNCHANGED <<started, list, metadata, inserted, attached, clearing, prior, disturbed>>
      /\ faults' \in 0 .. MaxFaults
  BY <1>0, InventorySyncAssumption DEF FindMetadata, ReadBase, ReadParts, ReadMetadataId, UpdateMisses,
    MetadataFails, Running, tableVars, syncHistory, Fault, RestTyped
<1>2. RowIds \subseteq 1 .. MaxSyncs /\ \A id \in RowIds : metadata[id] \in Values /\ id \in 0 .. MaxSyncs
  BY <1>0 DEF RowIds, RowsTyped, Syncs
<1>3. handler[s] \in Handlers
  BY <1>0 DEF HandlerTyped
<1>4. ASSUME HandlerTyped', \A t \in Syncs \ {s} : handler'[t] = handler[t],
             handler'[s].kind = handler[s].kind /\ handler'[s].list = handler[s].list,
             handler'[s].meta \in {"base", "parts", "write", "done"} /\ s \notin disturbed =>
                      handler'[s].row \in RowIds \/ (handler'[s].meta = "write" /\ handler'[s].row = 0),
             handler'[s].meta \in {"base", "parts"} => handler'[s].row \in Syncs,
             handler'[s].meta # "done" \/ s \in disturbed,
             \A x \in Syncs \ {s} : Holds(x) /\ Carries(s, x) => Carries(s, x)'
      PROVE  SyncInv'
  <2>1. RowsTyped' /\ RestTyped'
    BY <1>0, <1>1 DEF RowsTyped, RestTyped
  <2>2. Unstarted' /\ PriorIsOver' /\ s <= started
    BY <1>0, <1>1, <1>4, WorkKeepsOrder
  <2>3. ListInv'
    BY <1>0, <1>1, <1>4, ListIsUntouched
  <2>4. RowsInv'
    BY <1>0, <1>1, <1>4, ReaderKeepsRows
  <2>5. SettledInv'
    BY <1>0, <1>1, <1>4, <2>2, ReaderKeepsSettled
  <2> QED
    BY <1>4, <2>1, <2>2, <2>3, <2>4, <2>5, TypesSplit DEF SyncInv
<1>5. ASSUME FindMetadata(s) PROVE SyncInv'
  <2>1. CASE RowIds = {} /\ ToMeta(s, "read")
    <3>1. \A x \in Syncs \ {s} : ~Holds(x)
      BY <2>1 DEF Holds
    <3> QED
      BY <1>0, <1>4, <2>1, <3>1, ToMetaFields DEF MetaStages
  <2>2. ASSUME NEW id \in RowIds, handler' = [handler EXCEPT ![s].meta = "base", ![s].row = id]
        PROVE SyncInv'
    <3>1. /\ HandlerTyped' /\ \A t \in Syncs \ {s} : handler'[t] = handler[t]
          /\ handler'[s].kind = handler[s].kind /\ handler'[s].list = handler[s].list
          /\ handler'[s].meta = "base" /\ handler'[s].row = id
      BY <1>0, <1>2, <2>2, ToRowFields DEF MetaStages
    <3>2. \A x \in Syncs \ {s} : Holds(x) => Carries(s, x)'
      BY <3>1 DEF Holds, Carries
    <3>3. id \in Syncs
      BY DEF RowIds
    <3> QED
      BY <1>4, <3>1, <3>2, <3>3
  <2> QED
    BY <1>5, <2>1, <2>2 DEF FindMetadata
<1>6. ASSUME ReadBase(s) PROVE SyncInv'
  <2>0. /\ handler[s].meta = "base" /\ handler[s].row \in Syncs
        /\ s \notin disturbed => handler[s].row \in RowIds
    BY <1>0, <1>6 DEF ReadBase, RowsInv
  <2> DEFINE row == metadata[handler[s].row]
  <2>1. CASE row = NoRow /\ ToMeta(s, "read")
    <3>1. \A x \in Syncs \ {s} : Holds(x) /\ Carries(s, x) => FALSE
      BY <2>0, <2>1 DEF Holds, Carries, RowIds
    <3> QED
      BY <1>0, <1>4, <2>1, <3>1, ToMetaFields DEF MetaStages
  <2>2. CASE row # NoRow /\ handler' = [handler EXCEPT ![s].meta = "parts", ![s].old.scalars = row.scalars]
    <3> DEFINE old == [handler[s].old EXCEPT !.scalars = row.scalars]
    <3>0. old \in Values /\ old["scalars"] = row["scalars"] /\ "parts" \in MetaStages
      BY <1>0, <1>3, <2>0, <2>2 DEF RowsTyped, Handlers, Values, Numbers, Fields, MetaStages
    <3>2. handler' = [handler EXCEPT ![s] = ReadInto(s, "parts", old)]
      BY <1>0, <2>2 DEF HandlerTyped, Handlers, ReadInto
    <3> HIDE DEF row, old
    <3>1. /\ HandlerTyped' /\ \A t \in Syncs \ {s} : handler'[t] = handler[t]
          /\ handler'[s].kind = handler[s].kind /\ handler'[s].list = handler[s].list
          /\ handler'[s].meta = "parts" /\ handler'[s].row = handler[s].row
          /\ handler'[s].old["scalars"] = row["scalars"]
      <4>1. handler'[s].old = old
        BY <1>0, <3>0, <3>2, ToOldFields
      <4>2. /\ HandlerTyped' /\ \A t \in Syncs \ {s} : handler'[t] = handler[t]
            /\ handler'[s].kind = handler[s].kind /\ handler'[s].list = handler[s].list
            /\ handler'[s].meta = "parts" /\ handler'[s].row = handler[s].row
        BY <1>0, <3>0, <3>2, ToOldFields
      <4> QED
        BY <3>0, <4>1, <4>2
    <3>3. \A x \in Syncs \ {s} : Holds(x) /\ Carries(s, x) => Carries(s, x)'
      BY <2>0, <3>1 DEF Holds, Carries, row
    <3> QED
      BY <1>4, <2>0, <3>1, <3>3
  <2> QED
    BY <1>6, <2>1, <2>2 DEF ReadBase
<1>7. ASSUME ReadParts(s) PROVE SyncInv'
  <2> DEFINE row == metadata[handler[s].row]
         parts == IF row = NoRow THEN 0 ELSE row.parts
  <2>1. /\ handler[s].meta = "parts" /\ handler[s].row \in Syncs
        /\ handler' = [handler EXCEPT ![s].meta = "read", ![s].old.parts = parts]
    BY <1>0, <1>7 DEF ReadParts, RowsInv
  <2> DEFINE old == [handler[s].old EXCEPT !.parts = parts]
  <2>a. old \in Values /\ old["parts"] = parts /\ old["scalars"] = handler[s].old["scalars"] /\ "read" \in MetaStages
    <3>1. parts \in Numbers
      BY <1>0, <2>1, InventorySyncAssumption DEF RowsTyped, Values, Numbers, Fields
    <3> HIDE DEF parts
    <3> QED
      BY <1>3, <3>1 DEF Handlers, Values, Fields, MetaStages
  <2>b. handler' = [handler EXCEPT ![s] = ReadInto(s, "read", old)]
    BY <1>0, <2>1 DEF HandlerTyped, Handlers, ReadInto
  <2> HIDE DEF row, parts, old
  <2>2. /\ HandlerTyped' /\ \A t \in Syncs \ {s} : handler'[t] = handler[t]
        /\ handler'[s].kind = handler[s].kind /\ handler'[s].list = handler[s].list
        /\ handler'[s].meta = "read" /\ handler'[s].row = handler[s].row
        /\ handler'[s].old["scalars"] = handler[s].old["scalars"]
        /\ handler'[s].old["parts"] = parts
    <3>1. handler'[s].old = old
      BY <1>0, <2>a, <2>b, ToOldFields
    <3>2. /\ HandlerTyped' /\ \A t \in Syncs \ {s} : handler'[t] = handler[t]
          /\ handler'[s].kind = handler[s].kind /\ handler'[s].list = handler[s].list
          /\ handler'[s].meta = "read" /\ handler'[s].row = handler[s].row
      BY <1>0, <2>a, <2>b, ToOldFields
    <3> QED
      BY <2>a, <3>1, <3>2
  <2>4. ASSUME NEW x \in Syncs \ {s}, Holds(x), Carries(s, x) PROVE Carries(s, x)'
    <3>1. parts = x
      BY <2>1, <2>4 DEF Holds, Carries, RowIds, row, parts
    <3> QED
      BY <2>1, <2>2, <2>4, <3>1 DEF Carries
  <2> QED
    BY <1>4, <2>2, <2>4
<1>8. ASSUME ReadMetadataId(s) PROVE SyncInv'
  <2>0. handler[s].meta = "read"
    BY <1>8 DEF ReadMetadataId
  <2>1. PICK id \in RowIds \cup {0} :
          /\ handler' = [handler EXCEPT ![s].meta = "write", ![s].row = id]
          /\ id = 0 => RowIds = {}
    BY <1>2, <1>8 DEF ReadMetadataId
  <2>2. /\ HandlerTyped' /\ \A t \in Syncs \ {s} : handler'[t] = handler[t]
        /\ handler'[s].kind = handler[s].kind /\ handler'[s].list = handler[s].list
        /\ handler'[s].meta = "write" /\ handler'[s].row = id
        /\ handler'[s].old = handler[s].old
    <3>1. id \in 0 .. MaxSyncs
      BY <1>2, InventorySyncAssumption
    <3> QED
      BY <1>0, <2>1, <3>1, ToRowFields DEF MetaStages
  <2>3. \A x \in Syncs \ {s} : Holds(x) /\ Carries(s, x) => Carries(s, x)'
    BY <2>0, <2>1, <2>2 DEF Holds, Carries
  <2> QED
    BY <1>4, <2>1, <2>2, <2>3
<1>9. ASSUME UpdateMisses(s) PROVE SyncInv'
  <2>1. PICK outcome \in {"done", "failed"} : s \in disturbed /\ EndMeta(s, outcome, 0)
    BY <1>0, <1>9 DEF UpdateMisses, RowsInv
  <2>2. /\ HandlerTyped' /\ \A t \in Syncs \ {s} : handler'[t] = handler[t]
        /\ handler'[s].kind = handler[s].kind /\ handler'[s].list = handler[s].list
        /\ handler'[s].meta = outcome
    BY <1>0, <2>1, InventorySyncAssumption, EndMetaFields DEF MetaStages
  <2>3. \A x \in Syncs : Carries(s, x)'
    BY <2>2 DEF Carries
  <2> QED
    BY <1>4, <2>1, <2>2, <2>3
<1>10. ASSUME MetadataFails(s) PROVE SyncInv'
  <2>1. EndMeta(s, "failed", 0)
    BY <1>10 DEF MetadataFails
  <2>2. /\ HandlerTyped' /\ \A t \in Syncs \ {s} : handler'[t] = handler[t]
        /\ handler'[s].kind = handler[s].kind /\ handler'[s].list = handler[s].list
        /\ handler'[s].meta = "failed"
    BY <1>0, <2>1, InventorySyncAssumption, EndMetaFields DEF MetaStages
  <2>3. \A x \in Syncs : Carries(s, x)'
    BY <2>2 DEF Carries
  <2> QED
    BY <1>4, <2>2, <2>3
<1> QED
  BY <1>5, <1>6, <1>7, <1>8, <1>9, <1>10

\* What a request with every field leaves is its own, and what one without leaves it had read.
LEMMA MergedIsTyped ==
  ASSUME HandlerTyped, NEW s \in Syncs
  PROVE  /\ Merged(s) \in Values /\ Merged(s) # NoRow
         /\ handler[s].kind = "full" => Merged(s)["scalars"] = s /\ Merged(s)["parts"] = s
         /\ handler[s].kind = "partial" =>
              Merged(s)["scalars"] = handler[s].old["scalars"] /\ Merged(s)["parts"] = handler[s].old["parts"]
<1>1. handler[s].old \in Values /\ s \in 0 .. MaxSyncs /\ MaxSyncs \in Nat
  BY InventorySyncAssumption DEF HandlerTyped, Handlers, Syncs
<1>2. \A f \in Fields : handler[s].old[f] \in 0 .. MaxSyncs
  BY <1>1 DEF Values, Numbers
<1>3. \A f \in Fields : Merged(s)[f] = IF f \in SentFields(handler[s].kind) THEN s ELSE handler[s].old[f]
  BY DEF Merged
<1>4. Merged(s) \in Values
  BY <1>1, <1>2 DEF Merged, Values, Numbers
<1>5. "scalars" \in Fields /\ "parts" \in Fields
  BY DEF Fields
<1>6. Merged(s) # NoRow
  <2>1. NoRow["scalars"] = MaxSyncs + 1 /\ Merged(s)["scalars"] \in 0 .. MaxSyncs
    BY <1>4, <1>5 DEF NoRow, Values, Numbers
  <2> QED
    BY <1>1, <2>1
<1> QED
  BY <1>3, <1>4, <1>5, <1>6 DEF SentFields

\* A request that writes the only row in the end.
LEMMA WriterKeepsSettled ==
  ASSUME SettledInv, PriorIsOver, RestTyped, HandlerTyped, NEW s \in Syncs, Running(s), s <= started,
         handler[s].meta = "write",
         \A t \in Syncs \ {s} : handler'[t] = handler[t],
         handler'[s].kind = handler[s].kind, handler'[s].meta = "done",
         UNCHANGED <<started, prior, disturbed>>,
         NEW id \in Syncs, handler'[s].row = id,
         metadata' = [metadata EXCEPT ![id] = Merged(s)], RowsTyped,
         RowIds' = RowIds \cup {id}, RowsInv
  PROVE  SettledInv'
<1>1. 1 .. started \subseteq Syncs
  BY InventorySyncAssumption DEF Syncs, RestTyped
<1>2. metadata'[id] = Merged(s) /\ \A j \in Syncs \ {id} : metadata'[j] = metadata[j]
  BY DEF RowsTyped
<1> SUFFICES ASSUME NEW x \in Syncs, Settled(x)'
             PROVE  /\ metadata'[handler'[x].row]["scalars"] = x /\ metadata'[handler'[x].row]["parts"] = x
                    /\ \A t \in (x + 1) .. started : Carries(t, x)'
  BY DEF SettledInv
<1>3. CASE x = s
  <2>1. handler[s].kind = "full"
    BY <1>3 DEF Settled
  <2>2. metadata'[id]["scalars"] = s /\ metadata'[id]["parts"] = s
    BY <1>2, <2>1, MergedIsTyped
  <2>3. ASSUME NEW t \in (s + 1) .. started PROVE FALSE
    <3>1. t \in Syncs /\ t \in 1 .. started /\ t > s
      BY <1>1 DEF Syncs, RestTyped
    <3>2. t \notin prior[s] /\ s \notin prior[t]
      BY <3>1 DEF PriorIsOver, Syncs
    <3> QED
      BY <1>3, <3>1, <3>2 DEF Settled, Overlap, Syncs
  <2> QED
    BY <1>3, <2>2, <2>3
<1>4. CASE x # s
  <2>1. handler'[x] = handler[x]
    BY <1>4
  <2>2. handler[x].meta = "done" /\ x \notin disturbed /\ RowIds \cup {id} = {handler[x].row}
    BY <2>1 DEF Settled
  <2>3. RowIds = {id} /\ id = handler[x].row
    BY <2>2 DEF RowsInv
  <2>4. Settled(x)
    BY <1>1, <2>1, <2>3 DEF Settled, Overlap
  <2>5. s \in (x + 1) .. started /\ handler[s].kind = "partial"
    BY <1>4, <2>4, ActorIsLater
  <2>6. handler[s].old["scalars"] = x /\ handler[s].old["parts"] = x
    BY <2>4, <2>5 DEF SettledInv, Carries
  <2>7. metadata'[id]["scalars"] = x /\ metadata'[id]["parts"] = x
    BY <1>2, <2>5, <2>6, MergedIsTyped
  <2>8. ASSUME NEW t \in (x + 1) .. started PROVE Carries(t, x)'
    <3>1. t \in Syncs /\ Carries(t, x)
      BY <1>1, <2>4 DEF SettledInv, Syncs, RestTyped
    <3>2. CASE t = s
      BY <3>2 DEF Carries
    <3>3. CASE t # s
      BY <2>1, <3>1, <3>3 DEF Carries
    <3> QED
      BY <3>2, <3>3
  <2> QED
    BY <2>1, <2>3, <2>7, <2>8
<1> QED
  BY <1>3, <1>4

LEMMA WriteStepKeepsInv ==
  ASSUME SyncInv, NEW s \in Syncs, InsertMetadata(s) \/ UpdateMetadata(s)
  PROVE  SyncInv'
<1>0. /\ Unstarted /\ PriorIsOver /\ ListInv /\ RowsInv /\ SettledInv
      /\ HandlerTyped /\ RowsTyped /\ RestTyped
  BY TypesSplit DEF SyncInv
<1>1. /\ handler[s].meta = "write" /\ Running(s) /\ s \notin Finished
      /\ UNCHANGED <<started, list, faults, clearing, prior, disturbed>>
  BY DEF InsertMetadata, UpdateMetadata, Running, syncHistory, Finished
<1>2. inserted \in Nat /\ inserted < MaxSyncs /\ MaxSyncs \in Nat
  BY <1>0, <1>1, FinishedIsCounted, InventorySyncAssumption DEF RowsInv, RowsTyped
<1>3. PICK id \in Syncs :
        /\ metadata' = [metadata EXCEPT ![id] = Merged(s)] /\ EndMeta(s, "done", id)
        /\ \/ id = inserted + 1 /\ inserted' = inserted + 1 /\ attached' = inserted + 1
           \/ id \in RowIds /\ UNCHANGED <<inserted, attached>>
  <2>1. CASE InsertMetadata(s)
    <3>1. inserted + 1 \in Syncs
      BY <1>2 DEF Syncs
    <3>2. /\ metadata' = [metadata EXCEPT ![inserted + 1] = Merged(s)] /\ EndMeta(s, "done", inserted + 1)
          /\ inserted' = inserted + 1 /\ attached' = inserted + 1
      BY <2>1 DEF InsertMetadata
    <3> QED
      BY <3>1, <3>2
  <2>2. CASE UpdateMetadata(s)
    BY <2>2 DEF UpdateMetadata, RowIds
  <2> QED
    BY <2>1, <2>2
<1>4. /\ HandlerTyped' /\ \A t \in Syncs \ {s} : handler'[t] = handler[t]
      /\ handler'[s].kind = handler[s].kind /\ handler'[s].list = handler[s].list
      /\ handler'[s].meta = "done" /\ handler'[s].row = id
  BY <1>0, <1>2, <1>3, EndMetaFields DEF MetaStages, Syncs
<1>5. Merged(s) \in Values /\ Merged(s) # NoRow
  BY <1>0, MergedIsTyped
<1>6. RowIds' = RowIds \cup {id}
  BY <1>0, <1>3, <1>5 DEF RowIds, RowsTyped
<1>7. RowsTyped' /\ RestTyped'
  <2>1. metadata' \in [Syncs -> Values \cup {NoRow}]
    BY <1>0, <1>3, <1>5 DEF RowsTyped
  <2>2. inserted' \in 0 .. MaxSyncs /\ attached' \in 0 .. MaxSyncs
    BY <1>0, <1>2, <1>3 DEF RowsTyped
  <2> QED
    BY <1>0, <1>1, <2>1, <2>2 DEF RowsTyped, RestTyped
<1>8. Unstarted' /\ PriorIsOver' /\ s <= started
  BY <1>0, <1>1, <1>4, WorkKeepsOrder
<1>9. ListInv'
  BY <1>0, <1>1, <1>4, ListIsUntouched
<1>10. SettledInv'
  BY <1>0, <1>1, <1>3, <1>4, <1>6, <1>8, WriterKeepsSettled
<1>11. RowsInv'
  <2>1. Finished' = Finished \cup {s}
    BY <1>4 DEF Finished
  <2>2. Cardinality(Finished') = Cardinality(Finished) + 1 /\ Cardinality(Finished) \in Nat
    <3>1. s \notin Finished /\ IsFiniteSet(Finished) /\ Cardinality(Finished) \in Nat
      BY <1>1, FinishedIsCounted DEF Finished
    <3> HIDE DEF Finished
    <3>2. Cardinality(Finished \cup {s}) = Cardinality(Finished) + 1
      BY <3>1, FS_AddElement
    <3> QED
      BY <2>1, <3>1, <3>2
  <2>3. inserted' <= Cardinality(Finished')
    BY <1>0, <1>2, <1>3, <2>2 DEF RowsInv
  <2>4. RowIds' \subseteq 1 .. inserted'
    <3>1. RowIds \subseteq 1 .. inserted
      BY <1>0 DEF RowsInv
    <3>2. CASE id = inserted + 1 /\ inserted' = inserted + 1
      BY <1>2, <1>6, <3>1, <3>2
    <3>3. CASE id \in RowIds /\ inserted' = inserted
      BY <1>6, <3>1, <3>3
    <3> QED
      BY <1>3, <3>2, <3>3
  <2>5. disturbed' = {} => RowIds' = 1 .. inserted' /\ attached' = inserted'
    BY <1>0, <1>1, <1>2, <1>3, <1>6 DEF RowsInv
  <2>6. \A t \in Syncs : handler'[t].meta \in {"base", "parts", "write", "done"} /\ t \notin disturbed' =>
          handler'[t].row \in RowIds' \/ (handler'[t].meta = "write" /\ handler'[t].row = 0)
    BY <1>0, <1>1, <1>4, <1>6 DEF RowsInv
  <2>7. \A t \in Syncs : handler'[t].meta \in {"base", "parts"} => handler'[t].row \in Syncs
    BY <1>0, <1>4 DEF RowsInv
  <2> QED
    BY <2>3, <2>4, <2>5, <2>6, <2>7 DEF RowsInv
<1> QED
  BY <1>4, <1>7, <1>8, <1>9, <1>10, <1>11, TypesSplit DEF SyncInv

LEMMA FaultsAreBounded ==
  ASSUME RestTyped, Fault \/ UNCHANGED faults
  PROVE  faults' \in 0 .. MaxFaults
BY InventorySyncAssumption DEF RestTyped, Fault

\* A clear disturbs every request so far.
LEMMA ClearKeepsInv ==
  ASSUME SyncInv, ClearPdsu \/ DetachMetadata \/ DeleteMetadata
  PROVE  SyncInv'
<1>0. /\ Unstarted /\ PriorIsOver /\ ListInv /\ RowsInv /\ SettledInv
      /\ HandlerTyped /\ RowsTyped /\ RestTyped
  BY TypesSplit DEF SyncInv
<1>1. /\ started > 0 /\ disturbed' = 1 .. started /\ list' \in {list, {}}
      /\ metadata' \in {metadata, [i \in Syncs |-> NoRow]} /\ attached' \in {attached, 0}
      /\ UNCHANGED <<handler, started, inserted, prior>>
  BY <1>0 DEF ClearPdsu, DetachMetadata, DeleteMetadata, Unstarted
<1>2. faults' \in 0 .. MaxFaults /\ clearing' \in BOOLEAN
  <2>1. (Fault \/ UNCHANGED faults) /\ clearing' \in {TRUE, FALSE, clearing}
    BY DEF ClearPdsu, DetachMetadata, DeleteMetadata
  <2> QED
    BY <1>0, <2>1, FaultsAreBounded DEF RestTyped
<1>3. started \in Nat /\ started <= MaxSyncs /\ 1 .. started \subseteq Syncs /\ 1 \in 1 .. started
  BY <1>0, <1>1, InventorySyncAssumption DEF RestTyped, Syncs
<1>4. HandlerTyped' /\ RestTyped'
  BY <1>0, <1>1, <1>2, <1>3 DEF HandlerTyped, RestTyped
<1>5. RowsTyped'
  BY <1>0, <1>1, InventorySyncAssumption DEF RowsTyped
<1>6. Unstarted' /\ PriorIsOver'
  BY <1>0, <1>1, <1>3 DEF Unstarted, PriorIsOver, Running
<1>7. \A s \in Syncs : s \notin disturbed' => handler[s] = Unsent
  BY <1>0, <1>1, <1>3 DEF Unstarted, Syncs
<1>8. disturbed' # {}
  BY <1>1, <1>3
<1>9. ListInv'
  <2>1. list' \subseteq list
    BY <1>1
  <2>2. \A s \in Syncs : s \notin disturbed' => handler[s].list # "done"
    BY <1>7 DEF Unsent
  <2> QED
    BY <1>0, <1>1, <1>8, <2>1, <2>2 DEF ListInv
<1>10. RowsInv'
  <2>1. RowIds' \subseteq RowIds
    BY <1>1 DEF RowIds
  <2>2. Finished' = Finished
    BY <1>1 DEF Finished
  <2>3. \A s \in Syncs : s \notin disturbed' => handler[s].meta = "none"
    BY <1>7 DEF Unsent
  <2> QED
    BY <1>0, <1>1, <1>8, <2>1, <2>2, <2>3 DEF RowsInv
<1>11. SettledInv'
  <2>1. \A s \in Syncs : s \notin disturbed' => handler[s].meta = "none"
    BY <1>7 DEF Unsent
  <2> QED
    BY <1>1, <2>1 DEF SettledInv, Settled
<1> QED
  BY <1>4, <1>5, <1>6, <1>9, <1>10, <1>11, TypesSplit DEF SyncInv

LEMMA StopKeepsInv == ASSUME SyncInv, StopServer PROVE SyncInv'
<1>0. /\ Unstarted /\ PriorIsOver /\ ListInv /\ RowsInv /\ SettledInv
      /\ HandlerTyped /\ RowsTyped /\ RestTyped
  BY TypesSplit DEF SyncInv
<1>1. /\ UNCHANGED <<started, list, metadata, inserted, attached, prior, disturbed>> /\ clearing' = FALSE
      /\ faults' \in 0 .. MaxFaults
  BY <1>0, FaultsAreBounded DEF StopServer, tableVars, syncHistory
<1>2. \A s \in Syncs :
        handler'[s] = [handler[s] EXCEPT !.list = IF @ \in {"delete", "insert"} THEN "failed" ELSE @,
                          !.meta = IF @ \notin {"none", "done", "failed"} THEN "failed" ELSE @,
                          !.row = IF handler[s].meta = "done" THEN @ ELSE 0,
                          !.old = Nothing]
  BY DEF StopServer
<1>3. ASSUME NEW s \in Syncs
      PROVE  /\ handler'[s] \in Handlers /\ handler'[s].kind = handler[s].kind
             /\ handler'[s].list = (IF handler[s].list \in {"delete", "insert"} THEN "failed" ELSE handler[s].list)
             /\ handler'[s].meta = (IF handler[s].meta \notin {"none", "done", "failed"} THEN "failed"
                                    ELSE handler[s].meta)
             /\ handler[s].meta = "done" => handler'[s].row = handler[s].row
             /\ handler[s] = Unsent => handler'[s] = Unsent
  <2>1. Nothing \in Values
    BY InventorySyncAssumption DEF Nothing, Values, Numbers
  <2>2. handler[s] \in Handlers
    BY <1>0 DEF HandlerTyped
  <2> DEFINE atList == IF handler[s].list \in {"delete", "insert"} THEN "failed" ELSE handler[s].list
             atMeta == IF handler[s].meta \notin {"none", "done", "failed"} THEN "failed" ELSE handler[s].meta
             toRow == IF handler[s].meta = "done" THEN handler[s].row ELSE 0
  <2>3. handler'[s] = [handler[s] EXCEPT !.list = atList, !.meta = atMeta, !.row = toRow, !.old = Nothing]
    BY <1>2
  <2>4. atList \in ListStages /\ atMeta \in MetaStages /\ toRow \in 0 .. MaxSyncs
    BY <2>2, InventorySyncAssumption DEF Handlers, ListStages, MetaStages
  <2>5. handler[s] = Unsent => atList = "none" /\ atMeta = "none" /\ toRow = 0
    BY DEF Unsent
  <2>6. handler[s].meta = "done" => toRow = handler[s].row
    OBVIOUS
  <2> HIDE DEF atList, atMeta, toRow
  <2>7. /\ handler'[s] \in Handlers /\ handler'[s].kind = handler[s].kind
        /\ handler'[s].list = atList /\ handler'[s].meta = atMeta /\ handler'[s].row = toRow
    BY <2>1, <2>2, <2>3, <2>4 DEF Handlers
  <2>8. ASSUME handler[s] = Unsent PROVE handler'[s] = Unsent
    <3>1. handler'[s] = [Unsent EXCEPT !.list = "none", !.meta = "none", !.row = 0, !.old = Nothing]
      BY <2>3, <2>5, <2>8
    <3> QED
      BY <3>1 DEF Unsent
  <2> QED
    BY <2>6, <2>7, <2>8 DEF atList, atMeta
<1>4. HandlerTyped'
  <2>1. handler' = [s \in Syncs |-> handler'[s]]
    BY DEF StopServer
  <2> QED
    BY <1>3, <2>1 DEF HandlerTyped
<1>5. RowsTyped' /\ RestTyped'
  BY <1>0, <1>1 DEF RowsTyped, RestTyped
<1>6. Unstarted'
  BY <1>0, <1>1, <1>3 DEF Unstarted
<1>7. PriorIsOver'
  BY <1>0, <1>1, <1>3 DEF PriorIsOver, Running, RestTyped
<1>8. ListInv'
  BY <1>0, <1>1, <1>3 DEF ListInv, RestTyped
<1>9. RowsInv'
  <2>1. RowIds' = RowIds
    BY <1>1 DEF RowIds
  <2>2. Finished' = Finished
    BY <1>3 DEF Finished
  <2> QED
    BY <1>0, <1>1, <1>3, <2>1, <2>2 DEF RowsInv
<1>10. SettledInv'
  <2>1. 1 .. started \subseteq Syncs
    BY <1>0, InventorySyncAssumption DEF Syncs, RestTyped
  <2>2. RowIds' = RowIds
    BY <1>1 DEF RowIds
  <2>3. ASSUME NEW s \in Syncs, Settled(s)' PROVE Settled(s) /\ handler'[s].row = handler[s].row
    <3>1. handler[s].meta = "done" /\ handler[s].kind = "full" /\ handler'[s].row = handler[s].row
      BY <1>3, <2>3 DEF Settled
    <3> QED
      BY <1>1, <1>3, <2>1, <2>2, <2>3, <3>1 DEF Settled, Overlap
  <2>4. \A t, s \in Syncs : Carries(t, s)'
    BY <1>3 DEF Carries
  <2>5. \A s \in Syncs : \A t \in (s + 1) .. started : t \in Syncs
    BY <2>1 DEF Syncs
  <2> QED
    BY <1>0, <1>1, <2>3, <2>4, <2>5 DEF SettledInv
<1> QED
  BY <1>4, <1>5, <1>6, <1>7, <1>8, <1>9, <1>10, TypesSplit DEF SyncInv

LEMMA IdleKeepsInv == ASSUME SyncInv, DeleteFails \/ UNCHANGED syncVars PROVE SyncInv'
<1>0. /\ Unstarted /\ PriorIsOver /\ ListInv /\ RowsInv /\ SettledInv
      /\ HandlerTyped /\ RowsTyped /\ RestTyped
  BY TypesSplit DEF SyncInv
<1>1. /\ UNCHANGED <<handler, started, list, metadata, inserted, attached, prior, disturbed>>
      /\ faults' \in 0 .. MaxFaults /\ (clearing' => clearing) /\ clearing' \in BOOLEAN
  <2>1. (Fault \/ UNCHANGED faults) /\ (clearing' = FALSE \/ clearing' = clearing)
        /\ UNCHANGED <<handler, started, list, metadata, inserted, attached, prior, disturbed>>
    BY DEF DeleteFails, syncVars, tableVars, syncHistory
  <2>2. clearing' \in BOOLEAN /\ (clearing' => clearing)
    <3>1. clearing \in BOOLEAN
      BY <1>0 DEF RestTyped
    <3>2. CASE clearing' = FALSE
      BY <3>2
    <3>3. CASE clearing' = clearing
      BY <3>1, <3>3
    <3> QED
      BY <2>1, <3>2, <3>3
  <2> QED
    BY <1>0, <2>1, <2>2, FaultsAreBounded
<1>2. HandlerTyped' /\ RowsTyped' /\ RestTyped'
  BY <1>0, <1>1 DEF HandlerTyped, RowsTyped, RestTyped
<1>3. Unstarted' /\ PriorIsOver'
  <2>1. Unstarted'
    BY <1>0, <1>1 DEF Unstarted
  <2>2. PriorIsOver'
    BY <1>0, <1>1 DEF PriorIsOver, Running
  <2> QED
    BY <2>1, <2>2
<1>4. ListInv'
  BY <1>0, <1>1, ListIsUntouched
<1>5. RowsInv' /\ SettledInv'
  BY <1>0, <1>1, MetadataIsUntouched
<1> QED
  BY <1>2, <1>3, <1>4, <1>5, TypesSplit DEF SyncInv

LEMMA SyncInvNext == SyncInv /\ [SyncNext]_syncVars => SyncInv'
<1> SUFFICES ASSUME SyncInv, [SyncNext]_syncVars PROVE SyncInv'
  OBVIOUS
<1>1. ASSUME NEW kind \in Kinds, StartSync(kind) PROVE SyncInv'
  BY <1>1, StartKeepsInv
<1>2. ASSUME ListNext PROVE SyncInv'
  BY <1>2, ListStepKeepsInv DEF ListNext
<1>3. ASSUME PatchNext \/ \E s \in Syncs : ReadMetadataId(s) \/ UpdateMisses(s) \/ MetadataFails(s) PROVE SyncInv'
  BY <1>3, ReadStepKeepsInv DEF PatchNext
<1>4. ASSUME \E s \in Syncs : InsertMetadata(s) \/ UpdateMetadata(s) PROVE SyncInv'
  BY <1>4, WriteStepKeepsInv
<1>5. ASSUME ClearNext PROVE SyncInv'
  BY <1>5, ClearKeepsInv, IdleKeepsInv DEF ClearNext
<1>6. ASSUME StopServer PROVE SyncInv'
  BY <1>6, StopKeepsInv
<1>7. ASSUME UNCHANGED syncVars PROVE SyncInv'
  BY <1>7, IdleKeepsInv
<1> QED
  BY <1>1, <1>2, <1>3, <1>4, <1>5, <1>6, <1>7 DEF SyncNext, UpsertNext

LEMMA SyncInitInv == SyncInit => SyncInv
<1> SUFFICES ASSUME SyncInit PROVE SyncInv
  OBVIOUS
<1> USE InventorySyncAssumption
<1>1. /\ started = 0 /\ list = {} /\ inserted = 0 /\ attached = 0 /\ faults = 0 /\ clearing = FALSE
      /\ disturbed = {} /\ handler = [s \in Syncs |-> Unsent] /\ metadata = [i \in Syncs |-> NoRow]
      /\ prior = [s \in Syncs |-> {}]
  BY DEF SyncInit
<1>2. Unsent \in Handlers
  BY DEF Unsent, Handlers, Kinds, ListStages, MetaStages, Nothing, Values, Numbers
<1>3. HandlerTyped /\ RowsTyped /\ RestTyped
  <2>1. HandlerTyped
    BY <1>1, <1>2 DEF HandlerTyped
  <2>2. RowsTyped
    BY <1>1 DEF RowsTyped
  <2>3. RestTyped
    <3>1. clearing \in BOOLEAN /\ disturbed \subseteq Syncs /\ list \subseteq Syncs
      BY <1>1
    <3>2. prior \in [Syncs -> SUBSET Syncs]
      BY <1>1
    <3> QED
      BY <1>1, <3>1, <3>2 DEF RestTyped
  <2> QED
    BY <2>1, <2>2, <2>3
<1>4. \A s \in Syncs : handler[s].kind = "partial" /\ handler[s].list = "none" /\ handler[s].meta = "none"
  BY <1>1 DEF Unsent
<1>5. Unstarted /\ PriorIsOver
  BY <1>1, <1>4 DEF Unstarted, PriorIsOver
<1>6. ListInv
  BY <1>1, <1>4 DEF ListInv
<1>7. RowsInv
  <2>1. RowIds = {} /\ Finished = {}
    BY <1>1, <1>4 DEF RowIds, Finished
  <2>2. 1 .. 0 = {}
    OBVIOUS
  <2> QED
    BY <1>1, <1>4, <2>1, <2>2, FS_EmptySet DEF RowsInv
<1>8. SettledInv
  BY <1>4 DEF SettledInv, Settled
<1> QED
  BY <1>3, <1>5, <1>6, <1>7, <1>8, TypesSplit DEF SyncInv

\* What the database has of a computer is what its agent reported last: the newest complete
\* inventory is stored whole until it is replaced or cleared, and a list is never older than a request
\* that replaced it (syncInventoryService, patchMetadataForIpEntry).
THEOREM ReportedIsStored == SyncSpec => []StoredIsReported
<1>1. SyncInv => LatestInventoryIsStored
  <2> SUFFICES ASSUME SyncInv, NEW s \in Syncs, IsLatest(s)
               PROVE  /\ list = {s}
                      /\ \A id \in RowIds : RowIds = {id} =>
                           metadata[id].scalars = s /\ metadata[id].parts = s /\ (attached = id \/ disturbed # {})
    BY DEF LatestInventoryIsStored
  <2>0. /\ Unstarted /\ PriorIsOver /\ ListInv /\ RowsInv /\ SettledInv
        /\ HandlerTyped /\ RowsTyped /\ RestTyped
    BY TypesSplit DEF SyncInv
  <2>1. 1 .. started \subseteq Syncs /\ s \in Nat /\ started \in Nat
    BY <2>0, InventorySyncAssumption DEF Syncs, RestTyped
  <2>2. s <= started
    <3>1. handler[s] # Unsent
      BY DEF IsLatest, Unsent
    <3> QED
      BY <2>0, <2>1, <3>1 DEF Unstarted
  <2>3. s \in list
    <3>1. SUFFICES ASSUME s \notin list PROVE FALSE
      OBVIOUS
    <3>2. PICK t \in Syncs : t # s /\ t <= started /\ t \notin prior[s] /\ handler[t].kind = "full"
      BY <2>0, <3>1 DEF ListInv, IsLatest
    <3>3. s \in prior[t] /\ t \in 1 .. started
      BY <3>2 DEF IsLatest, Overlap, Syncs
    <3>4. t > s
      BY <2>0, <3>3 DEF PriorIsOver
    <3> QED
      BY <3>2, <3>3, <3>4 DEF IsLatest
  <2>4. ASSUME NEW t \in list, t # s PROVE FALSE
    <3>1. t \in Syncs /\ handler[t].list = "done" /\ handler[t].kind = "full" /\ t \in Nat
      BY <2>0, <2>4 DEF ListInv, RestTyped, Unstarted, Syncs
    <3>2. handler[t] # Unsent
      BY <3>1 DEF Unsent
    <3>3. t \in 1 .. started
      BY <2>0, <2>1, <3>1, <3>2 DEF Unstarted, Syncs
    <3>4. ~(t > s) /\ (s \in prior[t] \/ t \in prior[s])
      BY <2>4, <3>1, <3>3 DEF IsLatest, Overlap
    <3>5. t \in prior[s]
      BY <2>0, <3>1, <3>4 DEF PriorIsOver
    <3> QED
      BY <2>0, <2>4, <3>5 DEF ListInv, IsLatest
  <2>5. ASSUME NEW id \in RowIds, RowIds = {id}
        PROVE  metadata[id].scalars = s /\ metadata[id].parts = s /\ (attached = id \/ disturbed # {})
    <3>1. handler[s].row = id
      BY <2>0, <2>5 DEF RowsInv, IsLatest
    <3>2. Settled(s)
      BY <2>5, <3>1 DEF Settled, IsLatest
    <3>3. metadata[id]["scalars"] = s /\ metadata[id]["parts"] = s
      BY <2>0, <3>1, <3>2 DEF SettledInv
    <3>4. disturbed = {} => attached = id
      <4>1. SUFFICES ASSUME disturbed = {} PROVE attached = id
        OBVIOUS
      <4>2. 1 .. inserted = {id} /\ attached = inserted /\ inserted \in Nat
        BY <2>0, <2>5, <4>1 DEF RowsInv, RowsTyped
      <4>3. inserted \in 1 .. inserted
        BY <4>2
      <4> QED
        BY <4>2, <4>3
    <3> QED
      BY <3>3, <3>4
  <2> QED
    BY <2>3, <2>4, <2>5
<1>2. SyncInv => ListIsCurrent
  <2> SUFFICES ASSUME SyncInv PROVE ListIsCurrent
    OBVIOUS
  <2>1. ListInv
    BY DEF SyncInv
  <2>2. \A t \in {s \in Syncs : handler[s].list = "done"} : prior[t] \cap list = {}
    BY <2>1 DEF ListInv
  <2>3. /\ {s \in Syncs : handler[s].list = "done"} # {} /\ disturbed = {}
        /\ \A s \in Syncs : handler[s].kind = "full" => s \in {t \in Syncs : handler[t].list = "done"}
        => list # {}
    BY <2>1 DEF ListInv
  <2> QED
    BY <2>2, <2>3 DEF ListIsCurrent
<1> QED
  BY <1>1, <1>2, SyncInitInv, SyncInvNext, PTL DEF SyncSpec, StoredIsReported

-----------------------------------------------------------------------------
(* Which row belongs to which computer.                                    *)

ReportBusy(r) == reports[r].at \notin Over
ManagerBusy(m) == managers[m].at \in {"find", "insert", "link"}

\* Who is who: states, rows and requests name the computer they belong to, and what holds an address
\* is on record.
Known ==
  /\ \A h \in Hosts : address[h] # NoIp => h \in holders[address[h]]
  /\ \A h \in Hosts : agentOf[h] # 0 => agents[agentOf[h]].host = h
  /\ \A h \in Hosts : managerOf[h] # 0 => managers[managerOf[h]].host = h /\ managers[managerOf[h]].at = "done"
  /\ \A r \in Reports : reports[r] # NoReport =>
       agents[reports[r].agent] # NoAgent /\ HostOf(r) \in holders[reports[r].ip]
  /\ \A m \in ManagerIds : managers[m] # NoManager => managers[m].host \in holders[managers[m].ip]
  /\ \A r \in Reports : reports[r].at \in {"update", "link", "done"} => reports[r].entry \in Entries
  /\ \A m \in ManagerIds : managers[m].at \in {"link", "reply", "done"} => managers[m].entry \in Entries

\* Requests come in order, and those of one computer that are under way at once are noticed.
RacesAreNoticed ==
  /\ \A q, r \in Reports : q < r /\ reports[r] # NoReport => reports[q] # NoReport
  /\ \A q, r \in Reports : q < r /\ reports[r] # NoReport /\ ReportBusy(q) /\ HostOf(q) = HostOf(r)
                             => HostOf(r) \in raced
  /\ \A r \in Reports, m \in ManagerIds :
       ReportBusy(r) /\ ManagerBusy(m) /\ HostOf(r) = managers[m].host => HostOf(r) \in raced
  /\ \A m, n \in ManagerIds :
       m # n /\ ManagerBusy(m) /\ ManagerBusy(n) /\ managers[m].host = managers[n].host => managers[m].host \in raced

\* Only a request of an agent without a row looks for one.
LinkInv ==
  \A r \in Reports : reports[r] # NoReport /\ HostOf(r) \notin raced =>
    /\ reports[r].at \in {"find", "insert", "link"} => agents[reports[r].agent].entry = 0
    /\ reports[r].at \in {"update", "done"} => agents[reports[r].agent].entry = reports[r].entry

\* Between the lookup and the link, and after it, the row has the address of the request.
Newest(r) ==
  /\ \A q \in Reports : q > r /\ reports[q].at = "done" => HostOf(q) # HostOf(r)
  /\ \A q \in Reports : reports[q].at = "done" /\ reports[q].entry = reports[r].entry => HostOf(q) = HostOf(r)
AddressInv ==
  \A r \in Reports : reports[r].at \in {"link", "done"} /\ HostOf(r) \notin raced /\ Newest(r) =>
    entryIp[reports[r].entry] = reports[r].ip

\* A computer claims a row that its agent or Manager is linked to, or that a request of it has found.
Claims(h, e) ==
  \/ \E a \in AgentIds : agents[a].host = h /\ agents[a].entry = e
  \/ \E r \in Reports : reports[r].at \in {"update", "link"} /\ reports[r].entry = e /\ HostOf(r) = h
  \/ \E m \in ManagerIds : managers[m].at \in {"link", "reply", "done"} /\ managers[m].entry = e /\ managers[m].host = h

\* No address has been two computers'.
Single == \A ip \in Ips : \A h, k \in holders[ip] : h = k
\* No other address has been the computer's, and this one no other computer's.
Stays(h, ip) == holders[ip] \subseteq {h} /\ \A other \in Ips \ {ip} : h \notin holders[other]

\* A row that is claimed has an address.  It is the claimant's own as long as addresses stay, and for
\* a computer that has only had one address, its rows are the rows with it.
ClaimInv ==
  /\ \A h \in Hosts, e \in Entries : Claims(h, e) => entryIp[e] # NoIp
  /\ Single => \A h \in Hosts, e \in Entries : Claims(h, e) => h \in holders[entryIp[e]]
  /\ \A h \in Hosts, ip \in Ips : Stays(h, ip) =>
       \A k \in Hosts, e \in Entries : Claims(k, e) => (k = h <=> entryIp[e] = ip)

\* There is one such row, and none while a request of the computer is about to insert it.
OneRowInv ==
  \A h \in Hosts \ raced, ip \in Ips : Stays(h, ip) =>
    /\ \A d, e \in Rows(ip) : d = e
    /\ \A r \in Reports : reports[r].at = "insert" /\ HostOf(r) = h => Rows(ip) = {}
    /\ \A m \in ManagerIds : managers[m].at = "insert" /\ managers[m].host = h => Rows(ip) = {}

IdentityInv ==
  /\ IdentityTypeOK
  /\ Known
  /\ RacesAreNoticed
  /\ LinkInv
  /\ AddressInv
  /\ ClaimInv
  /\ OneRowInv

-----------------------------------------------------------------------------
(* What steps do to the requests.                                          *)

ReportStages == {"update", "find", "insert", "link"} \cup Over
ManagerStages == {"find", "insert", "link", "reply"} \cup Over
AgentRows == [host : Hosts, entry : 0 .. MaxEntries]
ManagerRows == [host : Hosts, entry : 0 .. MaxEntries, ip : Ips, at : ManagerStages]
ReportRows == [agent : AgentIds, ip : Ips, entry : 0 .. MaxEntries, at : ReportStages]

WorldTyped == /\ address \in [Hosts -> Ips \cup {NoIp}] /\ moves \in 0 .. MaxMoves
              /\ holders \in [Ips -> SUBSET Hosts] /\ raced \subseteq Hosts
EntriesTyped == entryIp \in [Entries -> Ips \cup {NoIp}]
AgentsTyped == agents \in [AgentIds -> AgentRows \cup {NoAgent}] /\ agentOf \in [Hosts -> 0 .. MaxAgents]
ManagersTyped ==
  managers \in [ManagerIds -> ManagerRows \cup {NoManager}] /\ managerOf \in [Hosts -> 0 .. MaxManagers]
ReportsTyped == reports \in [Reports -> ReportRows \cup {NoReport}]

LEMMA IdentityTypes ==
  /\ IdentityTypeOK <=> WorldTyped /\ EntriesTyped /\ AgentsTyped /\ ManagersTyped /\ ReportsTyped
  /\ IdentityTypeOK' <=> WorldTyped' /\ EntriesTyped' /\ AgentsTyped' /\ ManagersTyped' /\ ReportsTyped'
BY DEF IdentityTypeOK, WorldTyped, EntriesTyped, AgentsTyped, ManagersTyped, ReportsTyped,
  AgentRows, ManagerRows, ReportRows, ManagerStages, ReportStages

\* A row of a request is not the absent one.
LEMMA RowsArePresent ==
  /\ \A a \in AgentRows : a # NoAgent
  /\ \A m \in ManagerRows : m # NoManager
  /\ \A r \in ReportRows : r # NoReport
<1>1. \A a \in AgentRows : a # NoAgent
  BY IdentityAssumption DEF AgentRows, NoAgent
<1>2. \A m \in ManagerRows : m # NoManager
  BY IdentityAssumption DEF ManagerRows, NoManager
<1>3. \A r \in ReportRows : r # NoReport
  BY IdentityAssumption DEF ReportRows, NoReport
<1> QED
  BY <1>1, <1>2, <1>3

LEMMA BusyIsPresent ==
  ASSUME ReportsTyped, ManagersTyped
  PROVE  /\ \A r \in Reports : reports[r].at # "none" => reports[r] # NoReport
         /\ \A r \in Reports : ReportBusy(r) => reports[r] # NoReport
         /\ \A m \in ManagerIds : managers[m].at # "none" => managers[m] # NoManager
         /\ \A m \in ManagerIds : ManagerBusy(m) => managers[m] # NoManager
BY DEF NoReport, NoManager, ReportBusy, ManagerBusy, Over

\* A request goes on to another stage, with the row it has or has found.
ReportAt(r, at, e) == [agent |-> reports[r].agent, ip |-> reports[r].ip, entry |-> e, at |-> at]
ManagerAt(m, at, e) == [host |-> managers[m].host, entry |-> e, ip |-> managers[m].ip, at |-> at]

LEMMA ReportGoesOn ==
  ASSUME ReportsTyped, NEW r \in Reports, reports[r] # NoReport, NEW at \in ReportStages,
         NEW e \in 0 .. MaxEntries,
         \/ reports' = [reports EXCEPT ![r].at = at, ![r].entry = e]
         \/ reports' = [reports EXCEPT ![r].at = at] /\ e = reports[r].entry
  PROVE  /\ ReportsTyped' /\ reports'[r] # NoReport
         /\ reports'[r].agent = reports[r].agent /\ reports'[r].ip = reports[r].ip
         /\ reports'[r].entry = e /\ reports'[r].at = at
         /\ \A q \in Reports \ {r} : reports'[q] = reports[q]
<1>1. reports[r] \in ReportRows
  BY DEF ReportsTyped
<1> DEFINE new == ReportAt(r, at, e)
<1>2. new \in ReportRows
  BY <1>1 DEF ReportRows, ReportAt
<1>3. /\ new.agent = reports[r].agent /\ new.ip = reports[r].ip /\ new.entry = e /\ new.at = at
  BY DEF ReportAt
<1>4. reports' = [reports EXCEPT ![r] = new]
  BY <1>1 DEF ReportAt, ReportRows, ReportsTyped
<1> HIDE DEF new
<1> QED
  BY <1>2, <1>3, <1>4, RowsArePresent DEF ReportsTyped

LEMMA ManagerGoesOn ==
  ASSUME ManagersTyped, NEW m \in ManagerIds, managers[m] # NoManager, NEW at \in ManagerStages,
         NEW e \in 0 .. MaxEntries,
         \/ managers' = [managers EXCEPT ![m].at = at, ![m].entry = e]
         \/ managers' = [managers EXCEPT ![m].at = at] /\ e = managers[m].entry
  PROVE  /\ managers' \in [ManagerIds -> ManagerRows \cup {NoManager}] /\ managers'[m] # NoManager
         /\ managers'[m].host = managers[m].host /\ managers'[m].ip = managers[m].ip
         /\ managers'[m].entry = e /\ managers'[m].at = at
         /\ \A n \in ManagerIds \ {m} : managers'[n] = managers[n]
<1>1. managers[m] \in ManagerRows
  BY DEF ManagersTyped
<1> DEFINE new == ManagerAt(m, at, e)
<1>2. new \in ManagerRows
  BY <1>1 DEF ManagerRows, ManagerAt
<1>3. /\ new.host = managers[m].host /\ new.ip = managers[m].ip /\ new.entry = e /\ new.at = at
  BY DEF ManagerAt
<1>4. managers' = [managers EXCEPT ![m] = new]
  BY <1>1 DEF ManagerAt, ManagerRows, ManagersTyped
<1> HIDE DEF new
<1> QED
  BY <1>2, <1>3, <1>4, RowsArePresent DEF ManagersTyped

\* What most steps leave: the requests there are and their computers, and no more of them under way.
Frame ==
  /\ \A q \in Reports :
       /\ reports'[q] # NoReport <=> reports[q] # NoReport
       /\ reports[q] # NoReport => /\ HostOf(q)' = HostOf(q) /\ reports'[q].ip = reports[q].ip
                                   /\ reports'[q].agent = reports[q].agent
       /\ ReportBusy(q)' => ReportBusy(q)
  /\ \A m \in ManagerIds :
       /\ managers'[m] # NoManager <=> managers[m] # NoManager
       /\ managers[m] # NoManager => managers'[m].host = managers[m].host /\ managers'[m].ip = managers[m].ip
       /\ ManagerBusy(m)' => ManagerBusy(m)
  /\ raced' = raced

LEMMA FrameKeepsRaces ==
  ASSUME ReportsTyped, ManagersTyped, RacesAreNoticed, Frame
  PROVE  RacesAreNoticed'
<1>1. \A q, r \in Reports : q < r /\ reports'[r] # NoReport => reports'[q] # NoReport
  BY DEF Frame, RacesAreNoticed
<1>2. \A q, r \in Reports : q < r /\ reports'[r] # NoReport /\ ReportBusy(q)' /\ HostOf(q)' = HostOf(r)'
                              => HostOf(r)' \in raced'
  BY BusyIsPresent DEF Frame, RacesAreNoticed
<1>3. \A r \in Reports, m \in ManagerIds :
        ReportBusy(r)' /\ ManagerBusy(m)' /\ HostOf(r)' = managers'[m].host => HostOf(r)' \in raced'
  BY BusyIsPresent DEF Frame, RacesAreNoticed
<1>4. \A m, n \in ManagerIds :
        m # n /\ ManagerBusy(m)' /\ ManagerBusy(n)' /\ managers'[m].host = managers'[n].host
        => managers'[m].host \in raced'
  BY BusyIsPresent DEF Frame, RacesAreNoticed
<1> QED
  BY <1>1, <1>2, <1>3, <1>4 DEF RacesAreNoticed

-----------------------------------------------------------------------------
(* What steps do to the rows of ip_entries, and whose they are.            *)

LEMMA ConditionsWereTrue ==
  ASSUME \A ip \in Ips : holders[ip] \subseteq holders'[ip]
  PROVE  /\ Single' => Single
         /\ \A h \in Hosts, ip \in Ips : Stays(h, ip)' => Stays(h, ip)
<1>1. Single' => Single
  BY DEF Single
<1>2. \A h \in Hosts, ip \in Ips : Stays(h, ip)' => Stays(h, ip)
  BY DEF Stays
<1> QED
  BY <1>1, <1>2

LEMMA ClaimsAreKept ==
  ASSUME ClaimInv, EntriesTyped,
         \A h \in Hosts, e \in Entries : Claims(h, e)' => Claims(h, e),
         entryIp' = entryIp,
         \A ip \in Ips : holders[ip] \subseteq holders'[ip]
  PROVE  ClaimInv'
<1>1. \A h \in Hosts, e \in Entries : Claims(h, e)' => entryIp'[e] # NoIp
  BY DEF ClaimInv
<1>2. Single' => \A h \in Hosts, e \in Entries : Claims(h, e)' => h \in holders'[entryIp'[e]]
  <2> SUFFICES ASSUME Single', NEW h \in Hosts, NEW e \in Entries, Claims(h, e)'
               PROVE  h \in holders'[entryIp[e]]
    OBVIOUS
  <2>1. h \in holders[entryIp[e]] /\ entryIp[e] # NoIp
    BY ConditionsWereTrue DEF ClaimInv
  <2>2. entryIp[e] \in Ips
    BY <2>1 DEF EntriesTyped
  <2> QED
    BY <2>1, <2>2
<1>3. \A h \in Hosts, ip \in Ips : Stays(h, ip)' =>
        \A k \in Hosts, e \in Entries : Claims(k, e)' => (k = h <=> entryIp'[e] = ip)
  BY ConditionsWereTrue DEF ClaimInv
<1> QED
  BY <1>1, <1>2, <1>3 DEF ClaimInv

\* A request of k has found the row e0 under its address.
LEMMA FoundRowIsClaimed ==
  ASSUME ClaimInv, NEW k \in Hosts, NEW e0 \in Entries, NEW ip0 \in Ips,
         entryIp[e0] = ip0, k \in holders[ip0],
         \A h \in Hosts, e \in Entries : Claims(h, e)' => Claims(h, e) \/ (h = k /\ e = e0),
         entryIp' = entryIp, holders' = holders
  PROVE  ClaimInv'
<1>0. Single' = Single /\ \A h \in Hosts, ip \in Ips : Stays(h, ip)' => Stays(h, ip)
  BY DEF Single, Stays
<1>1. \A h \in Hosts, e \in Entries : Claims(h, e)' => entryIp'[e] # NoIp
  BY IdentityAssumption DEF ClaimInv
<1>2. Single' => \A h \in Hosts, e \in Entries : Claims(h, e)' => h \in holders'[entryIp'[e]]
  BY <1>0 DEF ClaimInv
<1>3. ASSUME NEW h \in Hosts, NEW ip \in Ips, Stays(h, ip)', NEW x \in Hosts, NEW e \in Entries, Claims(x, e)'
      PROVE  x = h <=> entryIp'[e] = ip
  <2>1. Stays(h, ip)
    BY <1>0, <1>3
  <2>2. CASE Claims(x, e)
    BY <1>3, <2>1, <2>2 DEF ClaimInv
  <2>3. CASE x = k /\ e = e0
    BY <2>1, <2>3 DEF Stays
  <2> QED
    BY <1>3, <2>2, <2>3
<1> QED
  BY <1>1, <1>2, <1>3 DEF ClaimInv

\* A request of k writes its address into a row that is its own, or new.
LEMMA WrittenRowIsClaimed ==
  ASSUME ClaimInv, EntriesTyped, NEW k \in Hosts, NEW e0 \in Entries, NEW ip0 \in Ips,
         k \in holders[ip0], Claims(k, e0) \/ entryIp[e0] = NoIp,
         \A h \in Hosts, e \in Entries : Claims(h, e)' => Claims(h, e) \/ (h = k /\ e = e0),
         entryIp' = [entryIp EXCEPT ![e0] = ip0], holders' = holders
  PROVE  ClaimInv'
<1>0. Single' = Single /\ \A h \in Hosts, ip \in Ips : Stays(h, ip)' => Stays(h, ip)
  BY DEF Single, Stays
<1>e. entryIp'[e0] = ip0 /\ \A e \in Entries \ {e0} : entryIp'[e] = entryIp[e]
  BY DEF EntriesTyped
<1>1. \A h \in Hosts, e \in Entries : Claims(h, e)' => entryIp'[e] # NoIp
  BY <1>e, IdentityAssumption DEF ClaimInv
<1>2. ASSUME Single', NEW h \in Hosts, NEW e \in Entries, Claims(h, e)' PROVE h \in holders'[entryIp'[e]]
  <2>1. CASE e # e0
    BY <1>0, <1>2, <1>e, <2>1 DEF ClaimInv
  <2>2. CASE e = e0 /\ h = k
    BY <1>e, <2>2
  <2>3. CASE e = e0 /\ h # k
    <3>1. Claims(h, e0) /\ entryIp[e0] # NoIp /\ Claims(k, e0)
      BY <1>2, <2>3 DEF ClaimInv
    <3>2. h \in holders[entryIp[e0]] /\ k \in holders[entryIp[e0]] /\ entryIp[e0] \in Ips
      BY <1>0, <1>2, <3>1 DEF ClaimInv, EntriesTyped
    <3> QED
      BY <1>0, <1>2, <2>3, <3>2 DEF Single
  <2> QED
    BY <2>1, <2>2, <2>3
<1>3. ASSUME NEW h \in Hosts, NEW ip \in Ips, Stays(h, ip)', NEW x \in Hosts, NEW e \in Entries, Claims(x, e)'
      PROVE  x = h <=> entryIp'[e] = ip
  <2>1. Stays(h, ip)
    BY <1>0, <1>3
  <2>2. CASE e # e0
    BY <1>3, <1>e, <2>1, <2>2 DEF ClaimInv
  <2>3. CASE e = e0
    <3>1. k = h <=> ip0 = ip
      BY <2>1 DEF Stays
    <3>2. CASE x = k
      BY <1>e, <2>3, <3>1, <3>2
    <3>3. CASE x # k
      <4>1. Claims(x, e0) /\ Claims(k, e0)
        BY <1>3, <2>3, <3>3 DEF ClaimInv
      <4> QED
        BY <1>e, <2>1, <2>3, <3>1, <3>3, <4>1 DEF ClaimInv
    <3> QED
      BY <3>2, <3>3
  <2> QED
    BY <2>2, <2>3
<1> QED
  BY <1>1, <1>2, <1>3 DEF ClaimInv

Inserting(h) ==
  \/ \E r \in Reports : reports[r].at = "insert" /\ HostOf(r) = h
  \/ \E m \in ManagerIds : managers[m].at = "insert" /\ managers[m].host = h

\* The same in fewer quantifiers.
LEMMA OneRow ==
  /\ OneRowInv <=> \A h \in Hosts \ raced, ip \in Ips : Stays(h, ip) =>
       (\A d, e \in Rows(ip) : d = e) /\ (Inserting(h) => Rows(ip) = {})
  /\ OneRowInv' <=> \A h \in Hosts \ raced', ip \in Ips : Stays(h, ip)' =>
       (\A d, e \in Rows(ip)' : d = e) /\ (Inserting(h)' => Rows(ip)' = {})
BY DEF OneRowInv, Inserting

LEMMA OneRowIsKept ==
  ASSUME OneRowInv, \A h \in Hosts : Inserting(h)' => Inserting(h),
         entryIp' = entryIp, raced \subseteq raced',
         \A ip \in Ips : holders[ip] \subseteq holders'[ip]
  PROVE  OneRowInv'
<1>1. \A ip \in Ips : Rows(ip)' = Rows(ip)
  BY DEF Rows
<1> QED
  BY <1>1, ConditionsWereTrue, OneRow

\* A request of k looked for the address in vain.
LEMMA NothingWasFound ==
  ASSUME OneRowInv, NEW k \in Hosts, NEW ip0 \in Ips, k \in holders[ip0], Rows(ip0) = {},
         \A h \in Hosts : Inserting(h)' => Inserting(h) \/ h = k,
         UNCHANGED <<entryIp, raced, holders>>
  PROVE  OneRowInv'
<1>1. \A ip \in Ips : Rows(ip)' = Rows(ip)
  BY DEF Rows
<1>2. ASSUME NEW h \in Hosts \ raced', NEW ip \in Ips, Stays(h, ip)'
      PROVE  (\A d, e \in Rows(ip) : d = e) /\ (Inserting(h)' => Rows(ip) = {})
  <2>1. Stays(h, ip) /\ h \in Hosts \ raced
    BY <1>2 DEF Stays
  <2>2. h = k => ip = ip0
    BY <2>1 DEF Stays
  <2> QED
    BY <2>1, <2>2, OneRow
<1> QED
  BY <1>1, <1>2, OneRow

LEMMA UpdateKeepsOneRow ==
  ASSUME OneRowInv, ClaimInv, EntriesTyped, NEW k \in Hosts, NEW e0 \in Entries, NEW ip0 \in Ips,
         k \in holders[ip0], Claims(k, e0),
         \A h \in Hosts : Inserting(h)' => Inserting(h),
         entryIp' = [entryIp EXCEPT ![e0] = ip0], UNCHANGED <<raced, holders>>
  PROVE  OneRowInv'
<1>1. ASSUME NEW h \in Hosts \ raced', NEW ip \in Ips, Stays(h, ip)'
      PROVE  (\A d, e \in Rows(ip)' : d = e) /\ (Inserting(h)' => Rows(ip)' = {})
  <2>1. Stays(h, ip) /\ h \in Hosts \ raced
    BY <1>1 DEF Stays
  <2>2. Rows(ip)' \subseteq Rows(ip)
    <3>1. ip0 = ip => k = h /\ entryIp[e0] = ip
      BY <2>1 DEF Stays, ClaimInv
    <3> QED
      BY <3>1 DEF Rows, EntriesTyped
  <2> QED
    BY <2>1, <2>2, OneRow
<1> QED
  BY <1>1, OneRow

LEMMA InsertKeepsOneRow ==
  ASSUME OneRowInv, EntriesTyped, NEW k \in Hosts, NEW e0 \in Entries, NEW ip0 \in Ips,
         k \in holders[ip0], entryIp[e0] = NoIp, Inserting(k),
         \A h \in Hosts : Inserting(h)' => Inserting(h),
         Inserting(k)' => k \in raced,
         entryIp' = [entryIp EXCEPT ![e0] = ip0], UNCHANGED <<raced, holders>>
  PROVE  OneRowInv'
<1>1. ASSUME NEW h \in Hosts \ raced', NEW ip \in Ips, Stays(h, ip)'
      PROVE  (\A d, e \in Rows(ip)' : d = e) /\ (Inserting(h)' => Rows(ip)' = {})
  <2>1. Stays(h, ip) /\ h \in Hosts \ raced
    BY <1>1 DEF Stays
  <2>2. CASE ip0 = ip
    <3>1. k = h
      BY <2>1, <2>2 DEF Stays
    <3>2. Rows(ip) = {}
      BY <2>1, <3>1, OneRow
    <3>3. Rows(ip)' \subseteq {e0}
      BY <2>2, <3>2 DEF Rows, EntriesTyped
    <3> QED
      BY <2>1, <3>1, <3>3
  <2>3. CASE ip0 # ip
    <3>1. Rows(ip)' \subseteq Rows(ip)
      BY <2>3 DEF Rows, EntriesTyped
    <3> QED
      BY <2>1, <3>1, OneRow
  <2> QED
    BY <2>2, <2>3
<1> QED
  BY <1>1, OneRow

-----------------------------------------------------------------------------
(* The requests of the agent.                                              *)

\* What the others need of a step with which a request comes to the stage "at" and the entry e.
ReportMoved(r, at, e) ==
  /\ WorldTyped' /\ ManagersTyped' /\ ReportsTyped' /\ Known' /\ RacesAreNoticed'
  /\ reports[r] # NoReport /\ reports'[r] # NoReport
  /\ reports'[r].agent = reports[r].agent /\ reports'[r].ip = reports[r].ip
  /\ reports'[r].entry = e /\ reports'[r].at = at
  /\ \A q \in Reports \ {r} : reports'[q] = reports[q]
  /\ \A q \in Reports : reports[q] # NoReport => HostOf(q)' = HostOf(q)
  /\ reports[r].agent \in AgentIds /\ reports[r].ip \in Ips
  /\ HostOf(r) \in Hosts /\ HostOf(r) \in holders[reports[r].ip]

\* What every step of a request that is under way leaves true.
LEMMA ReportStep ==
  ASSUME IdentityInv, NEW r \in Reports, ReportBusy(r), NEW at \in ReportStages \ {"none"}, NEW e \in 0 .. MaxEntries,
         \/ reports' = [reports EXCEPT ![r].at = at, ![r].entry = e]
         \/ reports' = [reports EXCEPT ![r].at = at] /\ e = reports[r].entry,
         at \in {"update", "link", "done"} => e \in Entries,
         \A a \in AgentIds : agents'[a].host = agents[a].host /\ (agents'[a] # NoAgent <=> agents[a] # NoAgent),
         UNCHANGED <<worldVars, agentOf, managers, managerOf, holders, raced>>
  PROVE  ReportMoved(r, at, e)
<1>0. Known /\ RacesAreNoticed /\ WorldTyped /\ EntriesTyped /\ AgentsTyped /\ ManagersTyped /\ ReportsTyped
  BY IdentityTypes DEF IdentityInv
<1>1. reports[r] # NoReport
  BY <1>0, BusyIsPresent
<1>2. /\ ReportsTyped' /\ reports'[r] # NoReport
      /\ reports'[r].agent = reports[r].agent /\ reports'[r].ip = reports[r].ip
      /\ reports'[r].entry = e /\ reports'[r].at = at
      /\ \A q \in Reports \ {r} : reports'[q] = reports[q]
  BY <1>0, <1>1, ReportGoesOn
<1>3. reports[r] \in ReportRows /\ reports[r].agent \in AgentIds /\ reports[r].ip \in Ips
  BY <1>0, <1>1 DEF ReportsTyped, ReportRows
<1>4. \A q \in Reports : reports'[q].agent = reports[q].agent /\ reports'[q].ip = reports[q].ip
  BY <1>2
<1>5. \A q \in Reports : reports'[q] # NoReport => reports'[q].agent \in AgentIds
  BY <1>2 DEF ReportsTyped, ReportRows
<1>6. \A q \in Reports : reports[q] # NoReport => HostOf(q)' = HostOf(q)
  BY <1>1, <1>2, <1>4, <1>5 DEF HostOf
<1>7. HostOf(r) \in Hosts /\ HostOf(r) \in holders[reports[r].ip]
  <2>1. agents[reports[r].agent] # NoAgent /\ HostOf(r) \in holders[reports[r].ip]
    BY <1>0, <1>1 DEF Known
  <2>2. agents[reports[r].agent] \in AgentRows
    BY <1>0, <1>3, <2>1 DEF AgentsTyped
  <2> QED
    BY <2>1, <2>2 DEF AgentRows, HostOf
<1>8. WorldTyped' /\ ManagersTyped'
  BY <1>0 DEF WorldTyped, ManagersTyped, worldVars
<1>9. Known'
  <2>1. \A h \in Hosts : address'[h] # NoIp => h \in holders'[address'[h]]
    BY <1>0 DEF Known, worldVars
  <2>2. \A h \in Hosts : agentOf'[h] # 0 => agents'[agentOf'[h]].host = h
    BY <1>0 DEF Known, AgentsTyped, AgentIds
  <2>3. \A h \in Hosts : managerOf'[h] # 0 => managers'[managerOf'[h]].host = h /\ managers'[managerOf'[h]].at = "done"
    BY <1>0 DEF Known
  <2>4. \A q \in Reports : reports'[q] # NoReport =>
          agents'[reports'[q].agent] # NoAgent /\ HostOf(q)' \in holders'[reports'[q].ip]
    BY <1>0, <1>1, <1>2, <1>4, <1>5, <1>6 DEF Known
  <2>5. \A m \in ManagerIds : managers'[m] # NoManager => managers'[m].host \in holders'[managers'[m].ip]
    BY <1>0 DEF Known
  <2>6. \A q \in Reports : reports'[q].at \in {"update", "link", "done"} => reports'[q].entry \in Entries
    BY <1>0, <1>2 DEF Known
  <2>7. \A m \in ManagerIds : managers'[m].at \in {"link", "reply", "done"} => managers'[m].entry \in Entries
    BY <1>0 DEF Known
  <2> QED
    BY <2>1, <2>2, <2>3, <2>4, <2>5, <2>6, <2>7 DEF Known
<1>10. Frame
  <2>1. \A q \in Reports : reports'[q] # NoReport <=> reports[q] # NoReport
    BY <1>1, <1>2
  <2>2. \A q \in Reports : ReportBusy(q)' => ReportBusy(q)
    BY <1>2 DEF ReportBusy
  <2>3. \A m \in ManagerIds : ManagerBusy(m)' => ManagerBusy(m)
    BY DEF ManagerBusy
  <2> QED
    BY <1>4, <1>6, <2>1, <2>2, <2>3 DEF Frame
<1>11. RacesAreNoticed'
  BY <1>0, <1>10, FrameKeepsRaces
<1> QED
  BY <1>1, <1>2, <1>3, <1>6, <1>7, <1>8, <1>9, <1>11 DEF ReportMoved

\* While the agents' rows stay, the link goes with the stage the request has come to.
LEMMA LinkIsAsRead ==
  ASSUME LinkInv, NEW r \in Reports, reports[r] # NoReport,
         \A q \in Reports \ {r} : reports'[q] = reports[q],
         reports'[r].agent = reports[r].agent,
         reports'[r].at \in {"find", "insert", "link"} => reports[r].at \in {"find", "insert", "link"},
         reports'[r].at \in {"update", "done"} => reports[r].at = "update" /\ reports'[r].entry = reports[r].entry,
         agents' = agents, raced' = raced
  PROVE  LinkInv'
BY DEF LinkInv, HostOf

\* A step that ends no request leaves the newest ones the newest.
LEMMA NewestWasNewest ==
  ASSUME NEW p \in Reports, Newest(p)', HostOf(p)' = HostOf(p), reports'[p].entry = reports[p].entry,
         \A q \in Reports : reports[q].at = "done" =>
           reports'[q].at = "done" /\ reports'[q].entry = reports[q].entry /\ HostOf(q)' = HostOf(q)
  PROVE  Newest(p)
BY DEF Newest

LEMMA ReportFailsKeeps ==
  ASSUME IdentityInv, NEW r \in Reports, ReportFails(r)
  PROVE  IdentityInv'
<1>0. /\ LinkInv /\ AddressInv /\ ClaimInv /\ OneRowInv
      /\ WorldTyped /\ EntriesTyped /\ AgentsTyped /\ ManagersTyped /\ ReportsTyped
  BY IdentityTypes DEF IdentityInv
<1>1. ReportBusy(r) /\ reports' = [reports EXCEPT ![r].at = "failed"]
      /\ UNCHANGED <<worldVars, entryIp, agents, agentOf, managers, managerOf, holders, raced>>
  BY DEF ReportFails, ReportBusy
<1>2. reports[r].entry \in 0 .. MaxEntries
  BY <1>0, <1>1, BusyIsPresent DEF ReportsTyped, ReportRows
<1>3. /\ WorldTyped' /\ ManagersTyped' /\ ReportsTyped' /\ Known' /\ RacesAreNoticed'
      /\ reports[r] # NoReport
      /\ reports'[r].agent = reports[r].agent
      /\ reports'[r].entry = reports[r].entry /\ reports'[r].at = "failed"
      /\ \A q \in Reports \ {r} : reports'[q] = reports[q]
      /\ \A q \in Reports : reports[q] # NoReport => HostOf(q)' = HostOf(q)
  <2>1. "failed" \in ReportStages \ {"none"} /\ "failed" \notin {"update", "link", "done"}
    BY DEF ReportStages, Over
  <2>2. UNCHANGED <<worldVars, agentOf, managers, managerOf, holders, raced>> /\ agents' = agents
    BY <1>1
  <2>8. ReportMoved(r, "failed", reports[r].entry)
    BY <1>1, <1>2, <2>1, <2>2, ReportStep
  <2> QED
    BY <2>8 DEF ReportMoved
<1>4. LinkInv'
  BY <1>0, <1>1, <1>3, LinkIsAsRead
<1>5. AddressInv'
  <2>1. \A q \in Reports : reports'[q].at # "none" => HostOf(q)' = HostOf(q) /\ reports[q] # NoReport
    BY <1>3 DEF NoReport
  <2>2. \A q \in Reports : reports[q].at = "done" => q # r /\ HostOf(q)' = HostOf(q)
    BY <1>0, <1>1, <1>3, BusyIsPresent DEF ReportBusy, Over
  <2>3. \A p \in Reports \ {r} : reports'[p].at \in {"link", "done"} /\ Newest(p)' => Newest(p)
    BY <1>3, <2>1, <2>2, NewestWasNewest
  <2> QED
    BY <1>0, <1>1, <1>3, <2>1, <2>3 DEF AddressInv
<1>6. \A h \in Hosts, e \in Entries : Claims(h, e)' => Claims(h, e)
  BY <1>1, <1>3 DEF Claims, HostOf
<1>7. ClaimInv'
  BY <1>0, <1>1, <1>6, ClaimsAreKept
<1>8. \A h \in Hosts : Inserting(h)' => Inserting(h)
  BY <1>1, <1>3 DEF Inserting, HostOf
<1>9. OneRowInv'
  BY <1>0, <1>1, <1>8, OneRowIsKept
<1>10. EntriesTyped' /\ AgentsTyped'
  BY <1>0, <1>1 DEF EntriesTyped, AgentsTyped
<1> QED
  BY <1>3, <1>4, <1>5, <1>7, <1>9, <1>10, IdentityTypes DEF IdentityInv

LEMMA UpdateEntryKeeps ==
  ASSUME IdentityInv, NEW r \in Reports, UpdateEntry(r)
  PROVE  IdentityInv'
<1>0. /\ LinkInv /\ AddressInv /\ ClaimInv /\ OneRowInv /\ Known /\ RacesAreNoticed
      /\ WorldTyped /\ EntriesTyped /\ AgentsTyped /\ ManagersTyped /\ ReportsTyped
  BY IdentityTypes DEF IdentityInv
<1> DEFINE e0 == reports[r].entry
           k == HostOf(r)
           ip0 == reports[r].ip
<1>1. /\ ReportBusy(r) /\ reports[r].at = "update" /\ reports' = [reports EXCEPT ![r].at = "done"]
      /\ entryIp' = [entryIp EXCEPT ![e0] = ip0] /\ agents' = agents
      /\ UNCHANGED <<worldVars, agentOf, managers, managerOf, holders, raced>>
  BY DEF UpdateEntry, ReportBusy, Over
<1>2. e0 \in Entries /\ e0 \in 0 .. MaxEntries
  BY <1>0, <1>1, IdentityAssumption DEF Known, Entries
<1>3. /\ WorldTyped' /\ ManagersTyped' /\ ReportsTyped' /\ Known' /\ RacesAreNoticed'
      /\ reports[r] # NoReport
      /\ reports'[r].agent = reports[r].agent /\ reports'[r].ip = ip0
      /\ reports'[r].entry = e0 /\ reports'[r].at = "done"
      /\ \A q \in Reports \ {r} : reports'[q] = reports[q]
      /\ \A q \in Reports : reports[q] # NoReport => HostOf(q)' = HostOf(q)
      /\ reports[r].agent \in AgentIds /\ ip0 \in Ips /\ k \in Hosts /\ k \in holders[ip0]
  <2>1. "done" \in ReportStages \ {"none"}
    BY DEF ReportStages, Over
  <2>2. ReportMoved(r, "done", e0)
    <3> HIDE DEF k, ip0
    <3> QED
      BY <1>1, <1>2, <2>1, ReportStep
  <2> QED
    BY <2>2 DEF ReportMoved
<1>a. entryIp'[e0] = ip0 /\ \A e \in Entries \ {e0} : entryIp'[e] = entryIp[e]
  BY <1>0, <1>1, <1>2 DEF EntriesTyped
<1>4. LinkInv'
  BY <1>0, <1>1, <1>3, LinkIsAsRead
<1>5. AddressInv'
  <2>1. \A q \in Reports : reports'[q].at # "none" => HostOf(q)' = HostOf(q) /\ reports[q] # NoReport
    BY <1>3 DEF NoReport
  <2>2. \A q \in Reports : reports[q].at = "done" => q # r /\ HostOf(q)' = HostOf(q)
    BY <1>0, <1>1, <1>3, BusyIsPresent
  <2>3. \A p \in Reports \ {r} : reports'[p].at \in {"link", "done"} /\ Newest(p)' => Newest(p)
    BY <1>3, <2>1, <2>2, NewestWasNewest
  <2>4. ASSUME NEW p \in Reports \ {r}, reports[p].at \in {"link", "done"}, HostOf(p) \notin raced, Newest(p)'
        PROVE  reports[p].entry # e0
    <3> SUFFICES ASSUME reports[p].entry = e0 PROVE FALSE
      OBVIOUS
    <3>1. reports[p] # NoReport /\ HostOf(p)' = HostOf(p) /\ reports'[p] = reports[p]
      BY <1>3, <2>4, <2>1
    <3>2. HostOf(r)' = HostOf(p)' /\ ~(r > p)
      BY <1>3, <2>4, <3>1 DEF Newest
    <3>3. r < p /\ HostOf(r) = HostOf(p)
      BY <1>3, <3>1, <3>2 DEF Reports
    <3> QED
      BY <1>0, <1>1, <2>4, <3>1, <3>3 DEF RacesAreNoticed
  <2>5. ASSUME NEW p \in Reports \ {r}, reports'[p].at \in {"link", "done"}, HostOf(p)' \notin raced', Newest(p)'
        PROVE  entryIp'[reports'[p].entry] = reports'[p].ip
    <3>1. reports'[p] = reports[p] /\ HostOf(p) \notin raced /\ Newest(p) /\ reports[p].entry \in Entries
      BY <1>0, <1>1, <1>3, <2>1, <2>3, <2>5 DEF Known
    <3>2. reports[p].entry # e0
      BY <2>4, <2>5, <3>1
    <3> QED
      BY <1>0, <1>a, <2>5, <3>1, <3>2 DEF AddressInv
  <2>6. entryIp'[reports'[r].entry] = reports'[r].ip
    BY <1>3, <1>a
  <2> QED
    BY <2>5, <2>6 DEF AddressInv
<1>6. \A h \in Hosts, e \in Entries : Claims(h, e)' => Claims(h, e)
  BY <1>1, <1>3 DEF Claims, HostOf
<1>7. Claims(k, e0)
  BY <1>1 DEF Claims
<1>8. \A h \in Hosts : Inserting(h)' => Inserting(h)
  BY <1>1, <1>3 DEF Inserting, HostOf
<1> HIDE DEF e0, k, ip0
<1>9. ClaimInv'
  <2>1. \A h \in Hosts, e \in Entries : Claims(h, e)' => Claims(h, e) \/ (h = k /\ e = e0)
    BY <1>6
  <2>2. holders' = holders /\ entryIp' = [entryIp EXCEPT ![e0] = ip0]
    BY <1>1
  <2> QED
    BY <1>0, <1>2, <1>3, <1>7, <2>1, <2>2, WrittenRowIsClaimed
<1>10. OneRowInv'
  <2>1. UNCHANGED <<raced, holders>> /\ entryIp' = [entryIp EXCEPT ![e0] = ip0]
    BY <1>1
  <2> QED
    BY <1>0, <1>2, <1>3, <1>7, <1>8, <2>1, UpdateKeepsOneRow
<1>11. EntriesTyped' /\ AgentsTyped'
  BY <1>0, <1>1, <1>3 DEF EntriesTyped, AgentsTyped
<1> QED
  BY <1>3, <1>4, <1>5, <1>9, <1>10, <1>11, IdentityTypes DEF IdentityInv

LEMMA FindEntryKeeps ==
  ASSUME IdentityInv, NEW r \in Reports, FindEntry(r)
  PROVE  IdentityInv'
<1>0. /\ LinkInv /\ AddressInv /\ ClaimInv /\ OneRowInv /\ Known /\ RacesAreNoticed
      /\ WorldTyped /\ EntriesTyped /\ AgentsTyped /\ ManagersTyped /\ ReportsTyped
  BY IdentityTypes DEF IdentityInv
<1>1. /\ ReportBusy(r) /\ reports[r].at = "find" /\ entryIp' = entryIp /\ agents' = agents
      /\ UNCHANGED <<worldVars, agentOf, managers, managerOf, holders, raced>>
  BY DEF FindEntry, ReportBusy, Over
<1>t. reports[r].entry \in 0 .. MaxEntries
  BY <1>0, <1>1, BusyIsPresent DEF ReportsTyped, ReportRows
<1>2. PICK at \in {"insert", "link"}, e0 \in 0 .. MaxEntries :
        /\ at = "insert" => Rows(reports[r].ip) = {} /\ reports' = [reports EXCEPT ![r].at = at] /\ e0 = reports[r].entry
        /\ at = "link" => e0 \in Rows(reports[r].ip) /\ reports' = [reports EXCEPT ![r].at = at, ![r].entry = e0]
  <2>1. CASE Rows(reports[r].ip) = {} /\ reports' = [reports EXCEPT ![r].at = "insert"]
    BY <1>t, <2>1
  <2>2. CASE \E e \in Rows(reports[r].ip) : reports' = [reports EXCEPT ![r].at = "link", ![r].entry = e]
    <3>1. PICK e \in Rows(reports[r].ip) : reports' = [reports EXCEPT ![r].at = "link", ![r].entry = e]
      BY <2>2
    <3>2. e \in 0 .. MaxEntries
      BY IdentityAssumption DEF Rows, Entries
    <3> QED
      BY <3>1, <3>2
  <2> QED
    BY <2>1, <2>2 DEF FindEntry
<1>3. /\ WorldTyped' /\ ManagersTyped' /\ ReportsTyped' /\ Known' /\ RacesAreNoticed'
      /\ reports[r] # NoReport
      /\ reports'[r].agent = reports[r].agent /\ reports'[r].ip = reports[r].ip
      /\ reports'[r].entry = e0 /\ reports'[r].at = at
      /\ \A q \in Reports \ {r} : reports'[q] = reports[q]
      /\ \A q \in Reports : reports[q] # NoReport => HostOf(q)' = HostOf(q)
      /\ reports[r].agent \in AgentIds /\ reports[r].ip \in Ips
      /\ HostOf(r) \in Hosts /\ HostOf(r) \in holders[reports[r].ip]
  <2>1. at \in ReportStages \ {"none"}
    BY DEF ReportStages, Over
  <2>2. at \in {"update", "link", "done"} => e0 \in Entries
    BY <1>2 DEF Rows
  <2>3. \/ reports' = [reports EXCEPT ![r].at = at, ![r].entry = e0]
        \/ reports' = [reports EXCEPT ![r].at = at] /\ e0 = reports[r].entry
    BY <1>2
  <2>8. ReportMoved(r, at, e0)
    BY <1>1, <2>1, <2>2, <2>3, ReportStep
  <2> QED
    BY <2>8 DEF ReportMoved
<1>4. LinkInv'
  BY <1>0, <1>1, <1>3, LinkIsAsRead
<1>5. AddressInv'
  <2>1. \A q \in Reports : reports'[q].at # "none" => HostOf(q)' = HostOf(q) /\ reports[q] # NoReport
    BY <1>3 DEF NoReport
  <2>2. \A q \in Reports : reports[q].at = "done" => q # r /\ HostOf(q)' = HostOf(q)
    BY <1>0, <1>1, <1>3, BusyIsPresent
  <2>3. \A p \in Reports \ {r} : reports'[p].at \in {"link", "done"} /\ Newest(p)' => Newest(p)
    BY <1>3, <2>1, <2>2, NewestWasNewest
  <2>4. reports'[r].at \in {"link", "done"} => entryIp'[reports'[r].entry] = reports'[r].ip
    BY <1>1, <1>2, <1>3 DEF Rows
  <2> QED
    BY <1>0, <1>1, <1>3, <2>1, <2>3, <2>4 DEF AddressInv
<1>6. ASSUME at = "insert" PROVE ClaimInv' /\ OneRowInv'
  <2>1. \A h \in Hosts, e \in Entries : Claims(h, e)' => Claims(h, e)
    BY <1>1, <1>3, <1>6 DEF Claims, HostOf
  <2>2. ClaimInv'
    BY <1>0, <1>1, <2>1, ClaimsAreKept
  <2>3. \A h \in Hosts : Inserting(h)' => Inserting(h) \/ h = HostOf(r)
    BY <1>1, <1>3, <1>6 DEF Inserting, HostOf
  <2>4. UNCHANGED <<entryIp, raced, holders>>
    BY <1>1
  <2>5. OneRowInv'
    BY <1>0, <1>2, <1>3, <1>6, <2>3, <2>4, NothingWasFound
  <2> QED
    BY <2>2, <2>5
<1>7. ASSUME at = "link" PROVE ClaimInv' /\ OneRowInv'
  <2>1. \A h \in Hosts, e \in Entries : Claims(h, e)' => Claims(h, e) \/ (h = HostOf(r) /\ e = e0)
    BY <1>1, <1>3, <1>7 DEF Claims, HostOf
  <2>2. e0 \in Entries /\ entryIp[e0] = reports[r].ip
    BY <1>2, <1>7 DEF Rows
  <2>3. entryIp' = entryIp /\ holders' = holders
    BY <1>1
  <2>4. ClaimInv'
    BY <1>0, <1>3, <2>1, <2>2, <2>3, FoundRowIsClaimed
  <2>5. \A h \in Hosts : Inserting(h)' => Inserting(h)
    BY <1>1, <1>3, <1>7 DEF Inserting, HostOf
  <2>6. OneRowInv'
    BY <1>0, <1>1, <2>5, OneRowIsKept
  <2> QED
    BY <2>4, <2>6
<1>8. EntriesTyped' /\ AgentsTyped'
  BY <1>0, <1>1 DEF EntriesTyped, AgentsTyped
<1> QED
  BY <1>3, <1>4, <1>5, <1>6, <1>7, <1>8, IdentityTypes DEF IdentityInv

LEMMA InsertEntryKeeps ==
  ASSUME IdentityInv, NEW r \in Reports, InsertEntry(r)
  PROVE  IdentityInv'
<1>0. /\ LinkInv /\ AddressInv /\ ClaimInv /\ OneRowInv /\ Known /\ RacesAreNoticed
      /\ WorldTyped /\ EntriesTyped /\ AgentsTyped /\ ManagersTyped /\ ReportsTyped
  BY IdentityTypes DEF IdentityInv
<1>1. /\ ReportBusy(r) /\ reports[r].at = "insert" /\ agents' = agents
      /\ UNCHANGED <<worldVars, agentOf, managers, managerOf, holders, raced>>
  BY DEF InsertEntry, ReportBusy, Over
<1>2. PICK e0 \in Entries \ {1} : entryIp[e0] = NoIp /\ entryIp' = [entryIp EXCEPT ![e0] = reports[r].ip]
                                  /\ reports' = [reports EXCEPT ![r].at = "link", ![r].entry = e0]
  BY DEF InsertEntry, Insert
<1>3. /\ WorldTyped' /\ ManagersTyped' /\ ReportsTyped' /\ Known' /\ RacesAreNoticed'
      /\ reports[r] # NoReport
      /\ reports'[r].agent = reports[r].agent /\ reports'[r].ip = reports[r].ip
      /\ reports'[r].entry = e0 /\ reports'[r].at = "link"
      /\ \A q \in Reports \ {r} : reports'[q] = reports[q]
      /\ \A q \in Reports : reports[q] # NoReport => HostOf(q)' = HostOf(q)
      /\ reports[r].agent \in AgentIds /\ reports[r].ip \in Ips
      /\ HostOf(r) \in Hosts /\ HostOf(r) \in holders[reports[r].ip]
  <2>1. "link" \in ReportStages \ {"none"} /\ e0 \in Entries /\ e0 \in 0 .. MaxEntries
    BY IdentityAssumption DEF ReportStages, Over, Entries
  <2>8. ReportMoved(r, "link", e0)
    BY <1>1, <1>2, <2>1, ReportStep
  <2> QED
    BY <2>8 DEF ReportMoved
<1>a. entryIp'[e0] = reports[r].ip /\ \A e \in Entries \ {e0} : entryIp'[e] = entryIp[e]
  BY <1>0, <1>2 DEF EntriesTyped
<1>4. LinkInv'
  BY <1>0, <1>1, <1>3, LinkIsAsRead
<1>5. AddressInv'
  <2>1. \A q \in Reports : reports'[q].at # "none" => HostOf(q)' = HostOf(q) /\ reports[q] # NoReport
    BY <1>3 DEF NoReport
  <2>2. \A q \in Reports : reports[q].at = "done" => q # r /\ HostOf(q)' = HostOf(q)
    BY <1>0, <1>1, <1>3, BusyIsPresent
  <2>3. \A p \in Reports \ {r} : reports'[p].at \in {"link", "done"} /\ Newest(p)' => Newest(p)
    BY <1>3, <2>1, <2>2, NewestWasNewest
  <2>5. ASSUME NEW p \in Reports \ {r}, reports'[p].at \in {"link", "done"}, HostOf(p)' \notin raced', Newest(p)'
        PROVE  entryIp'[reports'[p].entry] = reports'[p].ip
    <3>1. reports'[p] = reports[p] /\ HostOf(p) \notin raced /\ Newest(p) /\ reports[p].entry \in Entries
      BY <1>0, <1>1, <1>3, <2>1, <2>3, <2>5 DEF Known
    <3>2. entryIp[reports[p].entry] = reports[p].ip
      BY <1>0, <2>5, <3>1 DEF AddressInv
    <3>3. reports[p].ip \in Ips
      BY <1>0, <2>1, <2>5 DEF ReportsTyped, ReportRows
    <3>4. reports[p].entry # e0
      BY <1>2, <3>2, <3>3, IdentityAssumption
    <3> QED
      BY <1>a, <3>1, <3>2, <3>4
  <2>6. entryIp'[reports'[r].entry] = reports'[r].ip
    BY <1>3, <1>a
  <2> QED
    BY <2>5, <2>6 DEF AddressInv
<1>6. \A h \in Hosts, e \in Entries : Claims(h, e)' => Claims(h, e) \/ (h = HostOf(r) /\ e = e0)
  BY <1>1, <1>3 DEF Claims, HostOf
<1>7. Inserting(HostOf(r))
  BY <1>1 DEF Inserting
<1>8. \A h \in Hosts : Inserting(h)' => Inserting(h)
  BY <1>1, <1>3 DEF Inserting, HostOf
<1>9. Inserting(HostOf(r))' => HostOf(r) \in raced
  <2>1. ASSUME NEW q \in Reports, reports'[q].at = "insert", HostOf(q)' = HostOf(r)' PROVE HostOf(r) \in raced
    <3>1. q # r /\ reports[q] = reports'[q] /\ ReportBusy(q) /\ reports[q] # NoReport
      BY <1>3, <2>1 DEF ReportBusy, Over, NoReport
    <3>2. HostOf(q) = HostOf(r)
      BY <1>3, <2>1, <3>1
    <3>3. q < r \/ r < q
      BY <3>1 DEF Reports
    <3> QED
      BY <1>0, <1>1, <1>3, <3>1, <3>2, <3>3 DEF RacesAreNoticed
  <2>2. ASSUME NEW m \in ManagerIds, managers'[m].at = "insert", managers'[m].host = HostOf(r)' PROVE HostOf(r) \in raced
    BY <1>0, <1>1, <1>3, <2>2 DEF RacesAreNoticed, ManagerBusy
  <2> QED
    BY <1>3, <2>1, <2>2 DEF Inserting
<1>10. holders' = holders /\ raced' = raced
  BY <1>1
<1>11. ClaimInv'
  BY <1>0, <1>2, <1>3, <1>6, <1>10, WrittenRowIsClaimed
<1>12. OneRowInv'
  BY <1>0, <1>2, <1>3, <1>7, <1>8, <1>9, <1>10, InsertKeepsOneRow
<1>13. EntriesTyped' /\ AgentsTyped'
  BY <1>0, <1>1, <1>2, <1>3 DEF EntriesTyped, AgentsTyped
<1> QED
  BY <1>3, <1>4, <1>5, <1>11, <1>12, <1>13, IdentityTypes DEF IdentityInv

LEMMA LinkAgentKeeps ==
  ASSUME IdentityInv, NEW r \in Reports, LinkAgent(r)
  PROVE  IdentityInv' /\ \A a \in AgentIds : agents'[a].entry # agents[a].entry =>
                           a = reports[r].agent /\ (agents[a].entry = 0 \/ HostOf(r) \in raced)
<1>0. /\ LinkInv /\ AddressInv /\ ClaimInv /\ OneRowInv /\ Known /\ RacesAreNoticed
      /\ WorldTyped /\ EntriesTyped /\ AgentsTyped /\ ManagersTyped /\ ReportsTyped
  BY IdentityTypes DEF IdentityInv
<1> DEFINE a0 == reports[r].agent
           e0 == reports[r].entry
<1>1. /\ ReportBusy(r) /\ reports[r].at = "link" /\ reports' = [reports EXCEPT ![r].at = "done"]
      /\ agents' = [agents EXCEPT ![a0].entry = e0] /\ entryIp' = entryIp
      /\ UNCHANGED <<worldVars, agentOf, managers, managerOf, holders, raced>>
  BY DEF LinkAgent, ReportBusy, Over
<1>2. e0 \in Entries /\ e0 \in 0 .. MaxEntries /\ a0 \in AgentIds /\ agents[a0] \in AgentRows
  <2>1. e0 \in Entries
    BY <1>0, <1>1 DEF Known
  <2>2. reports[r] # NoReport
    BY <1>0, <1>1, BusyIsPresent
  <2>3. a0 \in AgentIds /\ agents[a0] # NoAgent
    BY <1>0, <2>2 DEF Known, ReportsTyped, ReportRows
  <2> QED
    BY <1>0, <2>1, <2>3, IdentityAssumption DEF Entries, AgentsTyped
<1>a. /\ agents' \in [AgentIds -> AgentRows \cup {NoAgent}]
      /\ agents'[a0].entry = e0 /\ agents'[a0].host = agents[a0].host /\ agents'[a0] # NoAgent
      /\ \A a \in AgentIds \ {a0} : agents'[a] = agents[a]
  <2> DEFINE row == [host |-> agents[a0].host, entry |-> e0]
  <2>1. row \in AgentRows /\ row # NoAgent
    BY <1>2, RowsArePresent DEF AgentRows
  <2>2. row.host = agents[a0].host /\ row.entry = e0
    OBVIOUS
  <2>3. agents' = [agents EXCEPT ![a0] = row]
    <3>1. agents[a0] = [host |-> agents[a0].host, entry |-> agents[a0].entry]
      BY <1>2 DEF AgentRows
    <3>2. [agents[a0] EXCEPT !.entry = e0] = row
      BY <3>1
    <3> HIDE DEF row, a0, e0
    <3> QED
      BY <1>1, <3>2
  <2> HIDE DEF row, a0, e0
  <2> QED
    BY <1>0, <1>2, <2>1, <2>2, <2>3 DEF AgentsTyped
<1>3. /\ WorldTyped' /\ ManagersTyped' /\ ReportsTyped' /\ Known' /\ RacesAreNoticed'
      /\ reports[r] # NoReport
      /\ reports'[r].agent = a0 /\ reports'[r].ip = reports[r].ip
      /\ reports'[r].entry = e0 /\ reports'[r].at = "done"
      /\ \A q \in Reports \ {r} : reports'[q] = reports[q]
      /\ \A q \in Reports : reports[q] # NoReport => HostOf(q)' = HostOf(q)
      /\ HostOf(r) \in Hosts /\ HostOf(r) \in holders[reports[r].ip]
  <2>1. "done" \in ReportStages \ {"none"}
    BY DEF ReportStages, Over
  <2>2. \A a \in AgentIds : agents'[a].host = agents[a].host /\ (agents'[a] # NoAgent <=> agents[a] # NoAgent)
    BY <1>2, <1>a, RowsArePresent
  <2>3. UNCHANGED <<worldVars, agentOf, managers, managerOf, holders, raced>>
    BY <1>1
  <2>8. ReportMoved(r, "done", e0)
    BY <1>1, <1>2, <2>1, <2>2, <2>3, ReportStep
  <2> QED
    BY <2>8 DEF ReportMoved
<1>b. \A q \in Reports \ {r} : reports[q] # NoReport /\ reports[q].agent = a0 /\ HostOf(q) \notin raced =>
        reports[q].at \in {"none", "failed"}
  <2> SUFFICES ASSUME NEW q \in Reports \ {r}, reports[q] # NoReport, reports[q].agent = a0, HostOf(q) \notin raced
               PROVE  reports[q].at \in {"none", "failed"}
    OBVIOUS
  <2>1. HostOf(q) = HostOf(r)
    BY DEF HostOf
  <2>2. ~ReportBusy(q)
    <3>1. q < r \/ r < q
      BY DEF Reports
    <3> QED
      BY <1>0, <1>1, <1>3, <2>1, <3>1 DEF RacesAreNoticed
  <2>3. reports[q].at # "done"
    <3>1. agents[a0].entry = 0
      BY <1>0, <1>1, <1>3, <2>1 DEF LinkInv
    <3>2. reports[q].at = "done" => agents[a0].entry = reports[q].entry /\ reports[q].entry \in Entries
      BY <1>0 DEF LinkInv, Known
    <3> QED
      BY <3>1, <3>2 DEF Entries
  <2> QED
    BY <2>2, <2>3 DEF ReportBusy, Over
<1>4. LinkInv'
  <2>1. ASSUME NEW q \in Reports, reports'[q] # NoReport, HostOf(q)' \notin raced'
        PROVE  /\ reports'[q].at \in {"find", "insert", "link"} => agents'[reports'[q].agent].entry = 0
               /\ reports'[q].at \in {"update", "done"} => agents'[reports'[q].agent].entry = reports'[q].entry
    <3>1. CASE q = r
      BY <1>a, <1>3, <3>1
    <3>2. CASE q # r
      <4>1. reports'[q] = reports[q] /\ reports[q] # NoReport /\ HostOf(q) \notin raced /\ reports[q].agent \in AgentIds
        BY <1>0, <1>1, <1>3, <2>1, <3>2 DEF ReportsTyped, ReportRows
      <4>2. CASE reports[q].agent = a0
        BY <1>b, <3>2, <4>1, <4>2
      <4>3. CASE reports[q].agent # a0
        BY <1>0, <1>a, <4>1, <4>3 DEF LinkInv
      <4> QED
        BY <4>2, <4>3
    <3> QED
      BY <3>1, <3>2
  <2> QED
    BY <2>1 DEF LinkInv
<1>5. AddressInv'
  <2>1. \A q \in Reports : reports'[q].at # "none" => HostOf(q)' = HostOf(q) /\ reports[q] # NoReport
    BY <1>3 DEF NoReport
  <2>2. \A q \in Reports : reports[q].at = "done" => q # r /\ HostOf(q)' = HostOf(q)
    BY <1>0, <1>1, <1>3, BusyIsPresent
  <2>3. \A p \in Reports : reports'[p].at \in {"link", "done"} /\ Newest(p)' => Newest(p)
    BY <1>3, <2>1, <2>2, NewestWasNewest
  <2>4. \A p \in Reports : reports'[p].at \in {"link", "done"} => reports[p].at \in {"link", "done"}
          /\ reports'[p].entry = reports[p].entry /\ reports'[p].ip = reports[p].ip
    BY <1>1, <1>3
  <2> QED
    BY <1>0, <1>1, <2>1, <2>3, <2>4 DEF AddressInv
<1>6. \A h \in Hosts, e \in Entries : Claims(h, e)' => Claims(h, e)
  <2> SUFFICES ASSUME NEW h \in Hosts, NEW e \in Entries, Claims(h, e)' PROVE Claims(h, e)
    OBVIOUS
  <2>1. ASSUME NEW a \in AgentIds, agents'[a].host = h /\ agents'[a].entry = e PROVE Claims(h, e)
    <3>1. CASE a = a0
      BY <1>1, <1>a, <2>1, <3>1 DEF Claims, HostOf
    <3>2. CASE a # a0
      BY <1>a, <2>1, <3>2 DEF Claims
    <3> QED
      BY <3>1, <3>2
  <2>2. ASSUME NEW q \in Reports, reports'[q].at \in {"update", "link"}, reports'[q].entry = e, HostOf(q)' = h
        PROVE  Claims(h, e)
    <3>1. q # r /\ reports'[q] = reports[q] /\ reports[q] # NoReport
      BY <1>3, <2>2 DEF NoReport
    <3> QED
      BY <1>3, <2>2, <3>1 DEF Claims
  <2>3. ASSUME NEW m \in ManagerIds, managers'[m].at \in {"link", "reply", "done"}, managers'[m].entry = e,
               managers'[m].host = h
        PROVE  Claims(h, e)
    BY <1>1, <2>3 DEF Claims
  <2> QED
    BY <2>1, <2>2, <2>3 DEF Claims
<1>7. \A h \in Hosts : Inserting(h)' => Inserting(h)
  <2>1. \A q \in Reports : reports'[q].at = "insert" => q # r /\ reports'[q] = reports[q] /\ HostOf(q)' = HostOf(q)
    BY <1>3 DEF NoReport
  <2> QED
    BY <1>1, <2>1 DEF Inserting
<1>8. ClaimInv'
  BY <1>0, <1>1, <1>6, ClaimsAreKept
<1>9. OneRowInv'
  BY <1>0, <1>1, <1>7, OneRowIsKept
<1>10. EntriesTyped' /\ AgentsTyped'
  BY <1>0, <1>1, <1>a DEF EntriesTyped, AgentsTyped
<1>11. \A a \in AgentIds : agents'[a].entry # agents[a].entry =>
         a = a0 /\ (agents[a].entry = 0 \/ HostOf(r) \in raced)
  BY <1>0, <1>1, <1>3, <1>a DEF LinkInv
<1> QED
  BY <1>3, <1>4, <1>5, <1>8, <1>9, <1>10, <1>11, IdentityTypes DEF IdentityInv

-----------------------------------------------------------------------------
(* The requests of the Manager.                                            *)

LEMMA ManagerStep ==
  ASSUME IdentityInv, NEW m \in ManagerIds, managers[m] # NoManager, NEW at \in ManagerStages \ {"none"},
         NEW e \in 0 .. MaxEntries,
         managers[m].at # "done",
         at \in {"find", "insert", "link"} => ManagerBusy(m),
         \/ managers' = [managers EXCEPT ![m].at = at, ![m].entry = e]
         \/ managers' = [managers EXCEPT ![m].at = at] /\ e = managers[m].entry,
         at \in {"link", "reply", "done"} => e \in Entries,
         managerOf' \in [Hosts -> 0 .. MaxManagers],
         \A h \in Hosts : managerOf'[h] = managerOf[h] \/ (h = managers[m].host /\ managerOf'[h] = m /\ at = "done"),
         UNCHANGED <<worldVars, agents, agentOf, reports, holders, raced>>
  PROVE  /\ WorldTyped' /\ AgentsTyped' /\ ManagersTyped' /\ ReportsTyped' /\ Known' /\ RacesAreNoticed' /\ LinkInv'
         /\ managers'[m].host = managers[m].host /\ managers'[m].ip = managers[m].ip
         /\ managers'[m].entry = e /\ managers'[m].at = at
         /\ \A n \in ManagerIds \ {m} : managers'[n] = managers[n]
         /\ managers[m].ip \in Ips /\ managers[m].host \in Hosts /\ managers[m].host \in holders[managers[m].ip]
<1>0. /\ LinkInv /\ Known /\ RacesAreNoticed
      /\ WorldTyped /\ AgentsTyped /\ ManagersTyped /\ ReportsTyped
  BY IdentityTypes DEF IdentityInv
<1>1. managers[m] \in ManagerRows
  BY <1>0 DEF ManagersTyped
<1>2. /\ managers' \in [ManagerIds -> ManagerRows \cup {NoManager}] /\ managers'[m] # NoManager
      /\ managers'[m].host = managers[m].host /\ managers'[m].ip = managers[m].ip
      /\ managers'[m].entry = e /\ managers'[m].at = at
      /\ \A n \in ManagerIds \ {m} : managers'[n] = managers[n]
  BY <1>0, ManagerGoesOn
<1>3. managers[m].ip \in Ips /\ managers[m].host \in Hosts /\ managers[m].host \in holders[managers[m].ip]
  BY <1>0, <1>1 DEF ManagerRows, Known
<1>4. WorldTyped' /\ AgentsTyped' /\ ManagersTyped' /\ ReportsTyped'
  BY <1>0, <1>2 DEF WorldTyped, AgentsTyped, ManagersTyped, ReportsTyped, worldVars
<1>h. \A r \in Reports : HostOf(r)' = HostOf(r)
  BY DEF HostOf
<1>5. Known'
  <2>1. \A h \in Hosts : address'[h] # NoIp => h \in holders'[address'[h]]
    BY <1>0 DEF Known, worldVars
  <2>2. \A h \in Hosts : agentOf'[h] # 0 => agents'[agentOf'[h]].host = h
    BY <1>0 DEF Known
  <2>3. ASSUME NEW h \in Hosts, managerOf'[h] # 0
        PROVE  managers'[managerOf'[h]].host = h /\ managers'[managerOf'[h]].at = "done"
    <3>1. CASE managerOf'[h] = managerOf[h]
      <4>1. managerOf[h] \in ManagerIds
        BY <1>0, <2>3, <3>1, IdentityAssumption DEF ManagersTyped, ManagerIds
      <4>2. managers[managerOf[h]].host = h /\ managers[managerOf[h]].at = "done"
        BY <1>0, <2>3, <3>1 DEF Known
      <4>3. managerOf[h] # m
        BY <4>2
      <4> QED
        BY <1>2, <3>1, <4>1, <4>2, <4>3
    <3>2. CASE h = managers[m].host /\ managerOf'[h] = m /\ at = "done"
      BY <1>2, <3>2
    <3> QED
      BY <3>1, <3>2
  <2>4. \A r \in Reports : reports'[r] # NoReport =>
          agents'[reports'[r].agent] # NoAgent /\ HostOf(r)' \in holders'[reports'[r].ip]
    BY <1>0, <1>h DEF Known
  <2>5. \A n \in ManagerIds : managers'[n] # NoManager => managers'[n].host \in holders'[managers'[n].ip]
    BY <1>0, <1>2, <1>3 DEF Known
  <2>6. \A r \in Reports : reports'[r].at \in {"update", "link", "done"} => reports'[r].entry \in Entries
    BY <1>0 DEF Known
  <2>7. \A n \in ManagerIds : managers'[n].at \in {"link", "reply", "done"} => managers'[n].entry \in Entries
    BY <1>0, <1>2 DEF Known
  <2> QED
    BY <2>1, <2>2, <2>3, <2>4, <2>5, <2>6, <2>7 DEF Known
<1>6. Frame
  BY <1>2, <1>h DEF Frame, ReportBusy, ManagerBusy
<1>7. RacesAreNoticed'
  BY <1>0, <1>6, FrameKeepsRaces
<1>8. LinkInv'
  BY <1>0, <1>h DEF LinkInv
<1> QED
  BY <1>2, <1>3, <1>4, <1>5, <1>7, <1>8

\* While requests of agents and their rows stay, so does the address they have written.
LEMMA AddressStays ==
  ASSUME AddressInv, UNCHANGED <<agents, reports, raced>>,
         \A r \in Reports : reports[r].at \in {"link", "done"} /\ entryIp[reports[r].entry] = reports[r].ip
                            => entryIp'[reports[r].entry] = entryIp[reports[r].entry]
  PROVE  AddressInv'
<1>1. \A r \in Reports : HostOf(r)' = HostOf(r)
  BY DEF HostOf
<1>2. \A r \in Reports : Newest(r)' = Newest(r)
  BY <1>1 DEF Newest
<1> QED
  BY <1>1, <1>2 DEF AddressInv

\* Claims of other requests than the Manager's own.
LEMMA ManagerClaims ==
  ASSUME UNCHANGED <<agents, reports>>, NEW m \in ManagerIds, managers'[m].host = managers[m].host,
         \A n \in ManagerIds \ {m} : managers'[n] = managers[n]
  PROVE  /\ \A h \in Hosts, e \in Entries : Claims(h, e)' =>
              \/ Claims(h, e)
              \/ /\ h = managers[m].host /\ e = managers'[m].entry
                 /\ managers'[m].at \in {"link", "reply", "done"}
                 /\ ~(managers[m].at \in {"link", "reply", "done"} /\ managers[m].entry = e)
         /\ \A h \in Hosts : Inserting(h)' =>
              Inserting(h) \/ (h = managers[m].host /\ managers'[m].at = "insert" /\ managers[m].at # "insert")
<1>1. \A r \in Reports : HostOf(r)' = HostOf(r)
  BY DEF HostOf
<1>2. ASSUME NEW h \in Hosts, NEW e \in Entries, Claims(h, e)'
      PROVE  \/ Claims(h, e)
             \/ /\ h = managers[m].host /\ e = managers'[m].entry
                /\ managers'[m].at \in {"link", "reply", "done"}
                /\ ~(managers[m].at \in {"link", "reply", "done"} /\ managers[m].entry = e)
  BY <1>1, <1>2 DEF Claims
<1>3. ASSUME NEW h \in Hosts, Inserting(h)'
      PROVE  Inserting(h) \/ (h = managers[m].host /\ managers'[m].at = "insert" /\ managers[m].at # "insert")
  BY <1>1, <1>3 DEF Inserting
<1> QED
  BY <1>2, <1>3

LEMMA FindForManagerKeeps ==
  ASSUME IdentityInv, NEW m \in ManagerIds, FindForManager(m)
  PROVE  IdentityInv'
<1>0. /\ AddressInv /\ ClaimInv /\ OneRowInv /\ Known
      /\ EntriesTyped /\ ManagersTyped /\ ReportsTyped
  BY IdentityTypes DEF IdentityInv
<1>1. /\ managers[m].at = "find" /\ ManagerBusy(m) /\ managerOf' = managerOf /\ entryIp' = entryIp
      /\ UNCHANGED <<worldVars, agents, agentOf, reports, holders, raced>>
  BY DEF FindForManager, ManagerBusy
<1>2. managers[m] # NoManager
  BY <1>0, <1>1, BusyIsPresent
<1>t. managers[m].entry \in 0 .. MaxEntries
  BY <1>0, <1>2 DEF ManagersTyped, ManagerRows
<1>3. PICK at \in {"insert", "link"}, e0 \in 0 .. MaxEntries :
        /\ at = "insert" => Rows(managers[m].ip) = {} /\ managers' = [managers EXCEPT ![m].at = at] /\ e0 = managers[m].entry
        /\ at = "link" => e0 \in Rows(managers[m].ip) /\ managers' = [managers EXCEPT ![m].at = at, ![m].entry = e0]
  <2>1. CASE Rows(managers[m].ip) = {} /\ managers' = [managers EXCEPT ![m].at = "insert"]
    BY <1>t, <2>1
  <2>2. CASE \E e \in Rows(managers[m].ip) : managers' = [managers EXCEPT ![m].at = "link", ![m].entry = e]
    <3>1. PICK e \in Rows(managers[m].ip) : managers' = [managers EXCEPT ![m].at = "link", ![m].entry = e]
      BY <2>2
    <3>2. e \in 0 .. MaxEntries
      BY IdentityAssumption DEF Rows, Entries
    <3> QED
      BY <3>1, <3>2
  <2> QED
    BY <2>1, <2>2 DEF FindForManager
<1>4. /\ WorldTyped' /\ AgentsTyped' /\ ManagersTyped' /\ ReportsTyped' /\ Known' /\ RacesAreNoticed' /\ LinkInv'
      /\ managers'[m].host = managers[m].host
      /\ managers'[m].entry = e0 /\ managers'[m].at = at
      /\ \A n \in ManagerIds \ {m} : managers'[n] = managers[n]
      /\ managers[m].ip \in Ips /\ managers[m].host \in Hosts /\ managers[m].host \in holders[managers[m].ip]
  <2>1. at \in ManagerStages \ {"none"} /\ managers[m].at # "done"
    BY <1>1 DEF ManagerStages, Over
  <2>2. at \in {"link", "reply", "done"} => e0 \in Entries
    BY <1>3 DEF Rows
  <2>3. \/ managers' = [managers EXCEPT ![m].at = at, ![m].entry = e0]
        \/ managers' = [managers EXCEPT ![m].at = at] /\ e0 = managers[m].entry
    BY <1>3
  <2>4. managerOf' \in [Hosts -> 0 .. MaxManagers] /\ \A h \in Hosts : managerOf'[h] = managerOf[h]
    BY <1>0, <1>1 DEF ManagersTyped
  <2> QED
    BY <1>1, <1>2, <2>1, <2>2, <2>3, <2>4, ManagerStep
<1>5. AddressInv'
  BY <1>0, <1>1, AddressStays
<1>6. ASSUME at = "insert" PROVE ClaimInv' /\ OneRowInv'
  <2>1. \A h \in Hosts, e \in Entries : Claims(h, e)' => Claims(h, e)
    BY <1>1, <1>4, <1>6, ManagerClaims
  <2>2. ClaimInv'
    BY <1>0, <1>1, <2>1, ClaimsAreKept
  <2>3. \A h \in Hosts : Inserting(h)' => Inserting(h) \/ h = managers[m].host
    BY <1>1, <1>4, ManagerClaims
  <2>4. UNCHANGED <<entryIp, raced, holders>>
    BY <1>1
  <2>5. OneRowInv'
    BY <1>0, <1>3, <1>4, <1>6, <2>3, <2>4, NothingWasFound
  <2> QED
    BY <2>2, <2>5
<1>7. ASSUME at = "link" PROVE ClaimInv' /\ OneRowInv'
  <2>1. \A h \in Hosts, e \in Entries : Claims(h, e)' => Claims(h, e) \/ (h = managers[m].host /\ e = e0)
    BY <1>1, <1>4, <1>7, ManagerClaims
  <2>2. e0 \in Entries /\ entryIp[e0] = managers[m].ip
    BY <1>3, <1>7 DEF Rows
  <2>3. entryIp' = entryIp /\ holders' = holders
    BY <1>1
  <2>4. ClaimInv'
    BY <1>0, <1>4, <2>1, <2>2, <2>3, FoundRowIsClaimed
  <2>5. \A h \in Hosts : Inserting(h)' => Inserting(h)
    BY <1>1, <1>4, <1>7, ManagerClaims
  <2>6. OneRowInv'
    BY <1>0, <1>1, <2>5, OneRowIsKept
  <2> QED
    BY <2>4, <2>6
<1>8. EntriesTyped'
  BY <1>0, <1>1 DEF EntriesTyped
<1> QED
  BY <1>4, <1>5, <1>6, <1>7, <1>8, IdentityTypes DEF IdentityInv

LEMMA InsertForManagerKeeps ==
  ASSUME IdentityInv, NEW m \in ManagerIds, InsertForManager(m)
  PROVE  IdentityInv'
<1>0. /\ AddressInv /\ ClaimInv /\ OneRowInv /\ Known /\ RacesAreNoticed
      /\ EntriesTyped /\ ManagersTyped /\ ReportsTyped
  BY IdentityTypes DEF IdentityInv
<1>1. /\ managers[m].at = "insert" /\ ManagerBusy(m) /\ managerOf' = managerOf
      /\ UNCHANGED <<worldVars, agents, agentOf, reports, holders, raced>>
  BY DEF InsertForManager, ManagerBusy
<1>2. managers[m] # NoManager
  BY <1>0, <1>1, BusyIsPresent
<1>3. PICK e0 \in Entries \ {1} : entryIp[e0] = NoIp /\ entryIp' = [entryIp EXCEPT ![e0] = managers[m].ip]
                                  /\ managers' = [managers EXCEPT ![m].at = "link", ![m].entry = e0]
  BY DEF InsertForManager, Insert
<1>4. /\ WorldTyped' /\ AgentsTyped' /\ ManagersTyped' /\ ReportsTyped' /\ Known' /\ RacesAreNoticed' /\ LinkInv'
      /\ managers'[m].host = managers[m].host
      /\ managers'[m].entry = e0 /\ managers'[m].at = "link"
      /\ \A n \in ManagerIds \ {m} : managers'[n] = managers[n]
      /\ managers[m].ip \in Ips /\ managers[m].host \in Hosts /\ managers[m].host \in holders[managers[m].ip]
  <2>1. "link" \in ManagerStages \ {"none"} /\ managers[m].at # "done" /\ e0 \in 0 .. MaxEntries
    BY <1>1, IdentityAssumption DEF ManagerStages, Over, Entries
  <2>2. managerOf' \in [Hosts -> 0 .. MaxManagers] /\ \A h \in Hosts : managerOf'[h] = managerOf[h]
    BY <1>0, <1>1 DEF ManagersTyped
  <2> QED
    BY <1>1, <1>2, <1>3, <2>1, <2>2, ManagerStep
<1>a. entryIp'[e0] = managers[m].ip /\ \A e \in Entries \ {e0} : entryIp'[e] = entryIp[e]
  BY <1>0, <1>3 DEF EntriesTyped
<1>5. AddressInv'
  <2>1. \A r \in Reports : reports[r].at \in {"link", "done"} => reports[r].entry \in Entries /\ reports[r].ip \in Ips
    BY <1>0, BusyIsPresent DEF Known, ReportsTyped, ReportRows
  <2>2. \A r \in Reports : reports[r].at \in {"link", "done"} /\ entryIp[reports[r].entry] = reports[r].ip
                           => entryIp'[reports[r].entry] = entryIp[reports[r].entry]
    BY <1>3, <1>a, <2>1, IdentityAssumption
  <2> QED
    BY <1>0, <1>1, <2>2, AddressStays
<1>6. \A h \in Hosts, e \in Entries : Claims(h, e)' => Claims(h, e) \/ (h = managers[m].host /\ e = e0)
  BY <1>1, <1>4, ManagerClaims
<1>7. Inserting(managers[m].host)
  BY <1>1 DEF Inserting
<1>8. \A h \in Hosts : Inserting(h)' => Inserting(h)
  BY <1>1, <1>4, ManagerClaims
<1>9. Inserting(managers[m].host)' => managers[m].host \in raced
  <2>1. ASSUME NEW r \in Reports, reports'[r].at = "insert", HostOf(r)' = managers'[m].host PROVE managers[m].host \in raced
    <3>1. ReportBusy(r) /\ HostOf(r) = managers[m].host
      BY <1>1, <1>4, <2>1 DEF ReportBusy, Over, HostOf
    <3> QED
      BY <1>0, <1>1, <3>1 DEF RacesAreNoticed
  <2>2. ASSUME NEW n \in ManagerIds, managers'[n].at = "insert", managers'[n].host = managers'[m].host
        PROVE  managers[m].host \in raced
    <3>1. n # m /\ ManagerBusy(n) /\ managers[n].host = managers[m].host
      BY <1>4, <2>2 DEF ManagerBusy
    <3> QED
      BY <1>0, <1>1, <3>1 DEF RacesAreNoticed
  <2> QED
    BY <2>1, <2>2 DEF Inserting
<1>10. holders' = holders /\ raced' = raced
  BY <1>1
<1>11. ClaimInv'
  BY <1>0, <1>3, <1>4, <1>6, <1>10, WrittenRowIsClaimed
<1>12. OneRowInv'
  BY <1>0, <1>3, <1>4, <1>7, <1>8, <1>9, <1>10, InsertKeepsOneRow
<1>13. EntriesTyped'
  BY <1>0, <1>3, <1>4 DEF EntriesTyped
<1> QED
  BY <1>4, <1>5, <1>11, <1>12, <1>13, IdentityTypes DEF IdentityInv

\* A step of a Manager's request after the lookup, and one that ends it.
LEMMA ManagerEndKeeps ==
  ASSUME IdentityInv, NEW m \in ManagerIds, LinkManager(m) \/ ReplyToManager(m) \/ EnrolmentFails(m)
  PROVE  IdentityInv'
<1>0. /\ AddressInv /\ ClaimInv /\ OneRowInv /\ Known
      /\ EntriesTyped /\ ManagersTyped /\ ReportsTyped
  BY IdentityTypes DEF IdentityInv
<1>1. PICK at \in {"reply", "done", "failed"}, e0 \in {managers[m].entry, 0} :
        /\ UNCHANGED <<worldVars, agents, agentOf, reports, holders, raced>> /\ entryIp' = entryIp
        /\ managers[m].at \in {"find", "insert", "link", "reply"}
        /\ at \in {"reply", "done"} => managers[m].at \in {"link", "reply"} /\ e0 = managers[m].entry
        /\ \/ managers' = [managers EXCEPT ![m].at = at, ![m].entry = e0]
           \/ managers' = [managers EXCEPT ![m].at = at] /\ e0 = managers[m].entry
        /\ \/ managerOf' = managerOf
           \/ at = "done" /\ managerOf' = [managerOf EXCEPT ![managers[m].host] = m]
  <2>1. CASE LinkManager(m)
    BY <2>1 DEF LinkManager
  <2>2. CASE ReplyToManager(m)
    BY <2>2 DEF ReplyToManager
  <2>3. CASE EnrolmentFails(m)
    BY <2>3 DEF EnrolmentFails
  <2> QED
    BY <2>1, <2>2, <2>3
<1>2. managers[m] # NoManager /\ managers[m] \in ManagerRows
  BY <1>0, <1>1, BusyIsPresent DEF ManagersTyped, NoManager
<1>3. /\ WorldTyped' /\ AgentsTyped' /\ ManagersTyped' /\ ReportsTyped' /\ Known' /\ RacesAreNoticed' /\ LinkInv'
      /\ managers'[m].host = managers[m].host
      /\ managers'[m].entry = e0 /\ managers'[m].at = at
      /\ \A n \in ManagerIds \ {m} : managers'[n] = managers[n]
  <2>1. at \in ManagerStages \ {"none"} /\ managers[m].at # "done" /\ at \notin {"find", "insert", "link"}
    BY <1>1 DEF ManagerStages, Over
  <2>2. e0 \in 0 .. MaxEntries
    BY <1>1, <1>2, IdentityAssumption DEF ManagerRows
  <2>3. at \in {"link", "reply", "done"} => e0 \in Entries
    BY <1>0, <1>1 DEF Known
  <2>4. managerOf' \in [Hosts -> 0 .. MaxManagers]
    BY <1>0, <1>1, IdentityAssumption DEF ManagersTyped, ManagerIds
  <2>5. \A h \in Hosts : managerOf'[h] = managerOf[h] \/ (h = managers[m].host /\ managerOf'[h] = m /\ at = "done")
    BY <1>0, <1>1 DEF ManagersTyped
  <2> QED
    BY <1>1, <1>2, <2>1, <2>2, <2>3, <2>4, <2>5, ManagerStep
<1>4. AddressInv'
  BY <1>0, <1>1, AddressStays
<1>5. \A h \in Hosts, e \in Entries : Claims(h, e)' => Claims(h, e)
  BY <1>1, <1>3, ManagerClaims
<1>6. \A h \in Hosts : Inserting(h)' => Inserting(h)
  BY <1>1, <1>3, ManagerClaims
<1>7. ClaimInv'
  BY <1>0, <1>1, <1>5, ClaimsAreKept
<1>8. OneRowInv'
  BY <1>0, <1>1, <1>6, OneRowIsKept
<1>9. EntriesTyped'
  BY <1>0, <1>1 DEF EntriesTyped
<1> QED
  BY <1>3, <1>4, <1>7, <1>8, <1>9, IdentityTypes DEF IdentityInv

-----------------------------------------------------------------------------
(* Requests that come in, enrolments and what happens to the computers.    *)

LEMMA BusyHosts ==
  ASSUME NEW h \in Hosts
  PROVE  /\ \A r \in Reports : ReportBusy(r) /\ HostOf(r) = h => Busy(h)
         /\ \A m \in ManagerIds : ManagerBusy(m) /\ managers[m].host = h => Busy(h)
BY DEF Busy, ReportBusy, ManagerBusy

LEMMA StartReportKeeps ==
  ASSUME IdentityInv, NEW r \in Reports, StartReport(r)
  PROVE  IdentityInv'
<1>0. /\ LinkInv /\ AddressInv /\ ClaimInv /\ OneRowInv /\ Known /\ RacesAreNoticed
      /\ WorldTyped /\ EntriesTyped /\ AgentsTyped /\ ManagersTyped /\ ReportsTyped
  BY IdentityTypes DEF IdentityInv
<1>1. /\ reports[r] = NoReport /\ \A q \in 1 .. (r - 1) : reports[q] # NoReport
      /\ agents' = agents /\ entryIp' = entryIp
      /\ UNCHANGED <<worldVars, entryIp, agents, agentOf, managers, managerOf, holders>>
  BY DEF StartReport
<1>2. PICK k \in Hosts, at \in {"update", "find"} :
        /\ agentOf[k] # 0 /\ address[k] # NoIp /\ Races(k)
        /\ at = "update" <=> agents[agentOf[k]].entry # 0
        /\ reports' = [reports EXCEPT ![r] =
             [agent |-> agentOf[k], ip |-> address[k], entry |-> agents[agentOf[k]].entry, at |-> at]]
  BY DEF StartReport
<1>3. /\ agentOf[k] \in AgentIds /\ address[k] \in Ips /\ agents[agentOf[k]] \in AgentRows
      /\ agents[agentOf[k]].host = k /\ k \in holders[address[k]]
  <2>1. agentOf[k] \in AgentIds /\ address[k] \in Ips
    BY <1>0, <1>2, IdentityAssumption DEF AgentsTyped, WorldTyped, AgentIds
  <2>2. agents[agentOf[k]].host = k /\ k \in holders[address[k]]
    BY <1>0, <1>2 DEF Known
  <2>3. agents[agentOf[k]] # NoAgent
    BY <2>2, IdentityAssumption DEF NoAgent
  <2> QED
    BY <1>0, <2>1, <2>2, <2>3 DEF AgentsTyped
<1>4. /\ reports'[r] # NoReport /\ reports'[r].agent = agentOf[k] /\ reports'[r].ip = address[k]
      /\ reports'[r].entry = agents[agentOf[k]].entry /\ reports'[r].at = at
      /\ \A q \in Reports \ {r} : reports'[q] = reports[q]
      /\ ReportsTyped'
  <2> DEFINE new == [agent |-> agentOf[k], ip |-> address[k], entry |-> agents[agentOf[k]].entry, at |-> at]
  <2>1. new \in ReportRows
    BY <1>3 DEF ReportRows, AgentRows, ReportStages
  <2>2. /\ new.agent = agentOf[k] /\ new.ip = address[k]
        /\ new.entry = agents[agentOf[k]].entry /\ new.at = at
    OBVIOUS
  <2>3. reports' = [reports EXCEPT ![r] = new]
    BY <1>2
  <2> HIDE DEF new
  <2> QED
    BY <1>0, <2>1, <2>2, <2>3, RowsArePresent DEF ReportsTyped
<1>h. HostOf(r)' = k /\ \A q \in Reports \ {r} : HostOf(q)' = HostOf(q)
  BY <1>1, <1>3, <1>4 DEF HostOf
<1>5. /\ Busy(k) => k \in raced'
      /\ raced \subseteq raced' /\ raced' \subseteq raced \cup {k}
  BY <1>2 DEF Races
<1>6. WorldTyped' /\ EntriesTyped' /\ AgentsTyped' /\ ManagersTyped'
  BY <1>0, <1>1, <1>5 DEF WorldTyped, EntriesTyped, AgentsTyped, ManagersTyped, worldVars
<1>7. Known'
  <2>1. \A h \in Hosts : address'[h] # NoIp => h \in holders'[address'[h]]
    BY <1>0, <1>1 DEF Known, worldVars
  <2>2. \A h \in Hosts : agentOf'[h] # 0 => agents'[agentOf'[h]].host = h
    BY <1>0, <1>1 DEF Known
  <2>3. \A h \in Hosts : managerOf'[h] # 0 => managers'[managerOf'[h]].host = h /\ managers'[managerOf'[h]].at = "done"
    BY <1>0, <1>1 DEF Known
  <2>4. \A q \in Reports : reports'[q] # NoReport =>
          agents'[reports'[q].agent] # NoAgent /\ HostOf(q)' \in holders'[reports'[q].ip]
    BY <1>0, <1>1, <1>3, <1>4, <1>h, RowsArePresent DEF Known
  <2>5. \A m \in ManagerIds : managers'[m] # NoManager => managers'[m].host \in holders'[managers'[m].ip]
    BY <1>0, <1>1 DEF Known
  <2>6. \A q \in Reports : reports'[q].at \in {"update", "link", "done"} => reports'[q].entry \in Entries
    BY <1>0, <1>2, <1>3, <1>4, IdentityAssumption DEF Known, AgentRows, Entries
  <2>7. \A m \in ManagerIds : managers'[m].at \in {"link", "reply", "done"} => managers'[m].entry \in Entries
    BY <1>0, <1>1 DEF Known
  <2> QED
    BY <2>1, <2>2, <2>3, <2>4, <2>5, <2>6, <2>7 DEF Known
<1>8. RacesAreNoticed'
  <2>1. \A p, q \in Reports : p < q /\ reports'[q] # NoReport => reports'[p] # NoReport
    <3>1. \A p \in Reports : p < r => reports[p] # NoReport
      BY <1>1 DEF Reports
    <3> QED
      BY <1>0, <1>4, <3>1 DEF RacesAreNoticed
  <2>2. ASSUME NEW p \in Reports, NEW q \in Reports, p < q, reports'[q] # NoReport, ReportBusy(p)', HostOf(p)' = HostOf(q)'
        PROVE  HostOf(q)' \in raced'
    <3>1. p # q
      BY <2>2 DEF Reports
    <3>2. CASE q = r
      BY <1>4, <1>5, <1>h, <2>2, <3>1, <3>2, BusyHosts DEF ReportBusy
    <3>3. CASE p = r
      <4>1. reports[q] # NoReport
        BY <1>4, <2>2, <3>1, <3>3
      <4> QED
        BY <1>0, <1>1, <2>2, <3>3, <4>1 DEF RacesAreNoticed
    <3>4. CASE p # r /\ q # r
      BY <1>0, <1>4, <1>5, <1>h, <2>2, <3>4 DEF RacesAreNoticed, ReportBusy
    <3> QED
      BY <3>2, <3>3, <3>4
  <2>3. ASSUME NEW q \in Reports, NEW m \in ManagerIds, ReportBusy(q)', ManagerBusy(m)', HostOf(q)' = managers'[m].host
        PROVE  HostOf(q)' \in raced'
    <3>1. ManagerBusy(m) /\ HostOf(q)' = managers[m].host
      BY <1>1, <2>3 DEF ManagerBusy
    <3>2. CASE q = r
      BY <1>5, <1>h, <3>1, <3>2, BusyHosts
    <3>3. CASE q # r
      BY <1>0, <1>4, <1>5, <1>h, <2>3, <3>1, <3>3 DEF RacesAreNoticed, ReportBusy
    <3> QED
      BY <3>2, <3>3
  <2>4. \A m, n \in ManagerIds :
          m # n /\ ManagerBusy(m)' /\ ManagerBusy(n)' /\ managers'[m].host = managers'[n].host
          => managers'[m].host \in raced'
    BY <1>0, <1>1, <1>5 DEF RacesAreNoticed, ManagerBusy
  <2> QED
    BY <2>1, <2>2, <2>3, <2>4 DEF RacesAreNoticed
<1>9. LinkInv'
  <2>1. ASSUME NEW q \in Reports, reports'[q] # NoReport, HostOf(q)' \notin raced'
        PROVE  /\ reports'[q].at \in {"find", "insert", "link"} => agents'[reports'[q].agent].entry = 0
               /\ reports'[q].at \in {"update", "done"} => agents'[reports'[q].agent].entry = reports'[q].entry
    <3>1. CASE q = r
      BY <1>1, <1>2, <1>4, <3>1
    <3>2. CASE q # r
      BY <1>0, <1>1, <1>4, <1>5, <1>h, <2>1, <3>2 DEF LinkInv
    <3> QED
      BY <3>1, <3>2
  <2> QED
    BY <2>1 DEF LinkInv
<1>10. AddressInv'
  <2>1. reports'[r].at \notin {"link", "done"} /\ reports[r].at # "done"
    BY <1>1, <1>4 DEF NoReport
  <2>2. \A p \in Reports \ {r} : Newest(p)' => Newest(p)
    BY <1>4, <1>h, <2>1, NewestWasNewest
  <2> QED
    BY <1>0, <1>1, <1>4, <1>5, <1>h, <2>1, <2>2 DEF AddressInv
<1>11. \A h \in Hosts, e \in Entries : Claims(h, e)' => Claims(h, e)
  <2> SUFFICES ASSUME NEW h \in Hosts, NEW e \in Entries, Claims(h, e)' PROVE Claims(h, e)
    OBVIOUS
  <2>1. CASE \E q \in Reports : reports'[q].at \in {"update", "link"} /\ reports'[q].entry = e /\ HostOf(q)' = h
    BY <1>3, <1>4, <1>h, <2>1 DEF Claims
  <2>2. CASE ~\E q \in Reports : reports'[q].at \in {"update", "link"} /\ reports'[q].entry = e /\ HostOf(q)' = h
    BY <1>1, <2>2 DEF Claims
  <2> QED
    BY <2>1, <2>2
<1>12. \A h \in Hosts : Inserting(h)' => Inserting(h)
  BY <1>1, <1>4, <1>h DEF Inserting
<1>13. ClaimInv'
  BY <1>0, <1>1, <1>11, ClaimsAreKept
<1>14. OneRowInv'
  BY <1>0, <1>1, <1>5, <1>12, OneRowIsKept
<1> QED
  BY <1>4, <1>6, <1>7, <1>8, <1>9, <1>10, <1>13, <1>14, IdentityTypes DEF IdentityInv

LEMMA EnrollManagerKeeps ==
  ASSUME IdentityInv, NEW m \in ManagerIds, EnrollManager(m)
  PROVE  IdentityInv'
<1>0. /\ LinkInv /\ AddressInv /\ ClaimInv /\ OneRowInv /\ Known /\ RacesAreNoticed
      /\ WorldTyped /\ EntriesTyped /\ AgentsTyped /\ ManagersTyped /\ ReportsTyped
  BY IdentityTypes DEF IdentityInv
<1>1. /\ managers[m] = NoManager /\ agents' = agents /\ reports' = reports
      /\ UNCHANGED <<worldVars, entryIp, agents, agentOf, managerOf, reports, holders>>
  BY DEF EnrollManager
<1>2. PICK k \in Hosts :
        /\ address[k] # NoIp /\ Races(k)
        /\ managers' = [managers EXCEPT ![m] = [host |-> k, entry |-> 0, ip |-> address[k], at |-> "find"]]
  BY DEF EnrollManager
<1>3. address[k] \in Ips /\ k \in holders[address[k]]
  BY <1>0, <1>2 DEF WorldTyped, Known
<1>4. /\ managers'[m] # NoManager /\ managers'[m].host = k /\ managers'[m].ip = address[k]
      /\ managers'[m].at = "find"
      /\ \A n \in ManagerIds \ {m} : managers'[n] = managers[n]
      /\ ManagersTyped'
  <2> DEFINE new == [host |-> k, entry |-> 0, ip |-> address[k], at |-> "find"]
  <2>1. new \in ManagerRows
    BY <1>3, IdentityAssumption DEF ManagerRows, ManagerStages
  <2>2. new.host = k /\ new.ip = address[k] /\ new.at = "find"
    OBVIOUS
  <2>3. managers' = [managers EXCEPT ![m] = new]
    BY <1>2
  <2> HIDE DEF new
  <2> QED
    BY <1>0, <1>1, <2>1, <2>2, <2>3, RowsArePresent DEF ManagersTyped
<1>h. \A r \in Reports : HostOf(r)' = HostOf(r)
  BY <1>1 DEF HostOf
<1>5. /\ Busy(k) => k \in raced'
      /\ raced \subseteq raced' /\ raced' \subseteq raced \cup {k}
  BY <1>2 DEF Races
<1>6. WorldTyped' /\ EntriesTyped' /\ AgentsTyped' /\ ReportsTyped'
  BY <1>0, <1>1, <1>5 DEF WorldTyped, EntriesTyped, AgentsTyped, ReportsTyped, worldVars
<1>7. Known'
  <2>1. \A h \in Hosts : address'[h] # NoIp => h \in holders'[address'[h]]
    BY <1>0, <1>1 DEF Known, worldVars
  <2>2. \A h \in Hosts : agentOf'[h] # 0 => agents'[agentOf'[h]].host = h
    BY <1>0, <1>1 DEF Known
  <2>3. ASSUME NEW h \in Hosts, managerOf'[h] # 0
        PROVE  managers'[managerOf'[h]].host = h /\ managers'[managerOf'[h]].at = "done"
    <3>1. managerOf[h] \in ManagerIds /\ managerOf'[h] = managerOf[h]
      BY <1>0, <1>1, <2>3, IdentityAssumption DEF ManagersTyped, ManagerIds
    <3>2. managers[managerOf[h]].host = h /\ managers[managerOf[h]].at = "done"
      BY <1>0, <2>3, <3>1 DEF Known
    <3>3. managerOf[h] # m
      BY <1>1, <3>2 DEF NoManager
    <3> QED
      BY <1>4, <3>1, <3>2, <3>3
  <2>4. \A q \in Reports : reports'[q] # NoReport =>
          agents'[reports'[q].agent] # NoAgent /\ HostOf(q)' \in holders'[reports'[q].ip]
    BY <1>0, <1>1, <1>h DEF Known
  <2>5. \A n \in ManagerIds : managers'[n] # NoManager => managers'[n].host \in holders'[managers'[n].ip]
    BY <1>0, <1>1, <1>3, <1>4 DEF Known
  <2>6. \A q \in Reports : reports'[q].at \in {"update", "link", "done"} => reports'[q].entry \in Entries
    BY <1>0, <1>1 DEF Known
  <2>7. \A n \in ManagerIds : managers'[n].at \in {"link", "reply", "done"} => managers'[n].entry \in Entries
    BY <1>0, <1>1, <1>4 DEF Known
  <2> QED
    BY <2>1, <2>2, <2>3, <2>4, <2>5, <2>6, <2>7 DEF Known
<1>8. RacesAreNoticed'
  <2>1. \A p, q \in Reports : p < q /\ reports'[q] # NoReport => reports'[p] # NoReport
    BY <1>0, <1>1 DEF RacesAreNoticed
  <2>2. \A p, q \in Reports : p < q /\ reports'[q] # NoReport /\ ReportBusy(p)' /\ HostOf(p)' = HostOf(q)'
                              => HostOf(q)' \in raced'
    BY <1>0, <1>1, <1>5, <1>h DEF RacesAreNoticed, ReportBusy
  <2>3. ASSUME NEW q \in Reports, NEW n \in ManagerIds, ReportBusy(q)', ManagerBusy(n)', HostOf(q)' = managers'[n].host
        PROVE  HostOf(q)' \in raced'
    <3>1. ReportBusy(q)
      BY <1>1, <2>3 DEF ReportBusy
    <3>2. CASE n = m
      BY <1>4, <1>5, <1>h, <2>3, <3>1, <3>2, BusyHosts
    <3>3. CASE n # m
      BY <1>0, <1>4, <1>5, <1>h, <2>3, <3>1, <3>3 DEF RacesAreNoticed, ManagerBusy
    <3> QED
      BY <3>2, <3>3
  <2>4. ASSUME NEW p \in ManagerIds, NEW n \in ManagerIds, p # n, ManagerBusy(p)', ManagerBusy(n)',
               managers'[p].host = managers'[n].host
        PROVE  managers'[p].host \in raced'
    <3>1. CASE p = m
      BY <1>4, <1>5, <2>4, <3>1, BusyHosts DEF ManagerBusy
    <3>2. CASE n = m
      BY <1>4, <1>5, <2>4, <3>2, BusyHosts DEF ManagerBusy
    <3>3. CASE p # m /\ n # m
      BY <1>0, <1>4, <1>5, <2>4, <3>3 DEF RacesAreNoticed, ManagerBusy
    <3> QED
      BY <3>1, <3>2, <3>3
  <2> QED
    BY <2>1, <2>2, <2>3, <2>4 DEF RacesAreNoticed
<1>9. LinkInv'
  BY <1>0, <1>1, <1>5, <1>h DEF LinkInv
<1>10. AddressInv'
  <2>1. \A p \in Reports : Newest(p)' => Newest(p)
    BY <1>1, <1>h, NewestWasNewest
  <2> QED
    BY <1>0, <1>1, <1>5, <1>h, <2>1 DEF AddressInv
<1>11. \A h \in Hosts, e \in Entries : Claims(h, e)' => Claims(h, e)
  BY <1>1, <1>4, <1>h DEF Claims
<1>12. \A h \in Hosts : Inserting(h)' => Inserting(h)
  BY <1>1, <1>4, <1>h DEF Inserting
<1>13. ClaimInv'
  BY <1>0, <1>1, <1>11, ClaimsAreKept
<1>14. OneRowInv'
  BY <1>0, <1>1, <1>5, <1>12, OneRowIsKept
<1> QED
  BY <1>4, <1>6, <1>7, <1>8, <1>9, <1>10, <1>13, <1>14, IdentityTypes DEF IdentityInv

\* Steps that take no part in the requests: the invariants about them stay.
LEMMA RequestsStay ==
  ASSUME IdentityInv, UNCHANGED <<entryIp, managers, reports, raced>>,
         \A ip \in Ips : holders[ip] \subseteq holders'[ip],
         \A a \in AgentIds : agents'[a] = agents[a] \/ (agents[a] = NoAgent /\ agents'[a].entry = 0)
  PROVE  /\ EntriesTyped' /\ ReportsTyped'
         /\ RacesAreNoticed' /\ LinkInv' /\ AddressInv' /\ ClaimInv' /\ OneRowInv'
         /\ \A r \in Reports : reports[r] # NoReport => agents'[reports[r].agent] = agents[reports[r].agent]
<1>0. /\ LinkInv /\ AddressInv /\ ClaimInv /\ OneRowInv /\ Known /\ RacesAreNoticed
      /\ WorldTyped /\ EntriesTyped /\ AgentsTyped /\ ManagersTyped /\ ReportsTyped
  BY IdentityTypes DEF IdentityInv
<1>1. \A r \in Reports : reports[r] # NoReport => agents'[reports[r].agent] = agents[reports[r].agent]
  BY <1>0 DEF Known, ReportsTyped, ReportRows
<1>2. \A r \in Reports : reports[r] # NoReport => HostOf(r)' = HostOf(r)
  BY <1>1 DEF HostOf
<1>3. \A r \in Reports : reports[r].at # "none" => reports[r] # NoReport /\ HostOf(r)' = HostOf(r)
  BY <1>0, <1>2, BusyIsPresent
<1>4. EntriesTyped' /\ ReportsTyped'
  BY <1>0 DEF EntriesTyped, ReportsTyped
<1>5. Frame
  BY <1>2 DEF Frame, ReportBusy, ManagerBusy
<1>6. RacesAreNoticed'
  BY <1>0, <1>5, FrameKeepsRaces
<1>7. LinkInv'
  BY <1>0, <1>1, <1>2 DEF LinkInv
<1>8. AddressInv'
  <2>1. \A p \in Reports : reports'[p].at \in {"link", "done"} /\ Newest(p)' => Newest(p)
    BY <1>3, NewestWasNewest
  <2> QED
    BY <1>0, <1>3, <2>1 DEF AddressInv
<1>9. \A h \in Hosts, e \in Entries : Claims(h, e)' => Claims(h, e)
  <2> SUFFICES ASSUME NEW h \in Hosts, NEW e \in Entries, Claims(h, e)' PROVE Claims(h, e)
    OBVIOUS
  <2>1. ASSUME NEW a \in AgentIds, agents'[a].host = h /\ agents'[a].entry = e PROVE Claims(h, e)
    <3>1. e # 0
      BY DEF Entries
    <3> QED
      BY <2>1, <3>1 DEF Claims
  <2>2. ASSUME NEW r \in Reports, reports'[r].at \in {"update", "link"}, reports'[r].entry = e, HostOf(r)' = h
        PROVE  Claims(h, e)
    BY <1>3, <2>2 DEF Claims
  <2>3. ASSUME NEW m \in ManagerIds, managers'[m].at \in {"link", "reply", "done"}, managers'[m].entry = e,
               managers'[m].host = h
        PROVE  Claims(h, e)
    BY <2>3 DEF Claims
  <2> QED
    BY <2>1, <2>2, <2>3 DEF Claims
<1>10. \A h \in Hosts : Inserting(h)' => Inserting(h)
  BY <1>3 DEF Inserting
<1>11. ClaimInv'
  BY <1>0, <1>9, ClaimsAreKept
<1>12. OneRowInv'
  BY <1>0, <1>10, OneRowIsKept
<1> QED
  BY <1>1, <1>4, <1>6, <1>7, <1>8, <1>11, <1>12

LEMMA EnrollAgentKeeps ==
  ASSUME IdentityInv, NEW h \in Hosts, EnrollAgent(h)
  PROVE  IdentityInv'
<1>0. /\ Known /\ WorldTyped /\ AgentsTyped /\ ManagersTyped
  BY IdentityTypes DEF IdentityInv
<1>1. UNCHANGED <<worldVars, entryIp, managers, managerOf, reports, holders, raced>>
  BY DEF EnrollAgent
<1>2. PICK a \in AgentIds :
        /\ agents[a] = NoAgent /\ agents' = [agents EXCEPT ![a] = [host |-> h, entry |-> 0]]
        /\ agentOf' \in {agentOf, [agentOf EXCEPT ![h] = a]}
  BY DEF EnrollAgent
<1>3. /\ agents'[a].host = h /\ agents'[a].entry = 0 /\ agents'[a] # NoAgent
      /\ \A b \in AgentIds \ {a} : agents'[b] = agents[b]
      /\ agents' \in [AgentIds -> AgentRows \cup {NoAgent}]
  <2> DEFINE new == [host |-> h, entry |-> 0]
  <2>1. new \in AgentRows /\ new.host = h /\ new.entry = 0
    BY IdentityAssumption DEF AgentRows
  <2>2. agents' = [agents EXCEPT ![a] = new]
    BY <1>2
  <2> HIDE DEF new
  <2> QED
    BY <1>0, <2>1, <2>2, RowsArePresent DEF AgentsTyped
<1>4. agentOf' \in [Hosts -> 0 .. MaxAgents]
      /\ \A k \in Hosts : agentOf'[k] = agentOf[k] \/ (k = h /\ agentOf'[k] = a)
  <2>1. a \in 0 .. MaxAgents
    BY IdentityAssumption DEF AgentIds
  <2>2. CASE agentOf' = agentOf
    BY <1>0, <2>2 DEF AgentsTyped
  <2>3. CASE agentOf' = [agentOf EXCEPT ![h] = a]
    BY <1>0, <2>1, <2>3 DEF AgentsTyped
  <2> QED
    BY <1>2, <2>2, <2>3
<1>5. /\ EntriesTyped' /\ ReportsTyped'
      /\ RacesAreNoticed' /\ LinkInv' /\ AddressInv' /\ ClaimInv' /\ OneRowInv'
      /\ \A r \in Reports : reports[r] # NoReport => agents'[reports[r].agent] = agents[reports[r].agent]
  BY <1>1, <1>2, <1>3, RequestsStay
<1>6. WorldTyped' /\ AgentsTyped' /\ ManagersTyped'
  BY <1>0, <1>1, <1>3, <1>4 DEF WorldTyped, AgentsTyped, ManagersTyped, worldVars
<1>7. Known'
  <2>1. \A k \in Hosts : address'[k] # NoIp => k \in holders'[address'[k]]
    BY <1>0, <1>1 DEF Known, worldVars
  <2>2. ASSUME NEW k \in Hosts, agentOf'[k] # 0 PROVE agents'[agentOf'[k]].host = k
    <3>1. CASE k = h /\ agentOf'[k] = a
      BY <1>3, <3>1
    <3>2. CASE agentOf'[k] = agentOf[k]
      <4>1. agentOf[k] \in AgentIds /\ agents[agentOf[k]].host = k
        BY <1>0, <2>2, <3>2, IdentityAssumption DEF Known, AgentsTyped, AgentIds
      <4>2. agentOf[k] # a
        BY <1>2, <4>1, IdentityAssumption DEF NoAgent
      <4> QED
        BY <1>3, <3>2, <4>1, <4>2
    <3> QED
      BY <1>4, <3>1, <3>2
  <2>3. \A k \in Hosts : managerOf'[k] # 0 => managers'[managerOf'[k]].host = k /\ managers'[managerOf'[k]].at = "done"
    BY <1>0, <1>1 DEF Known
  <2>4. \A q \in Reports : reports'[q] # NoReport =>
          agents'[reports'[q].agent] # NoAgent /\ HostOf(q)' \in holders'[reports'[q].ip]
    BY <1>0, <1>1, <1>5 DEF Known, HostOf
  <2>5. \A n \in ManagerIds : managers'[n] # NoManager => managers'[n].host \in holders'[managers'[n].ip]
    BY <1>0, <1>1 DEF Known
  <2>6. \A q \in Reports : reports'[q].at \in {"update", "link", "done"} => reports'[q].entry \in Entries
    BY <1>0, <1>1 DEF Known
  <2>7. \A n \in ManagerIds : managers'[n].at \in {"link", "reply", "done"} => managers'[n].entry \in Entries
    BY <1>0, <1>1 DEF Known
  <2> QED
    BY <2>1, <2>2, <2>3, <2>4, <2>5, <2>6, <2>7 DEF Known
<1> QED
  BY <1>5, <1>6, <1>7, IdentityTypes DEF IdentityInv

LEMMA WorldStepKeeps ==
  ASSUME IdentityInv, NEW h \in Hosts, Move(h) \/ LoseState(h)
  PROVE  IdentityInv'
<1>0. /\ Known /\ WorldTyped /\ AgentsTyped /\ ManagersTyped /\ ReportsTyped
  BY IdentityTypes DEF IdentityInv
<1>1. UNCHANGED <<entryIp, agents, managers, reports, raced>> /\ moves < MaxMoves /\ moves' = moves + 1
  BY DEF Move, LoseState
<1>2. /\ address' \in [Hosts -> Ips \cup {NoIp}] /\ holders' \in [Ips -> SUBSET Hosts]
      /\ \A ip \in Ips : holders[ip] \subseteq holders'[ip]
      /\ \A k \in Hosts : address'[k] # NoIp => k \in holders'[address'[k]]
      /\ agentOf' \in [Hosts -> 0 .. MaxAgents] /\ \A k \in Hosts : agentOf'[k] \in {0, agentOf[k]}
      /\ managerOf' \in [Hosts -> 0 .. MaxManagers] /\ \A k \in Hosts : managerOf'[k] \in {0, managerOf[k]}
  <2>1. CASE Move(h)
    <3>1. PICK ip \in Ips \cup {NoIp} :
            /\ address' = [address EXCEPT ![h] = ip]
            /\ holders' = IF ip = NoIp THEN holders ELSE [holders EXCEPT ![ip] = @ \cup {h}]
      BY <2>1 DEF Move
    <3>2. agentOf' = agentOf /\ managerOf' = managerOf
      BY <2>1 DEF Move
    <3>3. CASE ip = NoIp
      BY <1>0, <3>1, <3>2, <3>3 DEF WorldTyped, AgentsTyped, ManagersTyped, Known
    <3>4. CASE ip \in Ips /\ ip # NoIp
      <4>1. holders' = [holders EXCEPT ![ip] = @ \cup {h}]
        BY <3>1, <3>4
      <4>2. holders' \in [Ips -> SUBSET Hosts] /\ h \in holders'[ip] /\ \A i \in Ips : holders[i] \subseteq holders'[i]
        BY <1>0, <3>4, <4>1 DEF WorldTyped
      <4>3. address' \in [Hosts -> Ips \cup {NoIp}] /\ address'[h] = ip /\ \A k \in Hosts \ {h} : address'[k] = address[k]
        BY <1>0, <3>1 DEF WorldTyped
      <4>4. \A k \in Hosts \ {h} : address'[k] # NoIp => k \in holders'[address'[k]]
        BY <1>0, <4>2, <4>3 DEF Known, WorldTyped
      <4> QED
        BY <1>0, <3>2, <4>2, <4>3, <4>4 DEF AgentsTyped, ManagersTyped
    <3> QED
      BY <3>3, <3>4
  <2>2. CASE LoseState(h)
    <3>1. agentOf' = [agentOf EXCEPT ![h] = 0] /\ managerOf' = [managerOf EXCEPT ![h] = 0]
          /\ address' = address /\ holders' = holders
      BY <2>2 DEF LoseState
    <3> QED
      BY <1>0, <3>1, IdentityAssumption DEF WorldTyped, AgentsTyped, ManagersTyped, Known
  <2> QED
    BY <2>1, <2>2
<1>3. /\ EntriesTyped' /\ ReportsTyped'
      /\ RacesAreNoticed' /\ LinkInv' /\ AddressInv' /\ ClaimInv' /\ OneRowInv'
  BY <1>1, <1>2, RequestsStay
<1>4. WorldTyped' /\ AgentsTyped' /\ ManagersTyped'
  BY <1>0, <1>1, <1>2, IdentityAssumption DEF WorldTyped, AgentsTyped, ManagersTyped
<1>5. Known'
  <2>1. \A k \in Hosts : address'[k] # NoIp => k \in holders'[address'[k]]
    BY <1>2
  <2>2. \A k \in Hosts : agentOf'[k] # 0 => agents'[agentOf'[k]].host = k
    BY <1>0, <1>1, <1>2 DEF Known
  <2>3. \A k \in Hosts : managerOf'[k] # 0 => managers'[managerOf'[k]].host = k /\ managers'[managerOf'[k]].at = "done"
    BY <1>0, <1>1, <1>2 DEF Known
  <2>4. \A q \in Reports : reports'[q] # NoReport =>
          agents'[reports'[q].agent] # NoAgent /\ HostOf(q)' \in holders'[reports'[q].ip]
    BY <1>0, <1>1, <1>2 DEF Known, HostOf, ReportsTyped, ReportRows
  <2>5. \A n \in ManagerIds : managers'[n] # NoManager => managers'[n].host \in holders'[managers'[n].ip]
    BY <1>0, <1>1, <1>2 DEF Known, ManagersTyped, ManagerRows
  <2>6. \A q \in Reports : reports'[q].at \in {"update", "link", "done"} => reports'[q].entry \in Entries
    BY <1>0, <1>1 DEF Known
  <2>7. \A n \in ManagerIds : managers'[n].at \in {"link", "reply", "done"} => managers'[n].entry \in Entries
    BY <1>0, <1>1 DEF Known
  <2> QED
    BY <2>1, <2>2, <2>3, <2>4, <2>5, <2>6, <2>7 DEF Known
<1> QED
  BY <1>3, <1>4, <1>5, IdentityTypes DEF IdentityInv

-----------------------------------------------------------------------------
(* The invariant holds, and with it the properties.                        *)

LEMMA IdentityInvInit == IdentityInit => IdentityInv
<1> SUFFICES ASSUME IdentityInit PROVE IdentityInv
  OBVIOUS
<1>1. /\ address \in [Hosts -> Ips \cup {NoIp}] /\ moves = 0 /\ raced = {}
      /\ \A h, k \in Hosts : address[h] = address[k] => h = k \/ address[h] = NoIp
      /\ agents = [a \in AgentIds |-> NoAgent] /\ agentOf = [h \in Hosts |-> 0]
      /\ managers = [m \in ManagerIds |-> NoManager] /\ managerOf = [h \in Hosts |-> 0]
      /\ reports = [r \in Reports |-> NoReport]
      /\ holders = [ip \in Ips |-> {h \in Hosts : address[h] = ip}]
  BY DEF IdentityInit
<1>2. EntriesTyped /\ \A e \in Entries : e # 1 => entryIp[e] = NoIp
  BY DEF IdentityInit, EntriesTyped
<1>3. /\ \A a \in AgentIds : agents[a] = NoAgent
      /\ \A m \in ManagerIds : managers[m] = NoManager /\ managers[m].at = "none"
      /\ \A r \in Reports : reports[r] = NoReport /\ reports[r].at = "none"
  BY <1>1 DEF NoManager, NoReport
<1>4. WorldTyped /\ AgentsTyped /\ ManagersTyped /\ ReportsTyped
  BY <1>1, IdentityAssumption DEF WorldTyped, AgentsTyped, ManagersTyped, ReportsTyped
<1>5. Known
  BY <1>1, <1>3 DEF Known
<1>6. RacesAreNoticed /\ LinkInv /\ AddressInv
  BY <1>3 DEF RacesAreNoticed, LinkInv, AddressInv, ReportBusy, ManagerBusy, Over
<1>7. \A h \in Hosts, e \in Entries : ~Claims(h, e)
  BY <1>3 DEF Claims, NoAgent, Entries
<1>8. ClaimInv
  BY <1>7 DEF ClaimInv
<1>9. OneRowInv
  <2>1. \A ip \in Ips : \A d, e \in Rows(ip) : d = e
    BY <1>2, IdentityAssumption DEF Rows
  <2> QED
    BY <1>3, <2>1 DEF OneRowInv
<1> QED
  BY <1>2, <1>4, <1>5, <1>6, <1>8, <1>9, IdentityTypes DEF IdentityInv

LEMMA IdentityInvNext == IdentityInv /\ [IdentityNext]_identityVars => IdentityInv'
<1> SUFFICES ASSUME IdentityInv, [IdentityNext]_identityVars PROVE IdentityInv'
  OBVIOUS
<1>1. ASSUME NEW h \in Hosts, Move(h) \/ LoseState(h) \/ EnrollAgent(h) PROVE IdentityInv'
  BY <1>1, WorldStepKeeps, EnrollAgentKeeps
<1>2. ASSUME NEW r \in Reports, StartReport(r) \/ UpdateEntry(r) \/ FindEntry(r) \/ InsertEntry(r)
                                \/ LinkAgent(r) \/ ReportFails(r)
      PROVE  IdentityInv'
  BY <1>2, StartReportKeeps, UpdateEntryKeeps, FindEntryKeeps, InsertEntryKeeps, LinkAgentKeeps, ReportFailsKeeps
<1>3. ASSUME NEW m \in ManagerIds, EnrollManager(m) \/ FindForManager(m) \/ InsertForManager(m) \/ LinkManager(m)
                                   \/ ReplyToManager(m) \/ EnrolmentFails(m)
      PROVE  IdentityInv'
  BY <1>3, EnrollManagerKeeps, FindForManagerKeeps, InsertForManagerKeeps, ManagerEndKeeps
<1>4. CASE UNCHANGED identityVars
  <2>1. /\ address' = address /\ moves' = moves /\ entryIp' = entryIp /\ agents' = agents /\ agentOf' = agentOf
        /\ managers' = managers /\ managerOf' = managerOf /\ reports' = reports /\ holders' = holders /\ raced' = raced
    BY <1>4 DEF identityVars, worldVars
  <2>2. /\ EntriesTyped' /\ ReportsTyped'
        /\ RacesAreNoticed' /\ LinkInv' /\ AddressInv' /\ ClaimInv' /\ OneRowInv'
    BY <2>1, RequestsStay
  <2>3. WorldTyped' /\ AgentsTyped' /\ ManagersTyped' /\ Known'
    BY <2>1, IdentityTypes DEF IdentityInv, WorldTyped, AgentsTyped, ManagersTyped, Known, HostOf
  <2> QED
    BY <2>2, <2>3, IdentityTypes DEF IdentityInv
<1> QED
  BY <1>1, <1>2, <1>3, <1>4 DEF IdentityNext, ReportNext, ManagerNext

LEMMA TwoHolders ==
  ASSUME NEW S, IsFiniteSet(S), NEW h \in S, NEW k \in S, h # k
  PROVE  Cardinality(S) > 1
<1>1. IsFiniteSet({h}) /\ Cardinality({h}) = 1
  BY FS_Singleton
<1>2. IsFiniteSet({h} \cup {k}) /\ Cardinality({h} \cup {k}) = 2
  <2>1. k \notin {h}
    OBVIOUS
  <2> DEFINE H == {h}
  <2>2. IsFiniteSet(H) /\ Cardinality(H) = 1 /\ k \notin H
    BY <1>1, <2>1
  <2> HIDE DEF H
  <2>3. IsFiniteSet(H \cup {k}) /\ Cardinality(H \cup {k}) = Cardinality(H) + 1
    BY <2>2, FS_AddElement
  <2>4. Cardinality(H \cup {k}) = 2
    BY <2>2, <2>3
  <2> QED
    BY <2>3, <2>4 DEF H
<1>3. {h} \cup {k} \subseteq S
  OBVIOUS
<1>4. Cardinality({h} \cup {k}) <= Cardinality(S)
  BY <1>3, FS_Subset
<1>5. Cardinality(S) \in Nat
  BY FS_CardinalityType
<1> QED
  BY <1>2, <1>4, <1>5

LEMMA RowsFromInvariant ==
  ASSUME IdentityInv
  PROVE  RowsAreTheComputers
<1>0. /\ LinkInv /\ AddressInv /\ ClaimInv /\ OneRowInv /\ Known
      /\ WorldTyped /\ EntriesTyped /\ AgentsTyped /\ ManagersTyped /\ ReportsTyped
  BY IdentityTypes DEF IdentityInv
<1>1. EntryFollowsAddress
  <2> SUFFICES ASSUME NEW r \in Reports, reports[r].at = "done", HostOf(r) \notin raced, Newest(r)
               PROVE  /\ agents[reports[r].agent].entry = reports[r].entry
                      /\ entryIp[reports[r].entry] = reports[r].ip
    BY DEF EntryFollowsAddress, Newest
  <2>1. reports[r] # NoReport
    BY <1>0, BusyIsPresent
  <2> QED
    BY <1>0, <2>1 DEF LinkInv, AddressInv
<1>2. ASSUME NEW a \in AgentIds, NEW b \in AgentIds,
             agents[a].entry # 0, agents[a].entry = agents[b].entry, agents[a].host # agents[b].host
      PROVE  \E ip \in Ips : Cardinality(holders[ip]) > 1
  <2> DEFINE h == agents[a].host
             k == agents[b].host
             e == agents[a].entry
  <2>1. h \in Hosts /\ k \in Hosts /\ e \in Entries
    <3>1. agents[a] \in AgentRows /\ agents[b] \in AgentRows
      BY <1>0, <1>2 DEF AgentsTyped, NoAgent
    <3> QED
      BY <1>2, <3>1, IdentityAssumption DEF AgentRows, Entries
  <2>2. Claims(h, e) /\ Claims(k, e)
    BY <1>2 DEF Claims
  <2>3. CASE Single
    <3> HIDE DEF h, k, e
    <3>1. h \in holders[entryIp[e]] /\ k \in holders[entryIp[e]] /\ entryIp[e] \in Ips
      BY <1>0, <2>1, <2>2, <2>3 DEF ClaimInv, EntriesTyped
    <3>2. h = k
      BY <2>3, <3>1 DEF Single
    <3> QED
      BY <1>2, <3>2 DEF h, k
  <2>4. CASE ~Single
    <3>1. PICK ip \in Ips : \E x, y \in holders[ip] : x # y
      BY <2>4 DEF Single
    <3>2. holders[ip] \subseteq Hosts
      BY <1>0 DEF WorldTyped
    <3>3. IsFiniteSet(holders[ip])
      BY <3>2, FS_Subset, IdentityAssumption
    <3> QED
      BY <3>1, <3>3, TwoHolders
  <2> QED
    BY <2>3, <2>4
<1>3. ASSUME NEW h \in Hosts \ raced, NEW ip \in Ips,
             holders[ip] = {h}, \A other \in Ips \ {ip} : h \notin holders[other],
             agentOf[h] # 0, agents[agentOf[h]].entry # 0, managerOf[h] # 0
      PROVE  managers[managerOf[h]].entry = agents[agentOf[h]].entry
  <2> DEFINE a == agentOf[h]
             m == managerOf[h]
             d == agents[a].entry
             e == managers[m].entry
  <2>1. a \in AgentIds /\ m \in ManagerIds /\ agents[a].host = h /\ managers[m].host = h /\ managers[m].at = "done"
    BY <1>0, <1>3, IdentityAssumption DEF Known, AgentsTyped, ManagersTyped, AgentIds, ManagerIds
  <2>2. d \in Entries /\ e \in Entries
    <3>1. agents[a] \in AgentRows
      BY <1>0, <1>3, <2>1 DEF AgentsTyped, NoAgent
    <3> QED
      BY <1>0, <1>3, <2>1, <3>1, IdentityAssumption DEF Known, AgentRows, Entries
  <2>3. Claims(h, d) /\ Claims(h, e) /\ Stays(h, ip)
    BY <1>3, <2>1 DEF Claims, Stays
  <2> HIDE DEF a, m, d, e
  <2>4. entryIp[d] = ip /\ entryIp[e] = ip
    BY <1>0, <2>2, <2>3 DEF ClaimInv
  <2>5. d = e
    BY <1>0, <2>2, <2>3, <2>4 DEF OneRowInv, Rows
  <2> QED
    BY <2>5 DEF a, m, d, e
<1>4. EntryIdentifiesComputer
  BY <1>2, <1>3 DEF EntryIdentifiesComputer
<1> QED
  BY <1>1, <1>4 DEF RowsAreTheComputers

\* Whatever the addresses do and whichever requests fail: the newest inventory of a computer has left
\* its address in the row of its agent, two computers share a row only after sharing an address,
\* and the agent and the Manager of one are linked to one row (resolveIpEntryId,
\* resolveManagerIpEntryId).
THEOREM RowsStayTheComputers == IdentitySpec => []RowsAreTheComputers
<1>1. IdentityInit => IdentityInv
  BY IdentityInvInit
<1>2. IdentityInv /\ [IdentityNext]_identityVars => IdentityInv'
  BY IdentityInvNext
<1>3. IdentityInv => RowsAreTheComputers
  BY RowsFromInvariant
<1> QED
  BY <1>1, <1>2, <1>3, PTL DEF IdentitySpec

LEMMA LinkStepKeeps ==
  ASSUME IdentityInv, [IdentityNext]_identityVars, NEW a \in AgentIds,
         agents[a].entry # 0, agents'[a].entry # agents[a].entry
  PROVE  agents[a].host \in raced
<1>0. Known /\ AgentsTyped
  BY IdentityTypes DEF IdentityInv
<1>1. ASSUME NEW h \in Hosts, EnrollAgent(h) PROVE FALSE
  <2>1. PICK b \in AgentIds : agents[b] = NoAgent /\ agents' = [agents EXCEPT ![b] = [host |-> h, entry |-> 0]]
    BY <1>1 DEF EnrollAgent
  <2>2. a # b
    BY <2>1 DEF NoAgent
  <2> QED
    BY <1>0, <2>1, <2>2 DEF AgentsTyped
<1>2. ASSUME NEW r \in Reports, LinkAgent(r) PROVE agents[a].host \in raced
  BY <1>2, LinkAgentKeeps DEF HostOf
<1>3. ASSUME NEW h \in Hosts, Move(h) \/ LoseState(h) PROVE FALSE
  BY <1>3 DEF Move, LoseState
<1>4. ASSUME NEW r \in Reports, StartReport(r) \/ UpdateEntry(r) \/ FindEntry(r) \/ InsertEntry(r) \/ ReportFails(r)
      PROVE  FALSE
  BY <1>4 DEF StartReport, UpdateEntry, FindEntry, InsertEntry, ReportFails
<1>5. ASSUME NEW m \in ManagerIds, EnrollManager(m) \/ FindForManager(m) \/ InsertForManager(m) \/ LinkManager(m)
                                   \/ ReplyToManager(m) \/ EnrolmentFails(m)
      PROVE  FALSE
  BY <1>5 DEF EnrollManager, FindForManager, InsertForManager, LinkManager, ReplyToManager, EnrolmentFails
<1>6. CASE UNCHANGED identityVars
  BY <1>6 DEF identityVars
<1> QED
  BY <1>1, <1>2, <1>3, <1>4, <1>5, <1>6 DEF IdentityNext, ReportNext, ManagerNext

\* An agent that has a row keeps it, unless two requests of its computer ran at once (resolveIpEntryId).
THEOREM LinksAreKept == IdentitySpec => LinkIsKept
<1>1. IdentityInit => IdentityInv
  BY IdentityInvInit
<1>2. IdentityInv /\ [IdentityNext]_identityVars => IdentityInv'
  BY IdentityInvNext
<1>3. IdentityInv /\ [IdentityNext]_identityVars =>
        [\A a \in AgentIds : agents[a].entry # 0 /\ agents'[a].entry # agents[a].entry
                               => agents[a].host \in raced]_identityVars
  BY LinkStepKeeps
<1> QED
  BY <1>1, <1>2, <1>3, PTL DEF IdentitySpec, LinkIsKept

-----------------------------------------------------------------------------
(* The three parts of what agents send, of which one moves.                *)

DataInv == IInv /\ IdentityInv /\ SyncInv

LEMMA DataStarts == MCInit => DataInv
  BY InitIInv, IdentityInvInit, SyncInitInv DEF MCInit, DataInv

LEMMA DataGoesOn == DataInv /\ [MCNext]_<<part, vars, identityVars, syncVars>> => DataInv'
<1> SUFFICES ASSUME DataInv, [MCNext]_<<part, vars, identityVars, syncVars>> PROVE DataInv'
  OBVIOUS
<1>1. [Next]_vars /\ [IdentityNext]_identityVars /\ [SyncNext]_syncVars
  BY DEF MCNext
<1>2. IInv'
  BY <1>1, NextTypeOK, NextEventInv, NextExemptInv, CountsGoOn DEF DataInv, IInv, EventInv
<1>3. IdentityInv' /\ SyncInv'
  BY <1>1, IdentityInvNext, SyncInvNext DEF DataInv
<1> QED
  BY <1>2, <1>3 DEF DataInv

\* Whichever part moves, what the agent and the server keep is of its type, for any bounds.
THEOREM DataIsTyped == MCSpec => []TypesOK
<1>1. DataInv => TypesOK
  BY DEF DataInv, IInv, IdentityInv, SyncInv, TypesOK
<1> QED
  BY DataStarts, DataGoesOn, <1>1, PTL DEF MCSpec
=============================================================================
