----------------------------- MODULE VncSessions -----------------------------
(***************************************************************************)
(* One remote-control session: its row in vnc_sessions, the in-memory      *)
(* entries of the two WebSocket servers (vncRelay for the RFB bytes,       *)
(* webrtcSignaling for the WebRTC handshake), the administrator's page and *)
(* the processes on the controlled machine (WebRtcBridge, and one          *)
(* VncBridge per start_vnc_bridge job).                                    *)
(*                                                                         *)
(* Each SQL statement and each WebSocket event is one step.  A socket the  *)
(* server closes is "closing" until its close event arrives.  Whether and  *)
(* when the agent takes a job is the business of AgentJobs.                *)
(***************************************************************************)
EXTENDS Naturals, FiniteSets

CONSTANTS
  MaxBridges,   \* bound: start_vnc_bridge jobs, one VncBridge each
  MaxFallbacks, \* bound: calls of triggerFallback
  None

Bridges == 1 .. MaxBridges

ASSUME VncAssumption == MaxBridges \in Nat /\ None \notin Bridges /\ MaxFallbacks \in Nat

\* Who can report that WebRTC failed: the job result (no interactive session),
\* the bridge process, the same process again while it closes its peer
\* connection, and the browser.
Reporters == {"jobResult", "agent", "agentClosing", "viewer"}

VARIABLES
  row,       \* vnc_sessions: [status, type]
  starting,  \* progress of startVncSessionService, in the end the type it returns
  page,      \* what the administrator's page shows
  bridge,    \* each start_vnc_bridge job, then its VncBridge and socket
  viewer,    \* the page's socket to vncRelay
  relay,     \* sessions.get(id) of vncRelay: [present, agent, viewer]
  rtc,       \* the start_webrtc_bridge job, then the WebRtcBridge process
  rtcSocket, \* its signaling socket
  pageSocket,\* the page's signaling socket
  sig,       \* sessions.get(id) of webrtcSignaling: [present, agent, viewer]
  fallback,  \* progress of triggerFallback for each reporter
  marking,   \* bridges whose markVncSessionActive is in flight
  ending,    \* an endVncSessionService of closeSession is in flight
  restarted, \* the backend has restarted (history)
  dbFailed   \* a statement whose error is swallowed has failed (history)

serverVars == <<row, starting, relay, sig, fallback, marking, ending>>
relayVars == <<row, starting, relay, bridge, viewer, marking, ending>>
signalVars == <<rtc, rtcSocket, pageSocket, sig, fallback>>
history == <<restarted, dbFailed>>
vars == <<row, starting, page, bridge, viewer, relay, rtc, rtcSocket, pageSocket, sig,
          fallback, marking, ending, restarted, dbFailed>>

SocketStates == {"none", "open", "closing", "closed"}
NoRelay == [present |-> FALSE, agent |-> None, viewer |-> FALSE]
NoSignaling == [present |-> FALSE, agent |-> FALSE, viewer |-> FALSE]

TypeOK ==
  /\ row \in [status : {"none", "pending", "active", "ended"}, type : {"webrtc", "rfb"}]
  /\ starting \in {"no", "inserted", "queued", "webrtc", "rfb", "failed"}
  /\ page \in {"waiting", "webrtc", "rfb", "gone"}
  /\ bridge \in [Bridges -> {"none", "queued", "connecting", "open", "closing", "closed"}]
  /\ viewer \in SocketStates
  /\ relay \in [present : BOOLEAN, agent : Bridges \cup {None}, viewer : BOOLEAN]
  /\ rtc \in {"none", "queued", "running", "stopping", "gone"}
  /\ rtcSocket \in SocketStates
  /\ pageSocket \in SocketStates
  /\ sig \in [present : BOOLEAN, agent : BOOLEAN, viewer : BOOLEAN]
  /\ fallback \in [Reporters -> {"none", "called", "marked", "returned", "done"}]
  /\ marking \subseteq Bridges
  /\ ending \in BOOLEAN
  /\ restarted \in BOOLEAN
  /\ dbFailed \in BOOLEAN

Init ==
  /\ row = [status |-> "none", type |-> "rfb"]
  /\ starting = "no"
  /\ page = "waiting"
  /\ bridge = [b \in Bridges |-> "none"]
  /\ viewer = "none"
  /\ relay = NoRelay
  /\ rtc = "none"
  /\ rtcSocket = "none"
  /\ pageSocket = "none"
  /\ sig = NoSignaling
  /\ fallback = [r \in Reporters |-> "none"]
  /\ marking = {}
  /\ ending = FALSE
  /\ restarted = FALSE
  /\ dbFailed = FALSE

-----------------------------------------------------------------------------
\* Bound: one fault of a session, a restart or a failed statement.
NoFaultYet == ~restarted /\ ~dbFailed

(* Starting and stopping a session.                                        *)

\* insertJob with start_vnc_bridge: the jobs are numbered in order.
QueueBridge ==
  \E b \in Bridges :
    /\ bridge[b] = "none" /\ \A c \in 1 .. b - 1 : bridge[c] # "none"
    /\ bridge' = [bridge EXCEPT ![b] = "queued"]

\* startVncSessionService: the settings and the agent's reported tier decide
\* the type once; then the row is inserted.
StartSession ==
  /\ starting = "no"
  /\ starting' = "inserted"
  /\ \E t \in {"webrtc", "rfb"} : row' = [status |-> "pending", type |-> t]
  /\ UNCHANGED <<page, bridge, viewer, relay, signalVars, marking, ending, history>>

\* The job of the chosen type; when its INSERT fails, so does the request.
StartJob ==
  /\ starting = "inserted"
  /\ \/ /\ starting' = "queued"
        /\ row.type = "rfb"
        /\ QueueBridge
        /\ UNCHANGED <<rtc, page, dbFailed>>
     \/ /\ starting' = "queued"
        /\ row.type = "webrtc"
        /\ rtc' = "queued"
        /\ UNCHANGED <<bridge, page, dbFailed>>
     \/ /\ NoFaultYet
        /\ starting' = "failed"
        /\ page' = "gone"
        /\ dbFailed' = TRUE
        /\ UNCHANGED <<bridge, rtc>>
  /\ UNCHANGED <<row, viewer, relay, rtcSocket, pageSocket, sig, fallback, marking, ending,
                 restarted>>

\* findVncSessionById: the reply carries the type the row has by now.
StartRead ==
  /\ starting = "queued"
  /\ starting' = row.type
  /\ UNCHANGED <<row, page, bridge, viewer, relay, signalVars, marking, ending, history>>

\* The page has the reply and shows the session by its type.
PageOpens ==
  /\ starting \in {"webrtc", "rfb"}
  /\ page = "waiting"
  /\ page' = starting
  /\ UNCHANGED <<relayVars, signalVars, history>>

\* Mutants: no status condition; the two parameters of the UPDATE exchanged.
SetStatusUnguarded(to, type) == row' = [status |-> to, type |-> type]
SetStatusExchanged(to, type) ==
  row' = IF row.status = "ended" THEN row ELSE [status |-> type, type |-> to]

\* UPDATE vnc_sessions ... WHERE id = ? AND status != 'ended'.
UnlessEnded(to, type) ==
  row' = IF row.status = "ended" THEN row ELSE [status |-> to, type |-> type]

\* POST /vnc/stop: endVncSessionService changes the row and nothing else.
StopRequest ==
  /\ page \in {"webrtc", "rfb"}
  /\ UnlessEnded("ended", row.type)
  /\ UNCHANGED <<starting, page, bridge, viewer, relay, signalVars, marking, ending, history>>

\* The page is left or reloaded; its sockets close after that.
LeavePage ==
  /\ page \in {"waiting", "webrtc", "rfb"}
  /\ page' = "gone"
  /\ UNCHANGED <<relayVars, signalVars, history>>

-----------------------------------------------------------------------------
(* vncRelay.                                                               *)

\* getOrCreateSession and the assignment of the new socket.
JoinRelay(agent, isViewer) ==
  relay' = [present |-> TRUE,
            agent |-> IF agent = None THEN relay.agent ELSE agent,
            viewer |-> relay.viewer \/ isViewer]

\* The close event of a socket (of bridge b, or of the viewer; of neither for
\* the timer), whichever entry the session has by now: closeSession removes the
\* entry, closes its two sockets and starts to end the row.
CloseRelay(closed, isViewer) ==
  /\ relay' = NoRelay
  /\ ending' = (ending \/ relay.present)
  /\ bridge' = [b \in Bridges |->
                  IF b = closed THEN "closed"
                  ELSE IF b = relay.agent /\ bridge[b] = "open" THEN "closing"
                  ELSE bridge[b]]
  /\ viewer' = IF isViewer THEN "closed"
               ELSE IF relay.viewer /\ viewer = "open" THEN "closing"
               ELSE viewer

\* The page dials the relay.  The handshake looks at the token and the row's
\* existence, not at its status.
ViewerConnects ==
  /\ page = "rfb"
  /\ viewer = "none"
  /\ viewer' = "open"
  /\ JoinRelay(None, TRUE)
  /\ UNCHANGED <<row, starting, page, bridge, signalVars, marking, ending, history>>

\* The agent takes the job; VncBridge may not reach the local VNC server.
TakeBridgeJob(b) ==
  /\ bridge[b] = "queued"
  /\ \E s \in {"connecting", "closed"} : bridge' = [bridge EXCEPT ![b] = s]
  /\ UNCHANGED <<serverVars, page, viewer, rtc, rtcSocket, pageSocket, history>>

\* Its socket takes the place of the one the entry may already have; the row
\* is marked active by a statement nobody waits for.
BridgeConnects(b) ==
  /\ bridge[b] = "connecting"
  /\ bridge' = [bridge EXCEPT ![b] = "open"]
  /\ JoinRelay(b, FALSE)
  /\ marking' = marking \cup {b}
  /\ UNCHANGED <<row, starting, page, viewer, signalVars, ending, history>>

BridgeRefused(b) ==
  /\ bridge[b] = "connecting"
  /\ bridge' = [bridge EXCEPT ![b] = "closed"]
  /\ UNCHANGED <<serverVars, page, viewer, rtc, rtcSocket, pageSocket, history>>

\* Mutant: markVncSessionActive without its status condition.
MarkActiveUnguarded(b) ==
  /\ b \in marking
  /\ marking' = marking \ {b}
  /\ row' = [row EXCEPT !.status = "active"]
  /\ UNCHANGED <<starting, page, bridge, viewer, relay, signalVars, ending, history>>

\* UPDATE ... SET status = 'active' WHERE id = ? AND status = 'pending'.
MarkActive(b) ==
  /\ b \in marking
  /\ marking' = marking \ {b}
  /\ row' = IF row.status = "pending" THEN [row EXCEPT !.status = "active"] ELSE row
  /\ UNCHANGED <<starting, page, bridge, viewer, relay, signalVars, ending, history>>

\* Close and error events, on the client's or the server's initiative.
BridgeCloses(b) ==
  /\ bridge[b] \in {"open", "closing"}
  /\ CloseRelay(b, FALSE)
  /\ UNCHANGED <<row, starting, page, signalVars, marking, history>>

ViewerCloses ==
  /\ viewer \in {"open", "closing"}
  /\ page' = IF page = "rfb" THEN "gone" ELSE page
  /\ CloseRelay(None, TRUE)
  /\ UNCHANGED <<row, starting, signalVars, marking, history>>

\* The timer of MAX_SESSION_MS.
RelayTimeout ==
  /\ relay.present
  /\ CloseRelay(None, FALSE)
  /\ UNCHANGED <<row, starting, page, signalVars, marking, history>>

\* Mutant: the end is written only over a session still pending.
EndWritePending ==
  /\ ending
  /\ ending' = FALSE
  /\ row' = IF row.status = "pending" THEN [row EXCEPT !.status = "ended"] ELSE row
  /\ UNCHANGED <<starting, page, bridge, viewer, relay, signalVars, marking, history>>

\* markVncSessionEnded of closeSession; an error is logged.
EndWrite ==
  /\ ending
  /\ ending' = FALSE
  /\ \/ UnlessEnded("ended", row.type) /\ UNCHANGED dbFailed
     \/ NoFaultYet /\ dbFailed' = TRUE /\ UNCHANGED row
  /\ UNCHANGED <<starting, page, bridge, viewer, relay, signalVars, marking, restarted>>

-----------------------------------------------------------------------------
(* webrtcSignaling.                                                        *)

\* The close event of the page's or the bridge process's socket (None for the
\* timer): closeSession drops the entry and closes its two sockets.  The page
\* has no handler for the end of its socket; the process stops.
CloseSignaling(s) ==
  /\ sig' = NoSignaling
  /\ pageSocket' = IF s = "page" THEN "closed"
                   ELSE IF sig.viewer /\ pageSocket = "open" THEN "closing"
                   ELSE pageSocket
  /\ rtcSocket' = IF s = "rtc" THEN "closed"
                  ELSE IF sig.agent /\ rtcSocket = "open" THEN "closing"
                  ELSE rtcSocket
  /\ rtc' = IF s = "rtc" /\ rtc = "running" THEN "stopping" ELSE rtc

PageSignals ==
  /\ page = "webrtc"
  /\ pageSocket = "none"
  /\ pageSocket' = "open"
  /\ sig' = [sig EXCEPT !.present = TRUE, !.viewer = TRUE]
  /\ UNCHANGED <<relayVars, page, rtc, rtcSocket, fallback, history>>

\* The page hangs up after a fallback or when it is left, the connection
\* breaks, or the server closed it.
PageSocketCloses ==
  /\ pageSocket \in {"open", "closing"}
  /\ CloseSignaling("page")
  /\ UNCHANGED <<relayVars, page, fallback, history>>

RtcSocketCloses ==
  /\ rtcSocket \in {"open", "closing"}
  /\ CloseSignaling("rtc")
  /\ UNCHANGED <<relayVars, page, fallback, history>>

\* A reporter calls triggerFallback; the message may as well be lost.
Call(r) == /\ fallback[r] = "none"
           /\ Cardinality({q \in Reporters : fallback[q] # "none"}) < MaxFallbacks
           /\ fallback' = [fallback EXCEPT ![r] = "called"]

\* The agent takes the start_webrtc_bridge job.  Without an interactive
\* session the failed result calls triggerFallback, if it arrives.
RtcLaunch ==
  /\ rtc = "queued"
  /\ \/ rtc' = "running" /\ UNCHANGED fallback
     \/ rtc' = "gone" /\ Call("jobResult")
     \/ rtc' = "gone" /\ UNCHANGED fallback
  /\ UNCHANGED <<relayVars, page, rtcSocket, pageSocket, sig, history>>

\* The process connects; if it cannot, it ends without telling anyone.
RtcSignals ==
  /\ rtc = "running"
  /\ rtcSocket = "none"
  /\ \/ /\ rtcSocket' = "open"
        /\ sig' = [sig EXCEPT !.present = TRUE, !.agent = TRUE]
        /\ UNCHANGED rtc
     \/ /\ rtc' = "gone"
        /\ UNCHANGED <<rtcSocket, sig>>
  /\ UNCHANGED <<relayVars, page, pageSocket, fallback, history>>

\* Capture, encoder or ICE failed: "failed" (not when the offer fails), then
\* the process stops.
RtcFails ==
  /\ rtc = "running"
  /\ rtcSocket \in {"open", "closing"}
  /\ rtc' = "stopping"
  /\ Call("agent") \/ UNCHANGED fallback
  /\ UNCHANGED <<relayVars, page, rtcSocket, pageSocket, sig, history>>

\* Disposing the session closes the peer connection, whose state "closed" is
\* reported like a failure while the socket is alive; the socket closes next.
RtcExits ==
  /\ rtc = "stopping"
  /\ rtc' = "gone"
  /\ \/ rtcSocket \in {"open", "closing"} /\ Call("agentClosing")
     \/ UNCHANGED fallback
  /\ UNCHANGED <<relayVars, page, rtcSocket, pageSocket, sig, history>>

\* The browser's peer connection failed.
PageFails ==
  /\ page = "webrtc"
  /\ pageSocket \in {"open", "closing"}
  /\ Call("viewer")
  /\ UNCHANGED <<relayVars, page, rtc, rtcSocket, pageSocket, sig, history>>

SignalingTimeout ==
  /\ sig.present
  /\ CloseSignaling(None)
  /\ UNCHANGED <<relayVars, page, fallback, history>>

-----------------------------------------------------------------------------
(* triggerFallback.                                                        *)

\* Mutant: the viewer is told before the database has changed.
FallbackMarkEarly(r) ==
  /\ fallback[r] = "called"
  /\ fallback' = [fallback EXCEPT ![r] = "returned"]
  /\ UNCHANGED <<relayVars, page, rtc, rtcSocket, pageSocket, sig, history>>

\* markVncSessionFallbackToRfb.
FallbackMark(r) ==
  /\ fallback[r] = "called"
  /\ fallback' = [fallback EXCEPT ![r] = "marked"]
  /\ UnlessEnded("pending", "rfb")
  /\ UNCHANGED <<starting, page, bridge, viewer, relay, rtc, rtcSocket, pageSocket, sig,
                 marking, ending, history>>

\* insertJob, whatever the UPDATE affected.
FallbackJob(r) ==
  /\ fallback[r] = "marked"
  /\ fallback' = [fallback EXCEPT ![r] = "returned"]
  /\ QueueBridge
  /\ UNCHANGED <<row, starting, page, viewer, relay, rtc, rtcSocket, pageSocket, sig,
                 marking, ending, history>>

\* A statement fails and .catch(() => {}) swallows it.
FallbackError(r) ==
  /\ NoFaultYet
  /\ fallback[r] \in {"called", "marked"}
  /\ fallback' = [fallback EXCEPT ![r] = "returned"]
  /\ dbFailed' = TRUE
  /\ UNCHANGED <<relayVars, page, rtc, rtcSocket, pageSocket, sig, restarted>>

\* "fallback" to the page and "stop" to the process, if they are connected.
\* The page turns to RFB at once; the process starts to stop.
FallbackNotify(r) ==
  /\ fallback[r] = "returned"
  /\ fallback' = [fallback EXCEPT ![r] = "done"]
  /\ page' = IF sig.viewer /\ pageSocket = "open" /\ page = "webrtc" THEN "rfb" ELSE page
  /\ rtc' = IF sig.agent /\ rtcSocket = "open" /\ rtc = "running" THEN "stopping" ELSE rtc
  /\ UNCHANGED <<relayVars, rtcSocket, pageSocket, sig, history>>

\* The backend stops: sockets break, entries and handlers are gone.
BackendRestart ==
  /\ NoFaultYet
  /\ starting # "no"
  /\ restarted' = TRUE
  /\ starting' = IF starting \in {"inserted", "queued"} THEN "failed" ELSE starting
  /\ page' = IF \/ page = "waiting" /\ starting \in {"inserted", "queued"}
                \/ page = "rfb" /\ viewer \in {"open", "closing"}
             THEN "gone"
             ELSE page
  /\ bridge' = [b \in Bridges |-> IF bridge[b] \in {"open", "closing"} THEN "closed" ELSE bridge[b]]
  /\ viewer' = IF viewer \in {"open", "closing"} THEN "closed" ELSE viewer
  /\ relay' = NoRelay
  /\ rtcSocket' = IF rtcSocket \in {"open", "closing"} THEN "closed" ELSE rtcSocket
  /\ rtc' = IF rtcSocket \in {"open", "closing"} /\ rtc = "running" THEN "stopping" ELSE rtc
  /\ pageSocket' = IF pageSocket \in {"open", "closing"} THEN "closed" ELSE pageSocket
  /\ sig' = NoSignaling
  /\ fallback' = [r \in Reporters |-> IF fallback[r] = "none" THEN "none" ELSE "done"]
  /\ marking' = {}
  /\ ending' = FALSE
  /\ UNCHANGED <<row, dbFailed>>

-----------------------------------------------------------------------------
SessionNext ==
  \/ StartSession \/ StartJob \/ StartRead \/ PageOpens \/ StopRequest \/ LeavePage

RelayNext ==
  \/ ViewerConnects \/ ViewerCloses \/ RelayTimeout \/ EndWrite
  \/ \E b \in Bridges : \/ TakeBridgeJob(b) \/ BridgeConnects(b) \/ BridgeRefused(b)
                        \/ MarkActive(b) \/ BridgeCloses(b)

SignalingNext ==
  \/ PageSignals \/ PageSocketCloses \/ RtcSocketCloses \/ PageFails \/ SignalingTimeout
  \/ RtcLaunch \/ RtcSignals \/ RtcFails \/ RtcExits
  \/ \E r \in Reporters : \/ FallbackMark(r) \/ FallbackJob(r) \/ FallbackError(r)
                          \/ FallbackNotify(r)

Next == SessionNext \/ RelayNext \/ SignalingNext \/ BackendRestart

\* The session's timer fires and a statement that was sent is executed.
Fairness == WF_vars(RelayTimeout \/ EndWrite)

Spec == Init /\ [][Next]_vars /\ Fairness

-----------------------------------------------------------------------------
(* What the session guarantees.                                            *)

\* A session that has ended never comes back: not by a bridge that connects
\* late, not by a fallback that was under way.
EndedStaysEnded == [][row.status = "ended" => row'.status = "ended"]_vars

\* A row says active only while the relay has an entry for it or its end is
\* being written; a restart or a failed statement is the only other way.
ActiveHasRelay ==
  row.status = "active" => relay.present \/ ending \/ restarted \/ dbFailed

\* A page that shows WebRTC dials RFB only when the row says so (or the session
\* is over) and a start_vnc_bridge job exists, unless a swallowed error
\* prevented them: the race the comment of triggerFallback wants to avoid.
RedialAfterJob ==
  [][page = "webrtc" /\ page' = "rfb" =>
       \/ /\ row.type = "rfb" \/ row.status = "ended"
          /\ \E b \in Bridges : bridge[b] # "none"
       \/ dbFailed]_vars

\* Every relayed session ends, in the database too, if only by the timer.
RelayedSessionEnds ==
  relay.present ~> row.status = "ended" \/ restarted \/ dbFailed

\* webrtcSignaling.js says of the fallback that "the database switches to RFB
\* ONCE" and that it is "harmless to call it twice for the same sessionId": the
\* session never has two VNC bridges streaming at the same time.
SecondFallbackIsHarmless ==
  Cardinality({b \in Bridges : bridge[b] = "open"}) <= 1
=============================================================================
