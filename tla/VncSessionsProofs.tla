-------------------------- MODULE VncSessionsProofs --------------------------
(***************************************************************************)
(* Proofs about the remote-control sessions, for every number of bridge    *)
(* jobs and calls of triggerFallback.  That relayed sessions end is        *)
(* liveness and left to the model checker.                                 *)
(***************************************************************************)
EXTENDS VncSessions, TLAPS

-----------------------------------------------------------------------------
(* Remote-control sessions.                                                *)

\* Before its start a session has no row, no socket, no job and no statement in flight.
NothingBeforeStart ==
  starting = "no" =>
    /\ row.status = "none" /\ page \in {"waiting", "gone"}
    /\ \A b \in Bridges : bridge[b] = "none"
    /\ viewer = "none" /\ ~relay.present /\ marking = {} /\ ~ending
    /\ rtc = "none" /\ rtcSocket = "none" /\ pageSocket = "none" /\ ~sig.present
    /\ \A r \in Reporters : fallback[r] = "none"

\* After it there is a row, which no statement removes.
RowAfterStart == starting # "no" => row.status # "none"

\* A row that is active, or about to be, has an entry in the relay or an end on its way.
ActiveEnds ==
  row.status = "active" \/ marking # {} =>
    relay.present \/ ending \/ restarted \/ dbFailed \/ row.status = "ended"

RowIsRfb == row.type = "rfb" \/ row.status = "ended"
BridgeQueued == \E b \in Bridges : bridge[b] # "none"

\* A reporter that has marked the row has found it, and one that has returned has queued a bridge too.
FallbacksInOrder ==
  \A r \in Reporters :
    /\ fallback[r] = "marked" => RowIsRfb
    /\ fallback[r] = "returned" => dbFailed \/ (RowIsRfb /\ BridgeQueued)

SessionsInv ==
  /\ TypeOK
  /\ NothingBeforeStart
  /\ RowAfterStart
  /\ ActiveEnds
  /\ FallbacksInOrder

RowType == [status : {"none", "pending", "active", "ended"}, type : {"webrtc", "rfb"}]
BridgeStates == {"none", "queued", "connecting", "open", "closing", "closed"}

-----------------------------------------------------------------------------
(* What the helpers do.                                                    *)

LEMMA UnlessEndedRow ==
  ASSUME TypeOK, NEW to \in {"pending", "ended"}, NEW type \in {"webrtc", "rfb"}, UnlessEnded(to, type)
  PROVE  /\ row' \in RowType
         /\ row.status = "ended" => row' = row
         /\ row.status # "ended" => row'.status = to /\ row'.type = type
BY DEF TypeOK, RowType, UnlessEnded

LEMMA QueueBridgeQueues ==
  ASSUME TypeOK, QueueBridge
  PROVE  bridge' \in [Bridges -> BridgeStates] /\ BridgeQueued'
<1>1. PICK b \in Bridges : bridge' = [bridge EXCEPT ![b] = "queued"]
  BY DEF QueueBridge
<1>2. bridge'[b] = "queued"
  BY <1>1 DEF TypeOK
<1> QED
  BY <1>1, <1>2 DEF TypeOK, BridgeStates, BridgeQueued

LEMMA CloseRelayCloses ==
  ASSUME TypeOK, NEW closed, NEW isViewer \in BOOLEAN, CloseRelay(closed, isViewer)
  PROVE  /\ relay' \in [present : BOOLEAN, agent : Bridges \cup {None}, viewer : BOOLEAN]
         /\ ~relay'.present /\ ending' \in BOOLEAN
         /\ relay.present \/ ending => ending'
         /\ bridge' \in [Bridges -> BridgeStates]
         /\ \A b \in Bridges : bridge[b] # "none" => bridge'[b] # "none"
         /\ viewer' \in SocketStates
<1> USE DEF CloseRelay, TypeOK
<1>1. relay' \in [present : BOOLEAN, agent : Bridges \cup {None}, viewer : BOOLEAN] /\ ~relay'.present
  BY DEF NoRelay
<1>2. ending' \in BOOLEAN /\ (relay.present \/ ending => ending')
  BY Zenon
<1>3. bridge' \in [Bridges -> BridgeStates]
  BY DEF BridgeStates
<1>4. \A b \in Bridges : bridge[b] # "none" => bridge'[b] # "none"
  OBVIOUS
<1>5. viewer' \in SocketStates
  BY DEF SocketStates
<1> QED
  BY <1>1, <1>2, <1>3, <1>4, <1>5

LEMMA SessionsInitInv == Init => SessionsInv
<1> SUFFICES ASSUME Init PROVE SessionsInv
  OBVIOUS
<1> USE DEF Init, NoRelay, NoSignaling
<1>1. TypeOK
  BY DEF TypeOK, SocketStates
<1> QED
  BY <1>1 DEF SessionsInv, NothingBeforeStart, RowAfterStart, ActiveEnds, FallbacksInOrder

-----------------------------------------------------------------------------
(* Types.                                                                  *)

LEMMA SessionNextTyped == TypeOK /\ SessionNext => TypeOK'
<1> SUFFICES ASSUME TypeOK, SessionNext PROVE TypeOK'
  OBVIOUS
<1> USE DEF TypeOK, signalVars, relayVars, history
<1>1. CASE StartSession
  <2>1. row' \in RowType
    BY <1>1 DEF StartSession, RowType
  <2> QED
    BY <1>1, <2>1 DEF StartSession, RowType
<1>2. CASE StartJob
  <2>1. bridge' \in [Bridges -> BridgeStates]
    BY <1>2, QueueBridgeQueues DEF StartJob, BridgeStates
  <2>2. /\ starting' \in {"queued", "failed"} /\ page' \in {"waiting", "webrtc", "rfb", "gone"}
        /\ rtc' \in {"none", "queued", "running", "stopping", "gone"} /\ dbFailed' \in BOOLEAN
    BY <1>2 DEF StartJob
  <2>3. UNCHANGED <<row, viewer, relay, rtcSocket, pageSocket, sig, fallback, marking, ending,
                    restarted>>
    BY <1>2 DEF StartJob
  <2> QED
    BY <2>1, <2>2, <2>3 DEF BridgeStates
<1>3. CASE StartRead
  BY <1>3 DEF StartRead
<1>4. CASE PageOpens
  BY <1>4 DEF PageOpens
<1>5. CASE StopRequest
  <2>1. row' \in RowType
    BY <1>5, UnlessEndedRow DEF StopRequest
  <2> QED
    BY <1>5, <2>1 DEF StopRequest, RowType
<1>6. CASE LeavePage
  BY <1>6 DEF LeavePage
<1> QED
  BY <1>1, <1>2, <1>3, <1>4, <1>5, <1>6 DEF SessionNext

LEMMA CloseRelayTyped ==
  ASSUME TypeOK, NEW s \in Bridges \cup {None}, NEW v \in BOOLEAN, CloseRelay(s, v),
         page' \in {page, "gone"}, UNCHANGED <<row, starting, signalVars, marking, history>>
  PROVE  TypeOK'
<1>1. /\ relay' \in [present : BOOLEAN, agent : Bridges \cup {None}, viewer : BOOLEAN]
      /\ ending' \in BOOLEAN /\ bridge' \in [Bridges -> BridgeStates] /\ viewer' \in SocketStates
  BY CloseRelayCloses
<1> QED
  BY <1>1 DEF TypeOK, signalVars, history, BridgeStates

LEMMA RelayNextTyped == TypeOK /\ RelayNext => TypeOK'
<1> SUFFICES ASSUME TypeOK, RelayNext PROVE TypeOK'
  OBVIOUS
<1> USE DEF TypeOK, signalVars, serverVars, history
<1>1. CASE ViewerConnects
  <2>1. relay' \in [present : BOOLEAN, agent : Bridges \cup {None}, viewer : BOOLEAN]
    BY <1>1 DEF ViewerConnects, JoinRelay
  <2> QED
    BY <1>1, <2>1 DEF ViewerConnects, SocketStates
<1>2. CASE ViewerCloses
  <2>1. PICK s \in Bridges \cup {None}, v \in BOOLEAN : CloseRelay(s, v)
    BY <1>2 DEF ViewerCloses
  <2>2. page' \in {page, "gone"} /\ UNCHANGED <<row, starting, signalVars, marking, history>>
    BY <1>2 DEF ViewerCloses
  <2> QED
    BY <2>1, <2>2, CloseRelayTyped
<1>3. CASE RelayTimeout
  <2>1. PICK s \in Bridges \cup {None}, v \in BOOLEAN : CloseRelay(s, v)
    BY <1>3 DEF RelayTimeout
  <2>2. page' = page /\ UNCHANGED <<row, starting, signalVars, marking, history>>
    BY <1>3 DEF RelayTimeout
  <2> QED
    BY <2>1, <2>2, CloseRelayTyped
<1>4. CASE EndWrite
  <2>1. row' \in RowType
    BY <1>4, UnlessEndedRow DEF EndWrite, RowType
  <2>2. /\ ending' \in BOOLEAN /\ dbFailed' \in BOOLEAN
        /\ UNCHANGED <<starting, page, bridge, viewer, relay, signalVars, marking, restarted>>
    BY <1>4 DEF EndWrite
  <2> QED
    BY <2>1, <2>2 DEF RowType
<1>5. ASSUME NEW b \in Bridges, TakeBridgeJob(b) PROVE TypeOK'
  BY <1>5 DEF TakeBridgeJob
<1>6. ASSUME NEW b \in Bridges, BridgeConnects(b) PROVE TypeOK'
  <2>1. relay' \in [present : BOOLEAN, agent : Bridges \cup {None}, viewer : BOOLEAN]
    BY <1>6 DEF BridgeConnects, JoinRelay
  <2> QED
    BY <1>6, <2>1 DEF BridgeConnects
<1>7. ASSUME NEW b \in Bridges, BridgeRefused(b) PROVE TypeOK'
  BY <1>7 DEF BridgeRefused
<1>8. ASSUME NEW b \in Bridges, MarkActive(b) PROVE TypeOK'
  <2>1. row' \in RowType
    BY <1>8 DEF MarkActive, RowType
  <2> QED
    BY <1>8, <2>1 DEF MarkActive, RowType
<1>9. ASSUME NEW b \in Bridges, BridgeCloses(b) PROVE TypeOK'
  <2>1. PICK s \in Bridges \cup {None}, v \in BOOLEAN : CloseRelay(s, v)
    BY <1>9 DEF BridgeCloses
  <2>2. page' = page /\ UNCHANGED <<row, starting, signalVars, marking, history>>
    BY <1>9 DEF BridgeCloses
  <2> QED
    BY <2>1, <2>2, CloseRelayTyped
<1> QED
  BY <1>1, <1>2, <1>3, <1>4, <1>5, <1>6, <1>7, <1>8, <1>9 DEF RelayNext

LEMMA CloseSignalingTyped ==
  ASSUME TypeOK, NEW s, CloseSignaling(s)
  PROVE  /\ sig' \in [present : BOOLEAN, agent : BOOLEAN, viewer : BOOLEAN]
         /\ pageSocket' \in SocketStates /\ rtcSocket' \in SocketStates
         /\ rtc' \in {"none", "queued", "running", "stopping", "gone"}
         /\ rtc = "none" => rtc' = "none"
BY DEF TypeOK, CloseSignaling, NoSignaling, SocketStates

LEMMA CallCalls ==
  ASSUME TypeOK, NEW r \in Reporters, Call(r)
  PROVE  fallback' \in [Reporters -> {"none", "called", "marked", "returned", "done"}]
         /\ \A q \in Reporters : fallback'[q] \in {fallback[q], "called"}
BY DEF TypeOK, Call

LEMMA ReporterNames == {"jobResult", "agent", "agentClosing", "viewer"} \subseteq Reporters
BY DEF Reporters

LEMMA SignalingNextTyped == TypeOK /\ SignalingNext => TypeOK'
<1> SUFFICES ASSUME TypeOK, SignalingNext PROVE TypeOK'
  OBVIOUS
<1> USE ReporterNames DEF TypeOK, relayVars, history
<1>1. CASE PageSignals
  <2>1. sig' \in [present : BOOLEAN, agent : BOOLEAN, viewer : BOOLEAN]
    BY <1>1 DEF PageSignals
  <2> QED
    BY <1>1, <2>1 DEF PageSignals, SocketStates
<1>2. CASE PageSocketCloses
  BY <1>2, CloseSignalingTyped DEF PageSocketCloses
<1>3. CASE RtcSocketCloses
  BY <1>3, CloseSignalingTyped DEF RtcSocketCloses
<1>4. CASE PageFails
  BY <1>4, CallCalls DEF PageFails
<1>5. CASE SignalingTimeout
  BY <1>5, CloseSignalingTyped DEF SignalingTimeout
<1>6. CASE RtcLaunch
  BY <1>6, CallCalls DEF RtcLaunch
<1>7. CASE RtcSignals
  <2>1. sig' \in [present : BOOLEAN, agent : BOOLEAN, viewer : BOOLEAN]
    BY <1>7 DEF RtcSignals
  <2> QED
    BY <1>7, <2>1 DEF RtcSignals, SocketStates
<1>8. CASE RtcFails
  BY <1>8, CallCalls DEF RtcFails
<1>9. CASE RtcExits
  BY <1>9, CallCalls DEF RtcExits
<1>10. ASSUME NEW r \in Reporters, FallbackMark(r) PROVE TypeOK'
  <2>1. row' \in RowType
    BY <1>10, UnlessEndedRow DEF FallbackMark
  <2> QED
    BY <1>10, <2>1 DEF FallbackMark, RowType
<1>11. ASSUME NEW r \in Reporters, FallbackJob(r) PROVE TypeOK'
  <2>1. bridge' \in [Bridges -> BridgeStates]
    BY <1>11, QueueBridgeQueues DEF FallbackJob
  <2> QED
    BY <1>11, <2>1 DEF FallbackJob, BridgeStates
<1>12. ASSUME NEW r \in Reporters, FallbackError(r) PROVE TypeOK'
  BY <1>12 DEF FallbackError
<1>13. ASSUME NEW r \in Reporters, FallbackNotify(r) PROVE TypeOK'
  BY <1>13 DEF FallbackNotify
<1> QED
  BY <1>1, <1>2, <1>3, <1>4, <1>5, <1>6, <1>7, <1>8, <1>9, <1>10, <1>11, <1>12, <1>13 DEF SignalingNext

LEMMA RestartTyped == TypeOK /\ BackendRestart => TypeOK'
<1> SUFFICES ASSUME TypeOK, BackendRestart PROVE TypeOK'
  OBVIOUS
<1> USE DEF TypeOK, BackendRestart
<1>1. bridge' \in [Bridges -> BridgeStates]
  BY DEF BridgeStates
<1>2. fallback' \in [Reporters -> {"none", "called", "marked", "returned", "done"}]
  OBVIOUS
<1>3. /\ viewer' \in SocketStates /\ rtcSocket' \in SocketStates /\ pageSocket' \in SocketStates
      /\ relay' \in [present : BOOLEAN, agent : Bridges \cup {None}, viewer : BOOLEAN]
      /\ sig' \in [present : BOOLEAN, agent : BOOLEAN, viewer : BOOLEAN]
  BY DEF SocketStates, NoRelay, NoSignaling
<1>4. /\ starting' \in {"no", "inserted", "queued", "webrtc", "rfb", "failed"}
      /\ page' \in {"waiting", "webrtc", "rfb", "gone"}
      /\ rtc' \in {"none", "queued", "running", "stopping", "gone"}
      /\ marking' = {} /\ ending' = FALSE /\ restarted' = TRUE /\ UNCHANGED <<row, dbFailed>>
  OBVIOUS
<1> QED
  BY <1>1, <1>2, <1>3, <1>4 DEF BridgeStates

\* Every row, socket, bridge, process and fallback is in one of its states.
THEOREM SessionsAreTyped == Spec => []TypeOK
<1>1. Init => TypeOK
  BY SessionsInitInv DEF SessionsInv
<1>2. TypeOK /\ [Next]_vars => TypeOK'
  <2>1. TypeOK /\ UNCHANGED vars => TypeOK'
    BY DEF TypeOK, vars
  <2> QED
    BY <2>1, SessionNextTyped, RelayNextTyped, SignalingNextTyped, RestartTyped DEF Next
<1> QED
  BY <1>1, <1>2, PTL DEF Spec

-----------------------------------------------------------------------------
(* Before the start.                                                       *)

LEMMA BeforeStartNext == SessionsInv /\ [Next]_vars => NothingBeforeStart' /\ RowAfterStart'
<1> SUFFICES ASSUME SessionsInv, [Next]_vars PROVE NothingBeforeStart' /\ RowAfterStart'
  OBVIOUS
<1>0. TypeOK /\ NothingBeforeStart /\ RowAfterStart
  BY DEF SessionsInv
<1>1. CASE starting = "no"
  <2> USE <1>0, <1>1 DEF NothingBeforeStart, RowAfterStart
  <2>1. CASE UNCHANGED vars
    BY <2>1 DEF vars
  <2>2. CASE StartSession
    BY <2>2 DEF StartSession
  <2>3. CASE LeavePage
    BY <2>3 DEF LeavePage, relayVars, signalVars
  <2>4. ~StartJob /\ ~StartRead /\ ~PageOpens /\ ~StopRequest /\ ~BackendRestart
    BY DEF StartJob, StartRead, PageOpens, StopRequest, BackendRestart
  <2>5. ~RelayNext
    BY DEF RelayNext, ViewerConnects, ViewerCloses, RelayTimeout, EndWrite, TakeBridgeJob,
           BridgeConnects, BridgeRefused, MarkActive, BridgeCloses
  <2>6. ~SignalingNext
    BY DEF SignalingNext, PageSignals, PageSocketCloses, RtcSocketCloses, PageFails, SignalingTimeout,
           RtcLaunch, RtcSignals, RtcFails, RtcExits, FallbackMark, FallbackJob, FallbackError,
           FallbackNotify, TypeOK
  <2> QED
    BY <2>1, <2>2, <2>3, <2>4, <2>5, <2>6 DEF Next, SessionNext
<1>2. CASE starting # "no"
  <2>1. starting' # "no"
    BY <1>2 DEF Next, SessionNext, RelayNext, SignalingNext, vars, StartSession, StartJob, StartRead,
      PageOpens, StopRequest, LeavePage, relayVars, serverVars, ViewerConnects, ViewerCloses,
      RelayTimeout, EndWrite, TakeBridgeJob, BridgeConnects, BridgeRefused, MarkActive, BridgeCloses,
      PageSignals, PageSocketCloses, RtcSocketCloses, PageFails, SignalingTimeout, RtcLaunch,
      RtcSignals, RtcFails, RtcExits, FallbackMark, FallbackJob, FallbackError, FallbackNotify,
      BackendRestart, SessionsInv, TypeOK, RowAfterStart
  <2>2. row.status # "none"
    BY <1>0, <1>2 DEF RowAfterStart
  <2>3. row' = row \/ row'.status # "none"
    <3>1. CASE SessionNext
      BY <3>1, <1>0, <1>2, UnlessEndedRow DEF SessionNext, StartSession, StartJob, StartRead, PageOpens,
        StopRequest, LeavePage, relayVars, TypeOK
    <3>2. CASE RelayNext
      <4>1. CASE EndWrite
        <5>1. row' = row \/ row'.status = "ended" \/ row'.status = row.status
          BY <4>1, <1>0, UnlessEndedRow DEF EndWrite, TypeOK
        <5> QED
          BY <5>1, <2>2
      <4>2. ASSUME NEW b \in Bridges, MarkActive(b) PROVE row' = row \/ row'.status # "none"
        BY <4>2, <1>0 DEF MarkActive, TypeOK
      <4> QED
        BY <3>2, <4>1, <4>2 DEF RelayNext, ViewerConnects, ViewerCloses, RelayTimeout, TakeBridgeJob,
          BridgeConnects, BridgeRefused, BridgeCloses, serverVars
    <3>3. CASE SignalingNext
      <4>1. ASSUME NEW r \in Reporters, FallbackMark(r) PROVE row' = row \/ row'.status # "none"
        BY <4>1, <1>0, UnlessEndedRow DEF FallbackMark
      <4> QED
        BY <3>3, <4>1 DEF SignalingNext, PageSignals, PageSocketCloses, RtcSocketCloses, PageFails,
          SignalingTimeout, RtcLaunch, RtcSignals, RtcFails, RtcExits, FallbackJob, FallbackError,
          FallbackNotify, relayVars
    <3> QED
      BY <3>1, <3>2, <3>3 DEF Next, vars, BackendRestart
  <2> QED
    BY <2>1, <2>2, <2>3 DEF NothingBeforeStart, RowAfterStart
<1> QED
  BY <1>1, <1>2

-----------------------------------------------------------------------------
(* The row.                                                                *)

\* No step takes an ended row back.
LEMMA EndedRowStays == SessionsInv /\ [Next]_vars /\ row.status = "ended" => row' = row
<1> SUFFICES ASSUME SessionsInv, [Next]_vars, row.status = "ended" PROVE row' = row
  OBVIOUS
<1>0. TypeOK /\ starting # "no"
  BY DEF SessionsInv, NothingBeforeStart
<1>1. row.type \in {"webrtc", "rfb"}
  BY <1>0 DEF TypeOK
<1>2. CASE SessionNext
  BY <1>2, <1>0 DEF SessionNext, StartSession, StartJob, StartRead, PageOpens, StopRequest, LeavePage,
    relayVars, UnlessEnded
<1>3. CASE RelayNext
  BY <1>3 DEF RelayNext, ViewerConnects, ViewerCloses, RelayTimeout, EndWrite, TakeBridgeJob,
    BridgeConnects, BridgeRefused, MarkActive, BridgeCloses, serverVars, UnlessEnded
<1>4. CASE SignalingNext
  BY <1>4 DEF SignalingNext, PageSignals, PageSocketCloses, RtcSocketCloses, PageFails, SignalingTimeout,
    RtcLaunch, RtcSignals, RtcFails, RtcExits, FallbackMark, FallbackJob, FallbackError,
    FallbackNotify, relayVars, UnlessEnded
<1> QED
  BY <1>2, <1>3, <1>4 DEF Next, vars, BackendRestart

LEMMA ActiveEndsNext == SessionsInv /\ [Next]_vars => ActiveEnds'
<1> SUFFICES ASSUME SessionsInv, [Next]_vars PROVE ActiveEnds'
  OBVIOUS
<1>0. TypeOK /\ ActiveEnds /\ NothingBeforeStart
  BY DEF SessionsInv
<1>1. CASE UNCHANGED <<row, relay, marking, ending, history>>
  BY <1>0, <1>1 DEF ActiveEnds, history
<1>2. CASE SessionNext
  <2>1. CASE StartSession
    BY <1>0, <2>1 DEF StartSession, ActiveEnds, NothingBeforeStart, history
  <2>2. CASE StopRequest
    <3>1. row.status = "ended" \/ row'.status = "ended"
      BY <1>0, <2>2, UnlessEndedRow DEF StopRequest, TypeOK
    <3> QED
      BY <3>1, EndedRowStays DEF ActiveEnds
  <2>3. CASE StartJob
    BY <1>0, <2>3 DEF StartJob, ActiveEnds
  <2> QED
    BY <1>1, <1>2, <2>1, <2>2, <2>3 DEF SessionNext, StartRead, PageOpens, LeavePage, relayVars, history
<1>3. CASE RelayNext
  <2>1. CASE ViewerConnects
    BY <2>1 DEF ViewerConnects, JoinRelay, ActiveEnds
  <2>2. CASE ViewerCloses \/ RelayTimeout \/ \E b \in Bridges : BridgeCloses(b)
    <3>1. PICK s \in Bridges \cup {None}, v \in BOOLEAN : CloseRelay(s, v)
      BY <2>2 DEF ViewerCloses, RelayTimeout, BridgeCloses
    <3>2. relay.present \/ ending => ending'
      BY <1>0, <3>1, CloseRelayCloses
    <3>3. UNCHANGED <<row, marking, restarted, dbFailed>>
      BY <2>2 DEF ViewerCloses, RelayTimeout, BridgeCloses, history
    <3> QED
      BY <1>0, <3>2, <3>3 DEF ActiveEnds
  <2>3. CASE EndWrite
    <3>1. CASE UnlessEnded("ended", row.type)
      <4>1. row.status = "ended" \/ row'.status = "ended"
        BY <1>0, <3>1, UnlessEndedRow DEF TypeOK
      <4> QED
        BY <4>1, EndedRowStays DEF ActiveEnds
    <3>2. CASE dbFailed'
      BY <3>2 DEF ActiveEnds
    <3> QED
      BY <2>3, <3>1, <3>2 DEF EndWrite
  <2>4. ASSUME NEW b \in Bridges, TakeBridgeJob(b) \/ BridgeRefused(b) PROVE ActiveEnds'
    BY <2>4, <1>1 DEF TakeBridgeJob, BridgeRefused, serverVars, history
  <2>5. ASSUME NEW b \in Bridges, BridgeConnects(b) PROVE ActiveEnds'
    BY <2>5 DEF BridgeConnects, JoinRelay, ActiveEnds
  <2>6. ASSUME NEW b \in Bridges, MarkActive(b) PROVE ActiveEnds'
    BY <1>0, <2>6 DEF MarkActive, ActiveEnds, history
  <2> QED
    BY <1>3, <2>1, <2>2, <2>3, <2>4, <2>5, <2>6 DEF RelayNext
<1>4. CASE SignalingNext
  <2>1. ASSUME NEW r \in Reporters, FallbackMark(r) PROVE ActiveEnds'
    <3>1. row'.status = "pending" \/ row' = row
      BY <1>0, <2>1, UnlessEndedRow DEF FallbackMark
    <3>2. row.status = "ended" => row' = row
      BY EndedRowStays
    <3> QED
      BY <1>0, <2>1, <3>1, <3>2 DEF FallbackMark, ActiveEnds, history
  <2>2. ASSUME NEW r \in Reporters, FallbackJob(r) PROVE ActiveEnds'
    BY <1>1, <2>2 DEF FallbackJob
  <2>3. ASSUME NEW r \in Reporters, FallbackError(r) PROVE ActiveEnds'
    BY <2>3 DEF FallbackError, ActiveEnds
  <2>4. ASSUME NEW r \in Reporters, FallbackNotify(r) PROVE ActiveEnds'
    BY <1>1, <2>4 DEF FallbackNotify, relayVars, history
  <2> QED
    BY <1>1, <1>4, <2>1, <2>2, <2>3, <2>4 DEF SignalingNext, PageSignals, PageSocketCloses,
      RtcSocketCloses, PageFails, SignalingTimeout, RtcLaunch, RtcSignals, RtcFails, RtcExits,
      relayVars, history
<1>5. CASE BackendRestart
  BY <1>5 DEF BackendRestart, ActiveEnds
<1> QED
  BY <1>1, <1>2, <1>3, <1>4, <1>5 DEF Next, vars, history

-----------------------------------------------------------------------------
(* The fallback.                                                           *)

LEMMA FallbacksNext == SessionsInv /\ [Next]_vars => FallbacksInOrder'
<1> SUFFICES ASSUME SessionsInv, [Next]_vars PROVE FallbacksInOrder'
  OBVIOUS
<1>0. TypeOK /\ FallbacksInOrder /\ NothingBeforeStart
  BY DEF SessionsInv
\* The two conditions are stable once the session has started.
<1>1. starting # "no" /\ RowIsRfb => RowIsRfb'
  <2> SUFFICES ASSUME starting # "no", RowIsRfb PROVE RowIsRfb'
    OBVIOUS
  <2>1. CASE row.status = "ended"
    BY <2>1, EndedRowStays DEF RowIsRfb
  <2>2. CASE row.type = "rfb"
    <3>1. CASE SessionNext
      BY <3>1, <2>2, <1>0, UnlessEndedRow DEF SessionNext, StartSession, StartJob, StartRead, PageOpens,
        StopRequest, LeavePage, relayVars, RowIsRfb
    <3>2. CASE RelayNext
      <4>1. CASE EndWrite
        BY <4>1, <2>2, <1>0, UnlessEndedRow DEF EndWrite, RowIsRfb
      <4>2. ASSUME NEW b \in Bridges, MarkActive(b) PROVE RowIsRfb'
        BY <4>2, <2>2, <1>0 DEF MarkActive, TypeOK, RowIsRfb
      <4> QED
        BY <3>2, <2>2, <4>1, <4>2 DEF RelayNext, ViewerConnects, ViewerCloses, RelayTimeout,
          TakeBridgeJob, BridgeConnects, BridgeRefused, BridgeCloses, serverVars, RowIsRfb
    <3>3. CASE SignalingNext
      <4>1. ASSUME NEW r \in Reporters, FallbackMark(r) PROVE RowIsRfb'
        BY <4>1, <2>2, <1>0, UnlessEndedRow DEF FallbackMark, RowIsRfb
      <4> QED
        BY <3>3, <2>2, <4>1 DEF SignalingNext, PageSignals, PageSocketCloses, RtcSocketCloses, PageFails,
          SignalingTimeout, RtcLaunch, RtcSignals, RtcFails, RtcExits, FallbackJob, FallbackError,
          FallbackNotify, relayVars, RowIsRfb
    <3> QED
      BY <3>1, <3>2, <3>3, <2>2 DEF Next, vars, BackendRestart, RowIsRfb
  <2> QED
    BY <2>1, <2>2 DEF RowIsRfb
<1>2. BridgeQueued => BridgeQueued'
  <2> SUFFICES ASSUME NEW b \in Bridges, bridge[b] # "none" PROVE bridge'[b] # "none"
    BY DEF BridgeQueued
  <2>0. bridge \in [Bridges -> BridgeStates]
    BY <1>0 DEF TypeOK, BridgeStates
  <2>1. QueueBridge => bridge'[b] # "none"
    BY <2>0 DEF QueueBridge
  <2>2. CASE ViewerCloses \/ RelayTimeout \/ \E c \in Bridges : BridgeCloses(c)
    <3>1. PICK s \in Bridges \cup {None}, v \in BOOLEAN : CloseRelay(s, v)
      BY <2>2 DEF ViewerCloses, RelayTimeout, BridgeCloses
    <3> QED
      BY <1>0, <3>1, CloseRelayCloses
  <2>3. ASSUME NEW c \in Bridges, TakeBridgeJob(c) \/ BridgeConnects(c) \/ BridgeRefused(c)
        PROVE  bridge'[b] # "none"
    BY <2>0, <2>3 DEF TakeBridgeJob, BridgeConnects, BridgeRefused
  <2>4. CASE BackendRestart
    BY <2>0, <2>4 DEF BackendRestart
  <2>5. CASE UNCHANGED bridge
    BY <2>5
  <2>6. CASE SessionNext
    BY <2>1, <2>5, <2>6 DEF SessionNext, StartSession, StartJob, StartRead, PageOpens, StopRequest,
      LeavePage, relayVars
  <2>7. CASE SignalingNext
    BY <2>1, <2>5, <2>7 DEF SignalingNext, PageSignals, PageSocketCloses, RtcSocketCloses, PageFails,
      SignalingTimeout, RtcLaunch, RtcSignals, RtcFails, RtcExits, FallbackMark, FallbackJob,
      FallbackError, FallbackNotify, relayVars
  <2>8. CASE RelayNext
    BY <2>2, <2>3, <2>5, <2>8 DEF RelayNext, ViewerConnects, EndWrite, MarkActive
  <2> QED
    BY <2>4, <2>5, <2>6, <2>7, <2>8 DEF Next, vars
\* A reporter goes on only when its statement has succeeded, or says that it failed.
<1>3. ASSUME NEW r \in Reporters
      PROVE  /\ fallback'[r] = "marked" => fallback[r] = "marked" \/ RowIsRfb'
             /\ fallback'[r] = "returned" =>
                  \/ fallback[r] = "returned" \/ dbFailed' \/ (fallback[r] = "marked" /\ BridgeQueued')
  <2>0. fallback \in [Reporters -> {"none", "called", "marked", "returned", "done"}]
    BY <1>0 DEF TypeOK
  <2>1. CASE fallback'[r] \in {fallback[r], "none", "called", "done"}
    BY <2>1
  <2>2. ASSUME NEW q \in Reporters, Call(q) PROVE fallback'[r] \in {fallback[r], "called"}
    BY <2>2, <1>0, CallCalls
  <2>3. ASSUME NEW q \in Reporters, FallbackMark(q)
        PROVE  fallback'[r] = fallback[r] \/ (fallback'[r] = "marked" /\ RowIsRfb')
    BY <2>0, <2>3, <1>0, UnlessEndedRow DEF FallbackMark, RowIsRfb
  <2>4. ASSUME NEW q \in Reporters, FallbackJob(q)
        PROVE  \/ fallback'[r] = fallback[r]
               \/ fallback'[r] = "returned" /\ fallback[r] = "marked" /\ BridgeQueued'
    BY <2>0, <2>4, <1>0, QueueBridgeQueues DEF FallbackJob
  <2>5. ASSUME NEW q \in Reporters, FallbackError(q)
        PROVE  fallback'[r] = fallback[r] \/ (fallback'[r] = "returned" /\ dbFailed')
    BY <2>0, <2>5 DEF FallbackError
  <2>6. ASSUME NEW q \in Reporters, FallbackNotify(q) PROVE fallback'[r] \in {fallback[r], "done"}
    BY <2>0, <2>6 DEF FallbackNotify
  <2>7. CASE BackendRestart
    BY <2>0, <2>1, <2>7 DEF BackendRestart
  <2>8. CASE SignalingNext
    BY <2>1, <2>2, <2>3, <2>4, <2>5, <2>6, <2>8, ReporterNames DEF SignalingNext, PageSignals,
      PageSocketCloses, RtcSocketCloses, PageFails, SignalingTimeout, RtcLaunch, RtcSignals, RtcFails,
      RtcExits
  <2>9. CASE UNCHANGED fallback
    BY <2>9
  <2>10. CASE SessionNext \/ RelayNext
    BY <2>9, <2>10 DEF SessionNext, StartSession, StartJob, StartRead, PageOpens, StopRequest, LeavePage,
      RelayNext, ViewerConnects, ViewerCloses, RelayTimeout, EndWrite, TakeBridgeJob, BridgeConnects,
      BridgeRefused, MarkActive, BridgeCloses, signalVars, serverVars
  <2> QED
    BY <2>7, <2>8, <2>9, <2>10 DEF Next, vars
<1>4. \A r \in Reporters : starting = "no" => fallback[r] = "none"
  BY <1>0 DEF NothingBeforeStart
<1>5. dbFailed => dbFailed'
  BY DEF Next, vars, history, SessionNext, RelayNext, SignalingNext, StartSession, StartJob, StartRead,
    PageOpens, StopRequest, LeavePage, ViewerConnects, ViewerCloses, RelayTimeout, EndWrite,
    TakeBridgeJob, BridgeConnects, BridgeRefused, MarkActive, BridgeCloses, PageSignals,
    PageSocketCloses, RtcSocketCloses, PageFails, SignalingTimeout, RtcLaunch, RtcSignals, RtcFails,
    RtcExits, FallbackMark, FallbackJob, FallbackError, FallbackNotify, BackendRestart
<1> QED
  BY <1>0, <1>1, <1>2, <1>3, <1>4, <1>5 DEF FallbacksInOrder

LEMMA SessionsNextInv == SessionsInv /\ [Next]_vars => SessionsInv'
<1> SUFFICES ASSUME SessionsInv, [Next]_vars PROVE SessionsInv'
  OBVIOUS
<1>1. TypeOK'
  <2>1. TypeOK /\ UNCHANGED vars => TypeOK'
    BY DEF TypeOK, vars
  <2> QED
    BY <2>1, SessionNextTyped, RelayNextTyped, SignalingNextTyped, RestartTyped DEF Next, SessionsInv
<1> QED
  BY <1>1, BeforeStartNext, ActiveEndsNext, FallbacksNext DEF SessionsInv

-----------------------------------------------------------------------------
(* What the session guarantees.                                            *)

\* A row says active only while the relay has an entry for the session or its end is being written,
\* but for a restart or a failed statement.
THEOREM ActiveRowHasRelay == Spec => []ActiveHasRelay
<1>1. SessionsInv => ActiveHasRelay
  BY DEF SessionsInv, ActiveEnds, ActiveHasRelay
<1> QED
  BY <1>1, SessionsInitInv, SessionsNextInv, PTL DEF Spec

\* A session that has ended never comes back.
THEOREM EndedSessionStaysEnded == Spec => EndedStaysEnded
<1>1. SessionsInv /\ [Next]_vars => [row.status = "ended" => row'.status = "ended"]_vars
  BY EndedRowStays
<1> QED
  BY <1>1, SessionsInitInv, SessionsNextInv, PTL DEF Spec, EndedStaysEnded

\* The page turns from WebRTC to RFB only after the row says so and a bridge job exists.
THEOREM PageRedialsAfterJob == Spec => RedialAfterJob
<1> DEFINE Redials == page = "webrtc" /\ page' = "rfb" =>
                        \/ /\ row.type = "rfb" \/ row.status = "ended"
                           /\ \E b \in Bridges : bridge[b] # "none"
                        \/ dbFailed
<1>1. SessionsInv /\ [Next]_vars => [Redials]_vars
  <2> SUFFICES ASSUME SessionsInv, [Next]_vars, page = "webrtc", page' = "rfb" PROVE Redials
    OBVIOUS
  <2>1. PICK r \in Reporters : FallbackNotify(r)
    BY DEF Next, vars, history, SessionNext, RelayNext, SignalingNext, StartSession, StartJob, StartRead,
      PageOpens, StopRequest, LeavePage, ViewerConnects, ViewerCloses, RelayTimeout, EndWrite,
      TakeBridgeJob, BridgeConnects, BridgeRefused, MarkActive, BridgeCloses, PageSignals,
      PageSocketCloses, RtcSocketCloses, PageFails, SignalingTimeout, RtcLaunch, RtcSignals, RtcFails,
      RtcExits, FallbackMark, FallbackJob, FallbackError, BackendRestart
  <2>2. dbFailed \/ (RowIsRfb /\ BridgeQueued)
    BY <2>1 DEF FallbackNotify, SessionsInv, FallbacksInOrder
  <2> QED
    BY <2>2 DEF RowIsRfb, BridgeQueued
<1> QED
  BY <1>1, SessionsInitInv, SessionsNextInv, PTL DEF Spec, RedialAfterJob
=============================================================================
