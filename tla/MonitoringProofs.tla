-------------------------- MODULE MonitoringProofs --------------------------
(***************************************************************************)
(* Proofs about Monitoring for every set of computers, every length of the *)
(* day and every bound of the clock and of the faults.                     *)
(***************************************************************************)
EXTENDS Monitoring, TLAPS

-----------------------------------------------------------------------------
(* The inductive invariant of the push watcher.                            *)

\* A tick sends what it has seen and did not know; what it has seen and need
\* not send any more is announced; what it sends again, a failed tick has sent.
WatchIsSound ==
  watch.step = "sending" =>
    /\ watch.seen = lastSeen
    /\ watch.unsent \subseteq watch.seen \ previousIds
    /\ watch.seen \ watch.unsent \subseteq announced \cup lapsed
    /\ watch.unsent \cap announced \subseteq again

\* Between ticks: what is known was pushed, and what was pushed is known
\* unless the tick that pushed it failed.
KnownIsPushed ==
  watch.step = "idle" =>
    /\ previousIds \subseteq announced \cup lapsed
    /\ announced \ previousIds \subseteq again

WatchInv ==
  /\ announced \subseteq lastSeen
  /\ WatchIsSound
  /\ KnownIsPushed
  /\ PushedOnce

-----------------------------------------------------------------------------
(* The inductive invariant of the ping loop.                               *)

\* The last row of c says `on`, or there is none and c is not on.
Says(c, on) ==
  \/ Rows(c) = {} /\ ~on
  \/ \E h \in Rows(c) : h.online = on /\ \A g \in Rows(c) : g.at <= h.at

\* It says so since `at`.
SaysSince(c, on, at) ==
  \/ Rows(c) = {} /\ ~on /\ at = 0
  \/ \E h \in Rows(c) : h.online = on /\ h.at = at /\ \A g \in Rows(c) : g.at <= h.at

\* At most one row of a computer for a tick, and none yet for the tick under way.
RowsAreUnique == \A g, h \in history : g.of = h.of /\ g.at = h.at => g = h
RowsArePast ==
  \A h \in history : h.at <= tick.at /\ (tick.step # "idle" => h.at < tick.at)

\* The rows a tick works on exist or existed; those that never did are untouched.
TickIsOfRows ==
  /\ tick.was \subseteq tick.read /\ tick.alive \subseteq tick.read
  /\ \A c \in Computers : entry[c] = "absent" =>
       c \notin tick.read /\ c \notin online /\ changedAt[c] = 0 /\ Rows(c) = {}

\* What the columns and the history say of c at each step of a tick.
TickAgrees(c) ==
  /\ c \notin Unrecorded => SaysSince(c, c \in online, changedAt[c])
  /\ tick.step = "probing" /\ c \in tick.read => (c \in tick.was <=> c \in online)
  /\ c \in Unrecorded =>
       /\ Says(c, c \in tick.was)
       /\ c \in tick.alive <=> c \in online
       /\ tick.step = "stamped" => changedAt[c] = tick.at

Alternates(c) ==
  \A g, h \in Rows(c) :
    g.at < h.at /\ g.online = h.online => \E f \in Rows(c) : g.at < f.at /\ f.at < h.at

PingInv ==
  /\ RowsAreUnique
  /\ RowsArePast
  /\ TickIsOfRows
  /\ \A c \in Present \ torn : TickAgrees(c) /\ Alternates(c)

IInv == TypeOK /\ WatchInv /\ PingInv

-----------------------------------------------------------------------------
LEMMA InitIInv == Init => IInv
<1> SUFFICES ASSUME Init PROVE IInv
  OBVIOUS
<1>1. TypeOK
  BY MonitoringAssumption DEF Init, TypeOK, Times, Alerts, IdleTick, IdleWatch
<1>2. WatchInv
  BY DEF Init, WatchInv, WatchIsSound, KnownIsPushed, PushedOnce, IdleWatch
<1>3. PingInv
  BY DEF Init, PingInv, RowsAreUnique, RowsArePast, TickIsOfRows, Present, IdleTick, Rows
<1> QED
  BY <1>1, <1>2, <1>3 DEF IInv

LEMMA ActiveAlerts == Active \subseteq Alerts
  BY DEF Active

LEMMA NextTypeOK == TypeOK /\ [Next]_vars => TypeOK'
<1> SUFFICES ASSUME TypeOK, [Next]_vars PROVE TypeOK'
  OBVIOUS
<1> USE MonitoringAssumption DEF TypeOK, Times, vars, pings, pushes
<1>1. CASE UNCHANGED vars
  BY <1>1
<1>2. CASE Clock
  BY <1>2 DEF Clock
<1>3. CASE Restart
  BY <1>3 DEF Restart, Fault, Unrecorded, Changed, IdleWatch
<1>4. CASE TickRead
  BY <1>4 DEF TickRead, Present
<1>5. CASE TickWrite
  <2>1. PICK alive \in SUBSET tick.read :
               /\ tick' = [tick EXCEPT !.step = IF alive = tick.was THEN "idle" ELSE "written", !.alive = alive]
               /\ online' = (online \ (tick.read \cap Present)) \cup (alive \cap Present)
    BY <1>5 DEF TickWrite
  <2>2. (IF alive = tick.was THEN "idle" ELSE "written") \in {"idle", "written"} /\ alive \subseteq Computers
    OBVIOUS
  <2>3. tick' \in [step : {"idle", "probing", "written", "stamped"}, at : 0 .. MaxTime,
                   read : SUBSET Computers, was : SUBSET Computers, alive : SUBSET Computers]
    BY <2>1, <2>2
  <2>4. online' \subseteq Computers
    BY <2>1 DEF Present
  <2> QED
    BY <1>5, <2>3, <2>4 DEF TickWrite
<1>6. CASE TickStamp
  <2>1. tick.at \in 0 .. MaxTime
    OBVIOUS
  <2>2. changedAt' \in [Computers -> 0 .. MaxTime]
    BY <1>6, <2>1 DEF TickStamp
  <2>3. tick' \in [step : {"idle", "probing", "written", "stamped"}, at : 0 .. MaxTime,
                   read : SUBSET Computers, was : SUBSET Computers, alive : SUBSET Computers]
    BY <1>6 DEF TickStamp, TickStep
  <2> QED
    BY <1>6, <2>2, <2>3 DEF TickStamp
<1>7. CASE TickRecord
  <2>1. Changed \subseteq Computers /\ tick.at \in 0 .. MaxTime
    BY DEF Changed
  <2>2. {[of |-> c, online |-> c \in tick.alive, at |-> tick.at] : c \in Changed \cap Present}
          \subseteq [of : Computers, online : BOOLEAN, at : 0 .. MaxTime]
    <3>1. ASSUME NEW c \in Changed
          PROVE  [of |-> c, online |-> c \in tick.alive, at |-> tick.at]
                   \in [of : Computers, online : BOOLEAN, at : 0 .. MaxTime]
      BY <2>1, <3>1
    <3>2. ASSUME NEW r \in {[of |-> c, online |-> c \in tick.alive, at |-> tick.at] : c \in Changed \cap Present}
          PROVE  r \in [of : Computers, online : BOOLEAN, at : 0 .. MaxTime]
      <4>1. PICK c \in Changed \cap Present : r = [of |-> c, online |-> c \in tick.alive, at |-> tick.at]
        BY <3>2, Zenon
      <4> QED
        BY <3>1, <4>1, Zenon
    <3> QED
      BY <3>2, Zenon
  <2>3. tick' \in [step : {"idle", "probing", "written", "stamped"}, at : 0 .. MaxTime,
                   read : SUBSET Computers, was : SUBSET Computers, alive : SUBSET Computers]
    BY <1>7 DEF TickRecord, TickStep
  <2> QED
    BY <1>7, <2>2, <2>3 DEF TickRecord
<1>8. CASE TickFails
  BY <1>8 DEF TickFails, Fault, Unrecorded, Changed
<1>9. CASE WatchRead
  <2>1. Active \subseteq Alerts /\ Active \ previousIds \subseteq Alerts
    BY ActiveAlerts
  <2> QED
    BY <1>9, <2>1 DEF WatchRead
<1>10. CASE WatchEnd
  BY <1>10 DEF WatchEnd, IdleWatch
<1>11. CASE WatchFails
  BY <1>11 DEF WatchFails, Fault, Push, IdleWatch
<1>12. ASSUME NEW a \in Alerts, WatchSend(a) PROVE TypeOK'
  BY <1>12 DEF WatchSend, Push
<1>13. ASSUME NEW c \in Computers, CreateEntry(c) PROVE TypeOK'
  BY <1>13 DEF CreateEntry
<1>14. ASSUME NEW c \in Computers, DeleteEntry(c) PROVE TypeOK'
  BY <1>14 DEF DeleteEntry
<1>15. ASSUME NEW c \in Computers, JobFails(c) PROVE TypeOK'
  BY <1>15 DEF JobFails
<1> QED
  BY <1>1, <1>2, <1>3, <1>4, <1>5, <1>6, <1>7, <1>8, <1>9, <1>10, <1>11, <1>12, <1>13, <1>14, <1>15
     DEF Next, PingNext, WatchNext

-----------------------------------------------------------------------------
(* The watcher.                                                            *)

LEMMA NextWatchInv == TypeOK /\ WatchInv /\ [Next]_vars => WatchInv'
<1> SUFFICES ASSUME TypeOK, WatchInv, [Next]_vars PROVE WatchInv'
  OBVIOUS
<1> USE DEF WatchInv, WatchIsSound, KnownIsPushed, PushedOnce
<1>1. CASE UNCHANGED pushes
  BY <1>1 DEF pushes
<1>2. CASE WatchRead
  <2>1. watch' = [step |-> "sending", seen |-> Active, unsent |-> Active \ previousIds]
    BY <1>2 DEF WatchRead
  <2>2. /\ watch'.step = "sending" /\ watch'.seen = Active
        /\ watch'.unsent = Active \ previousIds
    BY <2>1
  <2> HIDE DEF WatchInv
  <2>3. WatchIsSound'
    BY <1>2, <2>2 DEF WatchRead, WatchInv
  <2> QED
    BY <1>2, <2>2, <2>3 DEF WatchRead, WatchInv
<1>3. ASSUME NEW a \in Alerts, WatchSend(a) PROVE WatchInv'
  <2>1. /\ watch.step = "sending" /\ watch'.step = "sending"
        /\ watch'.seen = watch.seen /\ watch'.unsent = watch.unsent \ {a}
    BY <1>3 DEF WatchSend, TypeOK
  <2>2. /\ a \in watch.unsent /\ announced' = announced \cup {a} /\ repeated' = repeated
        /\ UNCHANGED <<previousIds, lastSeen, again, lapsed>>
    BY <1>3, <2>1 DEF WatchSend, Push
  <2> QED
    BY <2>1, <2>2
<1>4. CASE WatchEnd
  BY <1>4 DEF WatchEnd, IdleWatch
<1>5. CASE WatchFails
  <2>1. /\ watch.step = "sending" /\ watch'.step = "idle"
        /\ again' = again \cup (watch.seen \ previousIds)
        /\ lapsed' = lapsed \cup (previousIds \ watch.seen)
        /\ UNCHANGED <<previousIds, lastSeen>>
    BY <1>5 DEF WatchFails, IdleWatch
  <2>2. PICK S \in SUBSET watch.unsent : announced' = announced \cup S /\ repeated' = {}
    <3>1. CASE UNCHANGED <<announced, repeated>>
      BY <3>1
    <3>2. ASSUME NEW a \in watch.unsent, Push(a) PROVE announced' = announced \cup {a} /\ repeated' = {}
      BY <3>2, <2>1 DEF Push
    <3> QED
      BY <1>5, <3>1, <3>2 DEF WatchFails
  <2> QED
    BY <2>1, <2>2
<1>6. CASE Restart
  BY <1>6 DEF Restart, IdleWatch
<1>7. Clock \/ PingNext \/ (\E c \in Computers : CreateEntry(c) \/ DeleteEntry(c) \/ JobFails(c))
        => UNCHANGED pushes
  BY DEF Clock, PingNext, TickRead, TickWrite, TickStamp, TickRecord, TickFails, CreateEntry,
         DeleteEntry, JobFails, pings, pushes
<1> QED
  BY <1>1, <1>2, <1>3, <1>4, <1>5, <1>6, <1>7 DEF Next, WatchNext, vars

-----------------------------------------------------------------------------
(* The ping loop.                                                          *)

pingState == <<entry, online, changedAt, history, tick, torn>>

\* Whether a row is present in the next state and was untouched until now.
LEMMA StaysPresent ==
  ASSUME TypeOK, entry' = entry PROVE Present' = Present
  BY DEF Present

LEMMA ChangedIsRead ==
  ASSUME PingInv PROVE Changed \subseteq tick.read /\ Unrecorded \subseteq tick.read
  BY DEF PingInv, TickIsOfRows, Changed, Unrecorded

\* A tick under way: nothing but its step changes for the rows it found.
LEMMA TickReadPing == TypeOK /\ PingInv /\ TickRead => PingInv'
<1> SUFFICES ASSUME TypeOK, PingInv, TickRead PROVE PingInv'
  OBVIOUS
<1>1. /\ tick'.step = "probing" /\ tick'.at = now /\ tick'.read = Present
      /\ tick'.was = online \cap Present /\ tick'.alive = {}
      /\ tick.step = "idle" /\ now > tick.at
      /\ UNCHANGED <<entry, online, changedAt, history, torn>>
  BY DEF TickRead
<1>2. Present' = Present /\ Unrecorded = {} /\ Unrecorded' = {}
  BY <1>1, StaysPresent DEF Unrecorded
<1>3. RowsAreUnique'
  BY <1>1 DEF PingInv, RowsAreUnique
<1>4. RowsArePast'
  <2>1. \A h \in history : h.at \in Nat /\ now \in Nat /\ tick.at \in Nat
    BY MonitoringAssumption DEF TypeOK, Times
  <2> QED
    BY <1>1, <2>1 DEF PingInv, RowsArePast
<1>5. TickIsOfRows'
  BY <1>1 DEF PingInv, TickIsOfRows, Present, Rows
<1>6. ASSUME NEW c \in Present' \ torn' PROVE TickAgrees(c)' /\ Alternates(c)'
  <2>1. c \in Present \ torn /\ TickAgrees(c) /\ Alternates(c)
    BY <1>1, <1>2, <1>6 DEF PingInv
  <2> QED
    BY <1>1, <1>2, <2>1 DEF TickAgrees, Alternates, SaysSince, Rows
<1> QED
  BY <1>3, <1>4, <1>5, <1>6 DEF PingInv

LEMMA TickWritePing == TypeOK /\ PingInv /\ TickWrite => PingInv'
<1> SUFFICES ASSUME TypeOK, PingInv, TickWrite PROVE PingInv'
  OBVIOUS
<1>1. PICK alive \in SUBSET tick.read :
             /\ tick' = [tick EXCEPT !.step = IF alive = tick.was THEN "idle" ELSE "written", !.alive = alive]
             /\ online' = (online \ (tick.read \cap Present)) \cup (alive \cap Present)
  BY DEF TickWrite
<1>2. /\ tick'.step = IF alive = tick.was THEN "idle" ELSE "written"
      /\ tick'.at = tick.at /\ tick'.read = tick.read /\ tick'.was = tick.was /\ tick'.alive = alive
      /\ tick.step = "probing"
      /\ UNCHANGED <<entry, changedAt, history, torn>>
  BY <1>1 DEF TickWrite, TypeOK
<1>3. Present' = Present /\ Unrecorded = {}
      /\ Unrecorded' = (tick.was \ alive) \cup (alive \ tick.was)
  BY <1>2, StaysPresent DEF Unrecorded, Changed
<1>4. RowsAreUnique' /\ RowsArePast'
  BY <1>2 DEF PingInv, RowsAreUnique, RowsArePast
<1>5. TickIsOfRows'
  BY <1>1, <1>2 DEF PingInv, TickIsOfRows, Rows
<1>6. ASSUME NEW c \in Present' \ torn' PROVE TickAgrees(c)' /\ Alternates(c)'
  <2>1. c \in Present \ torn /\ TickAgrees(c) /\ Alternates(c)
    BY <1>2, <1>3, <1>6 DEF PingInv
  <2>2. Rows(c)' = Rows(c) /\ SaysSince(c, c \in online, changedAt[c])
    BY <1>2, <1>3, <2>1 DEF Rows, TickAgrees
  <2>3. Says(c, c \in online)
    BY <2>2 DEF Says, SaysSince
  <2>4. CASE c \in tick.read
    <3>1. (c \in online' <=> c \in alive) /\ (c \in tick.was <=> c \in online)
      BY <1>1, <1>2, <2>1, <2>4 DEF TickAgrees
    <3>2. c \notin Unrecorded' => SaysSince(c, c \in online, changedAt[c])'
      <4>1. c \notin Unrecorded' => (c \in online') = (c \in online)
        BY <1>3, <3>1
      <4> QED
        BY <4>1, <2>2, <1>2 DEF SaysSince
    <3>3. Says(c, c \in tick.was)'
      <4>1. (c \in tick'.was) = (c \in online)
        BY <3>1, <1>2
      <4> QED
        BY <4>1, <2>2, <2>3 DEF Says
    <3> QED
      BY <1>2, <2>1, <2>2, <3>1, <3>2, <3>3 DEF TickAgrees, Alternates
  <2>5. CASE c \notin tick.read
    <3>1. (c \in online') = (c \in online) /\ c \notin Unrecorded'
      BY <1>1, <1>3, <2>5 DEF PingInv, TickIsOfRows
    <3> QED
      BY <1>2, <2>1, <2>2, <2>5, <3>1 DEF TickAgrees, Alternates, SaysSince
  <2> QED
    BY <2>4, <2>5
<1> QED
  BY <1>4, <1>5, <1>6 DEF PingInv

LEMMA TickStampPing == TypeOK /\ PingInv /\ TickStamp => PingInv'
<1> SUFFICES ASSUME TypeOK, PingInv, TickStamp PROVE PingInv'
  OBVIOUS
<1>1. /\ tick'.step = "stamped" /\ tick.step = "written"
      /\ tick'.at = tick.at /\ tick'.read = tick.read /\ tick'.was = tick.was /\ tick'.alive = tick.alive
      /\ UNCHANGED <<entry, online, history, torn>>
  BY DEF TickStamp, TickStep, TypeOK
<1>2. Present' = Present /\ Unrecorded' = Unrecorded /\ Unrecorded = Changed
  BY <1>1, StaysPresent DEF Unrecorded, Changed
<1>3. \A c \in Computers : changedAt'[c] = IF c \in Changed \cap Present THEN tick.at ELSE changedAt[c]
  BY DEF TickStamp
<1>4. RowsAreUnique' /\ RowsArePast'
  BY <1>1 DEF PingInv, RowsAreUnique, RowsArePast
<1>5. TickIsOfRows'
  BY <1>1, <1>3, ChangedIsRead DEF PingInv, TickIsOfRows, Rows
<1>6. ASSUME NEW c \in Present' \ torn' PROVE TickAgrees(c)' /\ Alternates(c)'
  <2>1. c \in Present \ torn /\ TickAgrees(c) /\ Alternates(c) /\ c \in Computers
    BY <1>1, <1>2, <1>6 DEF PingInv, Present
  <2>2. Rows(c)' = Rows(c)
    BY <1>1 DEF Rows
  <2>3. CASE c \in Changed
    BY <1>1, <1>2, <1>3, <2>1, <2>2, <2>3 DEF TickAgrees, Alternates, Says
  <2>4. CASE c \notin Changed
    BY <1>1, <1>2, <1>3, <2>1, <2>2, <2>4 DEF TickAgrees, Alternates, SaysSince
  <2> QED
    BY <2>3, <2>4
<1> QED
  BY <1>4, <1>5, <1>6 DEF PingInv

\* The row a tick records for c.
Record(c) == [of |-> c, online |-> c \in tick.alive, at |-> tick.at]

\* The new rows are the newest, and each is one of a change.
LEMMA TickRecordPing == TypeOK /\ PingInv /\ TickRecord => PingInv'
<1> SUFFICES ASSUME TypeOK, PingInv, TickRecord PROVE PingInv'
  OBVIOUS
<1> DEFINE New == {Record(c) : c \in Changed \cap Present}
<1>1. /\ tick'.step = "idle" /\ tick.step = "stamped"
      /\ tick'.at = tick.at /\ tick'.read = tick.read /\ tick'.was = tick.was /\ tick'.alive = tick.alive
      /\ UNCHANGED <<entry, online, changedAt, torn>>
  BY DEF TickRecord, TickStep, TypeOK
<1>2. history' = history \cup New
  BY DEF TickRecord, Record
<1>3. Present' = Present /\ Unrecorded' = {} /\ Unrecorded = Changed
  BY <1>1, StaysPresent DEF Unrecorded
<1>4. tick.at \in Nat /\ \A h \in history : h.at \in Nat /\ h.at < tick.at
  BY <1>1, MonitoringAssumption DEF TypeOK, Times, PingInv, RowsArePast
<1>5. \A r \in New : \E c \in Changed \cap Present : r = Record(c) /\ r.of = c /\ r.at = tick.at
  BY DEF Record
<1> HIDE DEF New
<1>6. RowsAreUnique'
  BY <1>2, <1>4, <1>5 DEF PingInv, RowsAreUnique
<1>7. RowsArePast'
  BY <1>1, <1>2, <1>4, <1>5 DEF RowsArePast
<1>8. ASSUME NEW c, c \notin Changed \cap Present PROVE Rows(c)' = Rows(c)
  BY <1>2, <1>5, <1>8 DEF Rows
<1>9. TickIsOfRows'
  <2>1. ASSUME NEW c \in Computers, entry[c] = "absent" PROVE Rows(c)' = {}
    <3>1. c \notin Present /\ Rows(c) = {}
      BY <2>1 DEF PingInv, TickIsOfRows, Present
    <3> QED
      BY <3>1, <1>8
  <2> QED
    BY <1>1, <2>1 DEF PingInv, TickIsOfRows
<1>10. ASSUME NEW c \in Present' \ torn' PROVE TickAgrees(c)' /\ Alternates(c)'
  <2>1. c \in Present \ torn /\ TickAgrees(c) /\ Alternates(c)
    BY <1>1, <1>3, <1>10 DEF PingInv
  <2>2. CASE c \notin Changed
    <3>1. Rows(c)' = Rows(c)
      BY <1>8, <2>2
    <3> QED
      BY <1>1, <1>3, <2>1, <2>2, <3>1 DEF TickAgrees, Alternates, SaysSince
  <2>3. CASE c \in Changed
    <3>1. /\ Says(c, c \in tick.was) /\ (c \in tick.alive <=> c \in online)
          /\ changedAt[c] = tick.at
      BY <1>1, <1>3, <2>1, <2>3 DEF TickAgrees
    <3>2. Rows(c)' = Rows(c) \cup {Record(c)}
      <4>1. Record(c) \in New
        BY <2>1, <2>3 DEF New
      <4>2. Record(c).of = c
        BY DEF Record
      <4> QED
        BY <1>2, <1>5, <4>1, <4>2 DEF Rows
    <3>3. /\ Record(c).at = tick.at /\ Record(c).online = (c \in tick.alive)
          /\ \A h \in Rows(c) : h.at \in Nat /\ h.at < Record(c).at
      BY <1>4 DEF Record, Rows
    <3>4. SaysSince(c, c \in online, changedAt[c])'
      <4>1. Record(c).online = (c \in online')
        BY <1>1, <3>1, <3>3
      <4> QED
        BY <1>1, <1>4, <3>1, <3>2, <3>3, <4>1 DEF SaysSince
    <3>5. Alternates(c)'
      <4>1. ASSUME NEW g \in Rows(c), g.online = Record(c).online
            PROVE  \E f \in Rows(c) : g.at < f.at
        <5>1. Record(c).online # (c \in tick.was)
          BY <2>3, <3>3 DEF Changed
        <5>2. PICK f \in Rows(c) : f.online = (c \in tick.was) /\ \A h \in Rows(c) : h.at <= f.at
          BY <3>1 DEF Says
        <5>3. f # g /\ f.of = c /\ g.of = c /\ f \in history /\ g \in history
          BY <4>1, <5>1, <5>2 DEF Rows
        <5>4. f.at # g.at /\ g.at <= f.at
          BY <5>2, <5>3 DEF PingInv, RowsAreUnique
        <5> QED
          BY <3>3, <5>4
      <4>2. ASSUME NEW g \in Rows(c)', NEW h \in Rows(c)', g.at < h.at, g.online = h.online
            PROVE  \E f \in Rows(c)' : g.at < f.at /\ f.at < h.at
        <5>1. CASE g \in Rows(c) /\ h \in Rows(c)
          BY <2>1, <3>2, <4>2, <5>1 DEF Alternates
        <5>2. CASE g \in Rows(c) /\ h = Record(c)
          BY <3>2, <3>3, <4>1, <4>2, <5>2
        <5>3. g # Record(c)
          BY <1>4, <3>2, <3>3, <4>2 
        <5> QED
          BY <3>2, <5>1, <5>2, <5>3
      <4> QED
        BY <4>2 DEF Alternates
    <3> QED
      BY <1>3, <1>1, <3>4, <3>5 DEF TickAgrees
  <2> QED
    BY <2>2, <2>3
<1> QED
  BY <1>6, <1>7, <1>9, <1>10 DEF PingInv

\* A tick that stops where it is leaves its changes in torn.
LEMMA TickStopsPing ==
  ASSUME TypeOK, PingInv, torn' = torn \cup Unrecorded, tick' = [tick EXCEPT !.step = "idle"],
         UNCHANGED <<entry, online, changedAt, history>>
  PROVE  PingInv'
<1>1. /\ tick'.step = "idle" /\ tick'.at = tick.at /\ tick'.read = tick.read
      /\ tick'.was = tick.was /\ tick'.alive = tick.alive
  BY DEF TypeOK
<1>2. Present' = Present /\ Unrecorded' = {}
  BY <1>1, StaysPresent DEF Unrecorded
<1>3. RowsAreUnique' /\ RowsArePast' /\ TickIsOfRows'
  BY <1>1 DEF PingInv, RowsAreUnique, RowsArePast, TickIsOfRows, Rows
<1>4. ASSUME NEW c \in Present' \ torn' PROVE TickAgrees(c)' /\ Alternates(c)'
  <2>1. c \in Present \ torn /\ c \notin Unrecorded
    BY <1>2, <1>4
  <2>2. TickAgrees(c) /\ Alternates(c) /\ Rows(c)' = Rows(c)
    BY <2>1 DEF PingInv, Rows
  <2> QED
    BY <1>1, <1>2, <2>1, <2>2 DEF TickAgrees, Alternates, SaysSince
<1> QED
  BY <1>3, <1>4 DEF PingInv

LEMMA CreateEntryPing == ASSUME NEW d \in Computers, TypeOK, PingInv, CreateEntry(d) PROVE PingInv'
<1>1. /\ entry[d] = "absent" /\ UNCHANGED <<online, changedAt, history, tick, torn>>
      /\ entry' = [entry EXCEPT ![d] = "present"]
  BY DEF CreateEntry
<1>2. Present' = Present \cup {d} /\ Unrecorded' = Unrecorded
  BY <1>1 DEF Present, Unrecorded, Changed, TypeOK
<1>3. RowsAreUnique' /\ RowsArePast' /\ TickIsOfRows'
  BY <1>1 DEF PingInv, RowsAreUnique, RowsArePast, TickIsOfRows, Rows, TypeOK
<1>4. ASSUME NEW c \in Present' \ torn' PROVE TickAgrees(c)' /\ Alternates(c)'
  <2>1. Rows(c)' = Rows(c)
    BY <1>1 DEF Rows
  <2>2. CASE c = d
    <3>1. c \notin tick.read /\ c \notin online /\ changedAt[c] = 0 /\ Rows(c) = {}
      BY <1>1, <2>2 DEF PingInv, TickIsOfRows
    <3>2. c \notin Unrecorded
      BY <3>1, ChangedIsRead
    <3> QED
      BY <1>1, <1>2, <2>1, <3>1, <3>2 DEF TickAgrees, Alternates, SaysSince
  <2>3. CASE c # d
    <3>1. TickAgrees(c) /\ Alternates(c)
      BY <1>1, <1>2, <1>4, <2>3 DEF PingInv
    <3> QED
      BY <1>1, <1>2, <2>1, <3>1 DEF TickAgrees, Alternates, SaysSince, Says
  <2> QED
    BY <2>2, <2>3
<1> QED
  BY <1>3, <1>4 DEF PingInv

LEMMA DeleteEntryPing == ASSUME NEW d \in Computers, TypeOK, PingInv, DeleteEntry(d) PROVE PingInv'
<1>1. /\ entry[d] = "present" /\ UNCHANGED <<online, changedAt, history, tick, torn>>
      /\ entry' = [entry EXCEPT ![d] = "deleted"]
  BY DEF DeleteEntry
<1>2. Present' = Present \ {d} /\ Unrecorded' = Unrecorded
  BY <1>1 DEF Present, Unrecorded, Changed, TypeOK
<1>3. RowsAreUnique' /\ RowsArePast' /\ TickIsOfRows'
  BY <1>1 DEF PingInv, RowsAreUnique, RowsArePast, TickIsOfRows, Rows, TypeOK
<1>4. ASSUME NEW c \in Present' \ torn' PROVE TickAgrees(c)' /\ Alternates(c)'
  <2>1. TickAgrees(c) /\ Alternates(c) /\ Rows(c)' = Rows(c)
    BY <1>1, <1>2, <1>4 DEF PingInv, Rows
  <2> QED
    BY <1>1, <1>2, <2>1 DEF TickAgrees, Alternates, SaysSince, Says
<1> QED
  BY <1>3, <1>4 DEF PingInv

LEMMA NextPingInv == TypeOK /\ PingInv /\ [Next]_vars => PingInv'
<1> SUFFICES ASSUME TypeOK, PingInv, [Next]_vars PROVE PingInv'
  OBVIOUS
<1>1. CASE UNCHANGED pingState
  BY <1>1 DEF pingState, PingInv, RowsAreUnique, RowsArePast, TickIsOfRows, TickAgrees, Alternates,
       SaysSince, Says, Rows, Present, Unrecorded, Changed
<1>2. CASE TickFails \/ Restart
  BY <1>2, TickStopsPing DEF TickFails, Restart
<1>3. ASSUME NEW c \in Computers, CreateEntry(c) \/ DeleteEntry(c) PROVE PingInv'
  BY <1>3, CreateEntryPing, DeleteEntryPing
<1>4. CASE TickRead \/ TickWrite \/ TickStamp \/ TickRecord
  BY <1>4, TickReadPing, TickWritePing, TickStampPing, TickRecordPing
<1>5. Clock \/ WatchNext \/ UNCHANGED vars \/ (\E c \in Computers : JobFails(c)) => UNCHANGED pingState
  BY DEF Clock, WatchNext, WatchRead, WatchSend, WatchEnd, WatchFails, JobFails, vars, pings, pingState
<1> QED
  BY <1>1, <1>2, <1>3, <1>4, <1>5 DEF Next, PingNext

-----------------------------------------------------------------------------
(* The theorems.                                                           *)

LEMMA SpecIInv == Spec => []IInv
<1>1. IInv /\ [Next]_vars => IInv'
  BY NextTypeOK, NextWatchInv, NextPingInv DEF IInv
<1> QED
  BY <1>1, InitIInv, PTL DEF Spec

\* Every variable of the two loops keeps its type.
THEOREM TypeCorrect == Spec => []TypeOK
<1>1. IInv => TypeOK
  BY DEF IInv
<1> QED
  BY <1>1, SpecIInv, PTL

\* An alert that pushNotificationWatcher knows from its last tick was pushed
\* since it appeared, whatever push fails and whenever the backend restarts.
THEOREM KnownAlertsWerePushed == Spec => []KnownMeansPushed
<1>1. IInv => KnownMeansPushed
  BY DEF IInv, WatchInv, KnownIsPushed, KnownMeansPushed
<1> QED
  BY <1>1, SpecIInv, PTL

\* An alert that persists is pushed a second time only after a failed tick.
THEOREM AlertsArePushedOnce == Spec => []PushedOnce
<1>1. IInv => PushedOnce
  BY DEF IInv, WatchInv
<1> QED
  BY <1>1, SpecIInv, PTL

\* The period that getUptimeHistory shows as the current one agrees with the
\* columns of ip_entries for every computer without a lost change.
THEOREM CurrentPeriods == Spec => []CurrentPeriodIsStatus
<1>1. ASSUME IInv, NEW c \in Settled
      PROVE  IF Rows(c) = {} THEN c \notin online /\ changedAt[c] = 0
             ELSE Newest(c).online = (c \in online) /\ Newest(c).at = changedAt[c]
  <2>1. SaysSince(c, c \in online, changedAt[c])
    BY <1>1 DEF IInv, PingInv, Settled, TickAgrees
  <2>2. CASE Rows(c) = {}
    BY <2>1, <2>2 DEF SaysSince
  <2>3. CASE Rows(c) # {}
    <3>1. PICK h \in Rows(c) : /\ h.online = (c \in online) /\ h.at = changedAt[c]
                               /\ \A g \in Rows(c) : g.at <= h.at
      BY <2>1, <2>3 DEF SaysSince
    <3>2. Newest(c) \in Rows(c) /\ \A g \in Rows(c) : g.at <= Newest(c).at
      BY <3>1 DEF Newest
    <3>3. \A g \in Rows(c) : g.at \in Nat /\ g \in history /\ g.of = c
      BY <1>1 DEF IInv, TypeOK, Times, Rows
    <3>4. Newest(c).at = h.at
      BY <3>1, <3>2, <3>3
    <3>5. Newest(c) = h
      BY <1>1, <3>1, <3>2, <3>3, <3>4 DEF IInv, PingInv, RowsAreUnique
    <3> QED
      BY <2>3, <3>1, <3>5
  <2> QED
    BY <2>2, <2>3
<1>2. IInv => CurrentPeriodIsStatus
  BY <1>1 DEF CurrentPeriodIsStatus
<1> QED
  BY <1>2, SpecIInv, PTL

\* No history that buildPeriods reads has two periods of one status in a row.
THEOREM HistoryAlternates == Spec => []PeriodsAlternate
<1>1. IInv => PeriodsAlternate
  BY DEF IInv, PingInv, Alternates, PeriodsAlternate, Settled
<1> QED
  BY <1>1, SpecIInv, PTL

\* Both of what getUptimeHistory relies on.
THEOREM HistorySound == Spec => []HistoryIsSound
<1>1. CurrentPeriodIsStatus /\ PeriodsAlternate => HistoryIsSound
  BY DEF HistoryIsSound
<1> QED
  BY <1>1, CurrentPeriods, HistoryAlternates, PTL

\* Both of what pushNotificationWatcher promises about an alert.
THEOREM KnownPushedOnce == Spec => []KnownIsPushedOnce
<1>1. KnownMeansPushed /\ PushedOnce => KnownIsPushedOnce
  BY DEF KnownIsPushedOnce
<1> QED
  BY <1>1, KnownAlertsWerePushed, AlertsArePushedOnce, PTL
=============================================================================
