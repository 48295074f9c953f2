------------------------------ MODULE PortScan ------------------------------
(***************************************************************************)
(* The scan of a computer's TCP ports: the page of an entry, the ports its  *)
(* field names, and the server, which probes a limited number at a time,   *)
(* each by a socket that settles once.  Scans share nothing, so there is   *)
(* one at a time.  What a service answers (banner, protocol, round trip)   *)
(* is left out; that it answers, or when it does not, is not.              *)
(***************************************************************************)
EXTENDS Naturals, Sequences, Functions, NumberOrder

CONSTANTS
  MaxPort,     \* bound: 65535 in the code
  TlsPorts,    \* those that are greeted by a TLS handshake
  Fields,      \* what is typed: a set of segments, each the numbers that hyphens separate
  Concurrency, \* how many ports are probed at a time
  MaxScans     \* bound: scans

ASSUME PortScanAssumption ==
  /\ MaxPort \in Nat \ {0} /\ TlsPorts \subseteq 1 .. MaxPort
  /\ \A field \in Fields : IsFiniteSet(field) /\ field \subseteq Seq(Nat)
  /\ Concurrency \in Nat \ {0} /\ MaxScans \in Nat

Ports == 1 .. MaxPort
NotShown == <<>>

VARIABLES
  target,   \* the page's entry: "loading", "private", "public" or "missing"
  scan,     \* "none", "running" or "done", when the page has no answer yet
  waiting, probing, results, \* of scanPorts; probing gives the state of each socket
  summary,  \* portScanResult: how many were scanned and which are open
  scans,    \* how many there have been
  asked,    \* the ports of the scan (history)
  connected, silenced \* those that accepted, and those of them that were not heard (history)

serverVars == <<waiting, probing, results>>
scanHistory == <<asked, connected, silenced>>
portScanVars == <<target, scan, serverVars, summary, scans, scanHistory>>

PortScanTypeOK ==
  /\ target \in {"loading", "private", "public", "missing"} /\ scan \in {"none", "running", "done"}
  /\ waiting \in Seq(Ports) /\ results \in Seq([port : Ports, open : BOOLEAN])
  /\ DOMAIN probing \subseteq Ports
  /\ \A p \in DOMAIN probing : probing[p] \in {"connecting", "listening", "handshake"}
  /\ summary = NotShown \/ summary \in [scanned : Nat, open : Seq(Ports)]
  /\ scans \in 0 .. MaxScans
  /\ asked \subseteq Ports /\ connected \subseteq asked /\ silenced \subseteq connected

NoSockets == [p \in {} |-> "connecting"]

PortScanInit ==
  /\ target = "loading" /\ scan = "none" /\ waiting = <<>> /\ probing = NoSockets /\ results = <<>>
  /\ summary = NotShown /\ scans = 0 /\ asked = {} /\ connected = {} /\ silenced = {}

-----------------------------------------------------------------------------
(* The request.                                                            *)

LoadEntry ==
  /\ target = "loading" /\ target' \in {"private", "public", "missing"}
  /\ UNCHANGED <<scan, serverVars, summary, scans, scanHistory>>

\* A bound of a range that is no port stands for the nearest one.
Clamped(n) == IF n = 0 THEN 1 ELSE IF n > MaxPort THEN MaxPort ELSE n

\* The ports that a segment names: none when it is neither a number nor a range.
Named(segment) ==
  {p \in Ports :
     \/ segment = <<p>>
     \/ /\ Len(segment) = 2
        /\ \E lo, hi \in {Clamped(segment[1]), Clamped(segment[2])} : lo <= p /\ p <= hi}

\* Mutant: a port that two segments name comes twice.
OneByOne(field) ==
  LET twice == {p \in Ports : \E one, other \in field : one # other /\ p \in Named(one) \cap Named(other)}
  IN InOrder(UNION {Named(segment) : segment \in field}) \o InOrder(twice)

\* Every port when the field names none.
parsePorts(field) ==
  LET out == UNION {Named(segment) : segment \in field}
  IN InOrder(IF out = {} THEN Ports ELSE out)

\* What the page sends of its timeout, and which ScanSchema takes.
SentTimeout(ms) == IF ms = 0 THEN 1200 ELSE ms
IsAccepted(ms) == 100 <= ms /\ ms <= 20000

\* Mutant: one socket more than allowed.
KickMore(ports, sockets) ==
  LET room == Concurrency + 1 - Cardinality(DOMAIN sockets)
      n == IF room < Len(ports) THEN room ELSE Len(ports)
      started == {ports[i] : i \in 1 .. n}
  IN /\ waiting' = SubSeq(ports, n + 1, Len(ports))
     /\ probing' = [p \in DOMAIN sockets \cup started |-> IF p \in started THEN "connecting" ELSE sockets[p]]

\* kick: sockets for the ports that wait, as long as there is room.
kick(ports, sockets) ==
  LET room == Concurrency - Cardinality(DOMAIN sockets)
      n == IF room < Len(ports) THEN room ELSE Len(ports)
      started == {ports[i] : i \in 1 .. n}
  IN /\ waiting' = SubSeq(ports, n + 1, Len(ports))
     /\ probing' = [p \in DOMAIN sockets \cup started |-> IF p \in started THEN "connecting" ELSE sockets[p]]

\* The button, which is disabled during a scan.  An address that is not private, or a
\* timeout that is out of range, is an error on the page.
RunPortScan(field, ms) ==
  /\ target \in {"private", "public"} /\ scan = "none" /\ scans < MaxScans
  /\ scans' = scans + 1 /\ summary' = NotShown
  /\ IF target = "private" /\ IsAccepted(SentTimeout(ms))
     THEN /\ scan' = "running" /\ results' = <<>> /\ kick(parsePorts(field), NoSockets)
          /\ asked' = Range(parsePorts(field)) /\ connected' = {} /\ silenced' = {}
     ELSE UNCHANGED <<scan, serverVars, scanHistory>>
  /\ UNCHANGED target

-----------------------------------------------------------------------------
(* The sockets.                                                            *)

\* Mutant: a port counts as open until it refuses.
SettleOpen(p, open) ==
  /\ results' = Append(results, [port |-> p, open |-> open \/ p \notin connected])
  /\ kick(waiting, [q \in DOMAIN probing \ {p} |-> probing[q]])
  /\ scan' = IF DOMAIN probing' = {} THEN "done" ELSE "running"
  /\ UNCHANGED <<target, summary, scans, asked>>

\* finish: the probe of p is over, the next port has its turn, and without one the scan ends.
Settle(p, open) ==
  /\ results' = Append(results, [port |-> p, open |-> open])
  /\ kick(waiting, [q \in DOMAIN probing \ {p} |-> probing[q]])
  /\ scan' = IF DOMAIN probing' = {} THEN "done" ELSE "running"
  /\ UNCHANGED <<target, summary, scans, asked>>

\* Refused, unreachable, or no answer within timeoutMs.
NoConnection(p) ==
  /\ p \in DOMAIN probing /\ probing[p] = "connecting"
  /\ Settle(p, FALSE)
  /\ UNCHANGED <<connected, silenced>>

Connect(p) ==
  /\ p \in DOMAIN probing /\ probing[p] = "connecting"
  /\ probing' = [probing EXCEPT ![p] = IF p \in TlsPorts THEN "handshake" ELSE "listening"]
  /\ connected' = connected \cup {p}
  /\ UNCHANGED <<target, scan, waiting, results, summary, scans, asked, silenced>>

\* The service speaks, or its 300 or 500 ms are over; a handshake succeeds or fails.
Heard(p) ==
  /\ p \in DOMAIN probing /\ probing[p] # "connecting"
  /\ Settle(p, TRUE)
  /\ UNCHANGED <<connected, silenced>>

\* The first socket's events still stand: its error when the connection breaks, and during a
\* handshake its 600 ms, which are over before the 1800 of the TLS socket.
Silenced(p) ==
  /\ p \in DOMAIN probing /\ probing[p] # "connecting"
  /\ Settle(p, FALSE)
  /\ silenced' = silenced \cup {p} /\ UNCHANGED connected

\* Mutant: the ports that were asked are shown.
ShownAsked(found) == [scanned |-> Len(found), open |-> InOrder({r.port : r \in Range(found)})]

\* What scanPorts returns.
Summary(found) ==
  [scanned |-> Len(found), open |-> InOrder({r.port : r \in {x \in Range(found) : x.open}})]

\* The answer reaches the page, or the request fails and the page shows an error.
AnswerScan ==
  /\ scan = "done" /\ scan' = "none"
  /\ summary' = Summary(results) \/ UNCHANGED summary
  /\ UNCHANGED <<target, serverVars, scans, scanHistory>>

PortScanNext ==
  \/ LoadEntry
  \/ \E field \in Fields, ms \in {0, 50, 100} : RunPortScan(field, ms)
  \/ \E p \in Ports : NoConnection(p) \/ Connect(p) \/ Heard(p) \/ Silenced(p)
  \/ AnswerScan

PortScanSpec == PortScanInit /\ [][PortScanNext]_portScanVars

-----------------------------------------------------------------------------
Found == {r.port : r \in Range(results)}

\* Every port of a scan waits, is probed or has its one result, never two of these and
\* never twice; sockets are used up to the limit while ports wait; a scan ends with the last
\* result; and what is then shown as open is what accepted the connection, except
\* what broke it or was slow at the handshake.
ScanIsTrue ==
  /\ asked = Range(waiting) \cup DOMAIN probing \cup Found
  /\ Cardinality(asked) = Len(waiting) + Cardinality(DOMAIN probing) + Len(results)
  /\ Cardinality(DOMAIN probing) <= Concurrency
  /\ waiting # <<>> => Cardinality(DOMAIN probing) = Concurrency
  /\ (scan = "running") = (DOMAIN probing # {})
  /\ summary # NotShown =>
       /\ scan = "none" /\ summary.scanned = Cardinality(asked)
       /\ Range(summary.open) = connected \ silenced
=============================================================================
