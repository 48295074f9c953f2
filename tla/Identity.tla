------------------------------ MODULE Identity ------------------------------
(***************************************************************************)
(* Which row of ip_entries a computer's programs belong to.  Its agent and *)
(* its Manager enrol apart, get rows of agents and managers, and each finds *)
(* the row of ip_entries by the address the computer has at that time: the  *)
(* agent with its first inventory, after which every inventory writes the   *)
(* address into the row (resolveIpEntryId), the Manager when it enrols, and *)
(* never again (resolveManagerIpEntryId).  DHCP moves the computers.        *)
(*                                                                          *)
(* What an inventory stores besides is in InventorySync.  Whether the       *)
(* column ip is unique is in no file of the repository: a statement that    *)
(* writes an address twice may succeed, or fail like any other.  Revocation *)
(* and deletion are left out: they change no link.                          *)
(***************************************************************************)
EXTENDS Naturals, FiniteSets

CONSTANTS
  Hosts,        \* computers
  Ips,          \* addresses
  NoIp,         \* not an address: off the network, or no row
  MaxEntries,   \* bound: rows of ip_entries
  MaxAgents,    \* bound: rows of agents
  MaxManagers,  \* bound: rows of managers
  MaxReports,   \* bound: inventories
  MaxMoves      \* bound: changes of an address, and lost states

Entries == 1 .. MaxEntries
AgentIds == 1 .. MaxAgents
ManagerIds == 1 .. MaxManagers
Reports == 1 .. MaxReports

ASSUME IdentityAssumption ==
  /\ NoIp \notin Ips \cup Hosts /\ IsFiniteSet(Hosts)
  /\ MaxEntries \in Nat /\ MaxAgents \in Nat /\ MaxManagers \in Nat /\ MaxReports \in Nat /\ MaxMoves \in Nat

VARIABLES
  address,    \* where DHCP has put each computer
  moves,      \* changes of an address and lost states so far
  entryIp,    \* ip_entries.ip, NoIp for no row
  agents,     \* agents: the computer it was given to (no column) and ip_entry_id
  agentOf,    \* AgentState: the row the agent speaks for, 0 when not enrolled
  managers,   \* managers, and where the request that inserts the row is
  managerOf,  \* ManagerState, likewise
  reports,    \* requests of POST /agents/inventory in resolveIpEntryId
  holders,    \* the computers that have had an address (history)
  raced       \* the computers with two requests at once (history)

worldVars == <<address, moves>>
identityVars == <<worldVars, entryIp, agents, agentOf, managers, managerOf, reports, holders, raced>>

NoAgent == [host |-> NoIp, entry |-> 0]
NoManager == [host |-> NoIp, entry |-> 0, ip |-> NoIp, at |-> "none"]
NoReport == [agent |-> 0, ip |-> NoIp, entry |-> 0, at |-> "none"]
Over == {"none", "done", "failed"}

IdentityTypeOK ==
  /\ address \in [Hosts -> Ips \cup {NoIp}] /\ moves \in 0 .. MaxMoves
  /\ entryIp \in [Entries -> Ips \cup {NoIp}]
  /\ agents \in [AgentIds -> [host : Hosts, entry : 0 .. MaxEntries] \cup {NoAgent}]
  /\ agentOf \in [Hosts -> 0 .. MaxAgents]
  /\ managers \in [ManagerIds -> [host : Hosts, entry : 0 .. MaxEntries, ip : Ips,
                                  at : {"find", "insert", "link", "reply"} \cup Over] \cup {NoManager}]
  /\ managerOf \in [Hosts -> 0 .. MaxManagers]
  /\ reports \in [Reports -> [agent : AgentIds, ip : Ips, entry : 0 .. MaxEntries,
                              at : {"update", "find", "insert", "link"} \cup Over] \cup {NoReport}]
  /\ holders \in [Ips -> SUBSET Hosts] /\ raced \subseteq Hosts

\* The computers have addresses, and rows may have been entered by hand, before any agent came.
IdentityInit ==
  /\ address \in [Hosts -> Ips \cup {NoIp}] /\ \A h, k \in Hosts : address[h] = address[k] => h = k \/ address[h] = NoIp
  /\ moves = 0
  /\ entryIp \in {[e \in Entries |-> IF e = 1 THEN ip ELSE NoIp] : ip \in Ips \cup {NoIp}}
  /\ agents = [a \in AgentIds |-> NoAgent] /\ agentOf = [h \in Hosts |-> 0]
  /\ managers = [m \in ManagerIds |-> NoManager] /\ managerOf = [h \in Hosts |-> 0]
  /\ reports = [r \in Reports |-> NoReport]
  /\ holders = [ip \in Ips |-> {h \in Hosts : address[h] = ip}] /\ raced = {}

Rows(ip) == {e \in Entries : entryIp[e] = ip}
HostOf(r) == agents[reports[r].agent].host
\* The requests of a computer that look for its row
Busy(h) ==
  \/ \E r \in Reports : reports[r].at \notin Over /\ HostOf(r) = h
  \/ \E m \in ManagerIds : managers[m].host = h /\ managers[m].at \in {"find", "insert", "link"}
Races(h) == raced' = IF Busy(h) THEN raced \cup {h} ELSE raced

-----------------------------------------------------------------------------
(* The computers *)

Move(h) ==
  /\ moves < MaxMoves
  /\ moves' = moves + 1
  /\ \E ip \in Ips \cup {NoIp} :
       /\ \A k \in Hosts : ip # NoIp => address[k] # ip
       /\ ip # address[h]
       /\ address' = [address EXCEPT ![h] = ip]
       /\ holders' = IF ip = NoIp THEN holders ELSE [holders EXCEPT ![ip] = @ \cup {h}]
  /\ UNCHANGED <<entryIp, agents, agentOf, managers, managerOf, reports, raced>>

\* The state files of a computer's programs are lost: both enrol again and get new rows.
LoseState(h) ==
  /\ moves < MaxMoves
  /\ agentOf[h] # 0 \/ managerOf[h] # 0
  /\ moves' = moves + 1
  /\ agentOf' = [agentOf EXCEPT ![h] = 0] /\ managerOf' = [managerOf EXCEPT ![h] = 0]
  /\ UNCHANGED <<address, entryIp, agents, managers, reports, holders, raced>>

-----------------------------------------------------------------------------
(* The agent *)

\* enrollAgent inserts a row whose ip_entry_id is NULL; the reply may be lost, and the agent,
\* which is not enrolled, comes again.
EnrollAgent(h) ==
  /\ agentOf[h] = 0 /\ address[h] # NoIp
  /\ \E a \in AgentIds :
       /\ agents[a] = NoAgent /\ \A b \in 1 .. (a - 1) : agents[b] # NoAgent
       /\ agents' = [agents EXCEPT ![a] = [host |-> h, entry |-> 0]]
       /\ agentOf' \in {agentOf, [agentOf EXCEPT ![h] = a]}
  /\ UNCHANGED <<worldVars, entryIp, managers, managerOf, reports, holders, raced>>

\* Mutant: the link of the agent is not read.
StartReportUnlinked(r) ==
  /\ reports[r] = NoReport /\ \A q \in 1 .. (r - 1) : reports[q] # NoReport
  /\ \E h \in Hosts :
       /\ agentOf[h] # 0 /\ address[h] # NoIp
       /\ reports' = [reports EXCEPT ![r] = [agent |-> agentOf[h], ip |-> address[h], entry |-> 0, at |-> "find"]]
       /\ Races(h)
  /\ UNCHANGED <<worldVars, entryIp, agents, agentOf, managers, managerOf, holders>>

\* A request for an inventory: authenticateAgent reads ip_entry_id; the body holds the address.
StartReport(r) ==
  /\ reports[r] = NoReport /\ \A q \in 1 .. (r - 1) : reports[q] # NoReport
  /\ \E h \in Hosts :
       LET a == agentOf[h] IN
       /\ a # 0 /\ address[h] # NoIp
       /\ reports' = [reports EXCEPT ![r] =
            [agent |-> a, ip |-> address[h], entry |-> agents[a].entry,
             at |-> IF agents[a].entry # 0 THEN "update" ELSE "find"]]
       /\ Races(h)
  /\ UNCHANGED <<worldVars, entryIp, agents, agentOf, managers, managerOf, holders>>

\* Mutant: the row of an agent that has one is left as it is.
KeepEntry(r) ==
  /\ reports[r].at = "update"
  /\ reports' = [reports EXCEPT ![r].at = "done"]
  /\ UNCHANGED <<worldVars, entryIp, agents, agentOf, managers, managerOf, holders, raced>>

\* The agent has a row: the address is written into it (updateIpEntryPatch).
UpdateEntry(r) ==
  LET e == reports[r].entry IN
  /\ reports[r].at = "update"
  /\ entryIp' = [entryIp EXCEPT ![e] = reports[r].ip]
  /\ reports' = [reports EXCEPT ![r].at = "done"]
  /\ UNCHANGED <<worldVars, agents, agentOf, managers, managerOf, holders, raced>>

\* It has none: findIpEntryIdByIp.
FindEntry(r) ==
  LET found == Rows(reports[r].ip) IN
  /\ reports[r].at = "find"
  /\ \/ found = {} /\ reports' = [reports EXCEPT ![r].at = "insert"]
     \/ \E e \in found : reports' = [reports EXCEPT ![r].at = "link", ![r].entry = e]
  /\ UNCHANGED <<worldVars, entryIp, agents, agentOf, managers, managerOf, holders, raced>>

\* insertIpEntry gives the next row.
Insert(ip, e) ==
  /\ entryIp[e] = NoIp /\ \A d \in Entries : d < e => (entryIp[d] # NoIp \/ d = 1)
  /\ entryIp' = [entryIp EXCEPT ![e] = ip]

InsertEntry(r) ==
  /\ reports[r].at = "insert"
  /\ \E e \in Entries \ {1} :
       /\ Insert(reports[r].ip, e)
       /\ reports' = [reports EXCEPT ![r].at = "link", ![r].entry = e]
  /\ UNCHANGED <<worldVars, agents, agentOf, managers, managerOf, holders, raced>>

LinkAgent(r) ==
  /\ reports[r].at = "link"
  /\ agents' = [agents EXCEPT ![reports[r].agent].entry = reports[r].entry]
  /\ reports' = [reports EXCEPT ![r].at = "done"]
  /\ UNCHANGED <<worldVars, entryIp, agentOf, managers, managerOf, holders, raced>>

-----------------------------------------------------------------------------
(* The Manager *)

\* enrollManager inserts a row; a Manager that got no reply comes again.
EnrollManager(m) ==
  /\ managers[m] = NoManager /\ \A n \in 1 .. (m - 1) : managers[n] # NoManager
  /\ \E h \in Hosts :
       /\ managerOf[h] = 0 /\ address[h] # NoIp
       /\ managers' = [managers EXCEPT ![m] = [host |-> h, entry |-> 0, ip |-> address[h], at |-> "find"]]
       /\ Races(h)
  /\ UNCHANGED <<worldVars, entryIp, agents, agentOf, managerOf, reports, holders>>

\* Mutant: the Manager does not look for a row.
FindNothing(m) ==
  /\ managers[m].at = "find"
  /\ managers' = [managers EXCEPT ![m].at = "insert"]
  /\ UNCHANGED <<worldVars, entryIp, agents, agentOf, managerOf, reports, holders, raced>>

FindForManager(m) ==
  LET found == Rows(managers[m].ip) IN
  /\ managers[m].at = "find"
  /\ \/ found = {} /\ managers' = [managers EXCEPT ![m].at = "insert"]
     \/ \E e \in found : managers' = [managers EXCEPT ![m].at = "link", ![m].entry = e]
  /\ UNCHANGED <<worldVars, entryIp, agents, agentOf, managerOf, reports, holders, raced>>

InsertForManager(m) ==
  /\ managers[m].at = "insert"
  /\ \E e \in Entries \ {1} :
       /\ Insert(managers[m].ip, e)
       /\ managers' = [managers EXCEPT ![m].at = "link", ![m].entry = e]
  /\ UNCHANGED <<worldVars, agents, agentOf, managerOf, reports, holders, raced>>

LinkManager(m) ==
  /\ managers[m].at = "link"
  /\ managers' = [managers EXCEPT ![m].at = "reply"]
  /\ UNCHANGED <<worldVars, entryIp, agents, agentOf, managerOf, reports, holders, raced>>

\* The reply arrives, and the Manager saves its state, or is lost.
ReplyToManager(m) ==
  LET h == managers[m].host IN
  /\ managers[m].at = "reply"
  /\ managers' = [managers EXCEPT ![m].at = "done"]
  /\ managerOf' \in {managerOf, IF managerOf[h] = 0 THEN [managerOf EXCEPT ![h] = m] ELSE managerOf}
  /\ UNCHANGED <<worldVars, entryIp, agents, agentOf, reports, holders, raced>>

-----------------------------------------------------------------------------
(* A statement fails (the database refuses an address, too) or the server stops: what the request *)
(* has done so far stays.                                                                         *)

ReportFails(r) ==
  /\ reports[r].at \notin Over
  /\ reports' = [reports EXCEPT ![r].at = "failed"]
  /\ UNCHANGED <<worldVars, entryIp, agents, agentOf, managers, managerOf, holders, raced>>

EnrolmentFails(m) ==
  /\ managers[m].at \in {"find", "insert", "link"}
  /\ managers' = [managers EXCEPT ![m].at = "failed", ![m].entry = 0]
  /\ UNCHANGED <<worldVars, entryIp, agents, agentOf, managerOf, reports, holders, raced>>

ReportNext ==
  \E r \in Reports : StartReport(r) \/ UpdateEntry(r) \/ FindEntry(r) \/ InsertEntry(r)
                   \/ LinkAgent(r) \/ ReportFails(r)
ManagerNext ==
  \E m \in ManagerIds :
    EnrollManager(m) \/ FindForManager(m) \/ InsertForManager(m) \/ LinkManager(m)
    \/ ReplyToManager(m) \/ EnrolmentFails(m)
IdentityNext == (\E h \in Hosts : Move(h) \/ LoseState(h) \/ EnrollAgent(h)) \/ ReportNext \/ ManagerNext

IdentitySpec == IdentityInit /\ [][IdentityNext]_identityVars

-----------------------------------------------------------------------------
(* Properties. *)

\* An agent that has a row of ip_entries keeps it: a new address does not give the computer a second
\* row (the comment of resolveIpEntryId), unless two of its requests ran at once, both
\* authenticated before either had linked the agent.
LinkIsKept ==
  [][\A a \in AgentIds : agents[a].entry # 0 /\ agents'[a].entry # agents[a].entry
                           => agents[a].host \in raced]_identityVars

\* The newest inventory of a computer has left its address in the row its agent is linked to, so
\* that the ping loop and the administrators reach the computer, unless an inventory of another
\* computer was for the same row, or requests of the computer ran at once.
EntryFollowsAddress ==
  \A r \in Reports :
    /\ reports[r].at = "done" /\ HostOf(r) \notin raced
    /\ \A q \in Reports : q > r /\ reports[q].at = "done" => HostOf(q) # HostOf(r)
    /\ \A q \in Reports : reports[q].at = "done" /\ reports[q].entry = reports[r].entry => HostOf(q) = HostOf(r)
    => /\ agents[reports[r].agent].entry = reports[r].entry
       /\ entryIp[reports[r].entry] = reports[r].ip

\* The row identifies the computer: the agents of two computers are linked to one row only when one
\* computer has had the address of another, and the Manager and the agent of a computer are
\* linked to one row (the comment of findManagerByIpEntryId, whose query is all that connects
\* them) unless the computer has moved, its address has been another's, or both looked for the
\* row at once.
EntryIdentifiesComputer ==
  /\ \A a, b \in AgentIds :
       agents[a].entry # 0 /\ agents[a].entry = agents[b].entry /\ agents[a].host # agents[b].host
       => \E ip \in Ips : Cardinality(holders[ip]) > 1
  /\ \A h \in Hosts \ raced : \A ip \in Ips :
       /\ holders[ip] = {h} /\ \A other \in Ips \ {ip} : h \notin holders[other]
       /\ agentOf[h] # 0 /\ agents[agentOf[h]].entry # 0 /\ managerOf[h] # 0
       => managers[managerOf[h]].entry = agents[agentOf[h]].entry

\* A computer is found under one row of ip_entries, and that row is its own (both of the above).
RowsAreTheComputers == EntryFollowsAddress /\ EntryIdentifiesComputer
=============================================================================
