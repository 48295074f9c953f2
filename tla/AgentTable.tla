------------------------------ MODULE AgentTable ------------------------------
(***************************************************************************)
(* The table agents, what it is joined with, and the queries that describe *)
(* it: the list and its filters, the ids for "select all", the options of  *)
(* the filters, the figures of the daily report and the notifications.     *)
(*                                                                         *)
(* An agent's last heartbeat is kept as its age in half seconds: the       *)
(* database counts whole seconds, the service milliseconds.  Filters on    *)
(* columns that are treated as the ones here are left out; so is the limit *)
(* of 1000 ids.  An agent's antivirus stands for its firewall as well.     *)
(***************************************************************************)
EXTENDS Integers, FiniteSets

CONSTANTS
  AgentIds,       \* in the order of enrolment
  Hosts, NoHost,  \* ip_entries
  HostSite,
  Anywhere,       \* no filter on the site
  GroupNames, Versions, NoVersion,
  Ages,           \* of a heartbeat; Never for none
  Never,
  FirstFleet,     \* the rows at the start
  MaxChanges      \* bound

Antivirus == {"enabled", "disabled", "unknown"}
FleetRows == [active : BOOLEAN, age : Ages \cup {Never}, host : Hosts \cup {NoHost},
              groups : SUBSET GroupNames, version : Versions \cup {NoVersion},
              antivirus : Antivirus]

ASSUME AgentTableAssumption ==
  /\ AgentIds \subseteq Nat /\ Ages \subseteq Nat /\ 0 \in Ages /\ Never \notin Ages
  /\ Versions \subseteq Nat /\ NoVersion \notin Versions
  /\ NoHost \notin Hosts /\ MaxChanges \in Nat
  /\ IsFiniteSet(DOMAIN FirstFleet) /\ DOMAIN FirstFleet \subseteq AgentIds
  /\ \A a \in DOMAIN FirstFleet : FirstFleet[a] \in FleetRows

VARIABLES
  fleet,     \* [id -> row]
  hosts,     \* what the entries say: the ping's state, the versions of active Managers
  changes    \* bounded by MaxChanges

fleetVars == <<fleet, hosts, changes>>

Classes == {"online", "stale", "offline", "unknown"}

FleetTypeOK ==
  /\ DOMAIN fleet \subseteq AgentIds /\ changes \in 0..MaxChanges
  /\ \A a \in DOMAIN fleet : fleet[a] \in FleetRows
  /\ hosts \in [Hosts -> [online : BOOLEAN, managers : SUBSET (Versions \cup {NoVersion})]]

-----------------------------------------------------------------------------
(* What changes the table.                                                 *)

ChangeFleet(new) == changes < MaxChanges /\ changes' = changes + 1 /\ fleet' = new

\* enrollAgent and insertAgent
NewRow(version) == [active |-> TRUE, age |-> Never, host |-> NoHost, groups |-> {},
                    version |-> version, antivirus |-> "unknown"]
InsertAgent(a, version) ==
  /\ \A b \in DOMAIN fleet : b < a
  /\ ChangeFleet([b \in DOMAIN fleet \cup {a} |->
       IF b = a THEN NewRow(version) ELSE fleet[b]])
  /\ UNCHANGED hosts

FleetInit ==
  /\ fleet = FirstFleet /\ changes = 0
  /\ hosts = [h \in Hosts |-> [online |-> FALSE, managers |-> {}]]

\* heartbeat, with what the monitoring found
HeartbeatOf(a, version, antivirus) ==
  /\ fleet[a].active
  /\ ChangeFleet([fleet EXCEPT ![a].age = 0, ![a].version = version, ![a].antivirus = antivirus])
  /\ UNCHANGED hosts

LinkToHost(a, h) == ChangeFleet([fleet EXCEPT ![a].host = h]) /\ UNCHANGED hosts
RevokeRow(a) == ChangeFleet([fleet EXCEPT ![a].active = FALSE]) /\ UNCHANGED hosts

\* deleteAgentService
DeleteAgentRow(a) ==
  /\ ~fleet[a].active /\ ChangeFleet([b \in DOMAIN fleet \ {a} |-> fleet[b]]) /\ UNCHANGED hosts

\* addAgentsDeploymentGroupService: an agent that is not there is skipped.
AddGroup(ids, g) ==
  /\ ChangeFleet([a \in DOMAIN fleet |->
       IF a \in ids THEN [fleet[a] EXCEPT !.groups = @ \cup {g}] ELSE fleet[a]])
  /\ UNCHANGED hosts
RemoveGroup(a, g) == ChangeFleet([fleet EXCEPT ![a].groups = @ \ {g}]) /\ UNCHANGED hosts

\* The ping loop; a Manager that enrols, updates or is revoked.
OtherWriters(h) ==
  /\ ChangeFleet(fleet)
  /\ \/ hosts' = [hosts EXCEPT ![h].online = ~@]
     \/ \E v \in Versions \cup {NoVersion} :
          hosts' = [hosts EXCEPT ![h].managers = (@ \cup {v}) \ (@ \cap {v})]

Older(age) ==
  IF \A b \in Ages : age = Never \/ b <= age THEN age
  ELSE CHOOSE b \in Ages : b > age /\ \A c \in Ages : c > age => b <= c
Wait ==
  /\ fleet' = [a \in DOMAIN fleet |-> [fleet[a] EXCEPT !.age = Older(@)]]
  /\ UNCHANGED <<hosts, changes>>

FleetNext ==
  \/ \E a \in AgentIds, v \in Versions \cup {NoVersion} : InsertAgent(a, v)
  \/ \E a \in DOMAIN fleet :
       \/ \E v \in Versions, s \in Antivirus : HeartbeatOf(a, v, s)
       \/ \E h \in Hosts : LinkToHost(a, h)
       \/ RevokeRow(a) \/ DeleteAgentRow(a)
       \/ \E g \in GroupNames : RemoveGroup(a, g)
  \/ \E ids \in SUBSET AgentIds, g \in GroupNames : AddGroup(ids, g)
  \/ \E h \in Hosts : OtherWriters(h)
  \/ Wait

FleetSpec == FleetInit /\ [][FleetNext]_fleetVars

-----------------------------------------------------------------------------
(* The queries.                                                            *)

\* CONNECTIVITY_STATUS_SQL: TIMESTAMPDIFF in whole seconds.
Connectivity(a) ==
  LET age == fleet[a].age IN
  IF age = Never THEN "unknown"
  ELSE IF age \div 2 <= 300 THEN "online"
  ELSE IF age \div 2 <= 1800 THEN "stale" ELSE "offline"

\* computeConnectivityStatus, which the list shows.
ComputedConnectivity(a) ==
  LET age == fleet[a].age IN
  IF age = Never THEN "unknown"
  ELSE IF age <= 600 THEN "online" ELSE IF age <= 3600 THEN "stale" ELSE "offline"

Linked(a) == fleet[a].host # NoHost
ManagersOn(a) == IF Linked(a) THEN hosts[fleet[a].host].managers ELSE {}
AtPlace(place) ==
  {a \in DOMAIN fleet : place = Anywhere \/ (Linked(a) /\ HostSite[fleet[a].host] = place)}

AnyAgent ==
  [status |-> "all", connectivity |-> "any", site |-> Anywhere, groups |-> {}, noGroup |-> FALSE,
   version |-> {}, versionNot |-> {}, antivirusInactive |-> FALSE, offlineIpOnline |-> FALSE,
   managerChannel |-> "any", managerVersion |-> {}, managerVersionNot |-> {}]

\* buildAgentsWhereClause
AgentsWhere(f) ==
  {a \in AtPlace(f.site) :
     LET r == fleet[a] IN
     /\ f.status # "all" => r.active = (f.status = "active")
     /\ f.connectivity # "any" => Connectivity(a) = f.connectivity
     /\ f.groups # {} => r.groups \cap f.groups # {}
     /\ f.noGroup => r.groups = {}
     /\ f.version # {} => r.version \in f.version
     /\ r.version \notin f.versionNot
     /\ f.antivirusInactive => r.antivirus # "enabled"
     /\ f.offlineIpOnline => Connectivity(a) # "online" /\ Linked(a) /\ hosts[r.host].online
     /\ f.managerChannel # "any" => (ManagersOn(a) # {}) = (f.managerChannel = "true")
     /\ f.managerVersion # {} => ManagersOn(a) \cap f.managerVersion # {}
     /\ ManagersOn(a) \cap f.managerVersionNot = {}}

\* The list joins the Managers, its total does not; a page beyond the last is empty.
WithManagers(found) ==
  {x \in found \X (Versions \cup {NoVersion}) :
     x[2] \in ManagersOn(x[1]) \/ (x[2] = NoVersion /\ ManagersOn(x[1]) = {})}
Later(x, y) ==
  \/ x[1] > y[1]
  \/ x[1] = y[1] /\ x[2] # y[2] /\ (y[2] = NoVersion \/ (x[2] # NoVersion /\ x[2] > y[2]))
ListAgents(f, number, limit) ==
  LET total == Cardinality(AgentsWhere(f))
      joined == WithManagers(AgentsWhere(f))
  IN [items |-> {x \in joined : Cardinality({y \in joined : Later(y, x)})
                                  \in (number - 1) * limit .. number * limit - 1},
      total |-> total, totalPages |-> (total + limit - 1) \div limit]

ListAgentIds(f) == AgentsWhere(f)

DistinctVersions(place) == {fleet[a].version : a \in AtPlace(place)} \ {NoVersion}
DistinctManagerVersions(place) == (UNION {ManagersOn(a) : a \in AtPlace(place)}) \ {NoVersion}
DistinctDeploymentGroups(place) == UNION {fleet[a].groups : a \in AtPlace(place)}

\* GROUP BY status is by the column of that name, which is 'active' in every row: all are counted
\* under the class of one of them.
CountsByConnectivity(place) ==
  LET found == {a \in AtPlace(place) : fleet[a].active}
      None == [c \in Classes |-> 0]
  IN IF found = {} THEN {None}
     ELSE {[None EXCEPT ![Connectivity(a)] = Cardinality(found)] : a \in found}

\* Mutant: the condition on the status is forgotten.
OfflineIpOnlineOfAnyStatus(place) ==
  {a \in AtPlace(place) : Linked(a) /\ hosts[fleet[a].host].online /\ Connectivity(a) # "online"}

AgentOfflineButIpOnline(place) ==
  {a \in AtPlace(place) : /\ fleet[a].active /\ Linked(a) /\ hosts[fleet[a].host].online
                          /\ Connectivity(a) # "online"}

AntivirusInactiveAgents(place) == {a \in AtPlace(place) : fleet[a].antivirus = "disabled"}

-----------------------------------------------------------------------------
(* What the queries tell of each other.                                    *)

\* Two sets of filters between which every agent of the place is in exactly one.
Splits(place, f, g) ==
  /\ AgentsWhere(f) \cap AgentsWhere(g) = {}
  /\ AgentsWhere(f) \cup AgentsWhere(g) = AtPlace(place)

OptionsAgree(place) ==
  LET base == [AnyAgent EXCEPT !.site = place] IN
  /\ \A v \in Versions :
       LET on == [base EXCEPT !.version = {v}]
           managed == [base EXCEPT !.managerVersion = {v}]
       IN /\ v \in DistinctVersions(place) <=> AgentsWhere(on) # {}
          /\ v \in DistinctManagerVersions(place) <=> AgentsWhere(managed) # {}
          /\ Splits(place, on, [base EXCEPT !.versionNot = {v}])
          /\ Splits(place, managed, [base EXCEPT !.managerVersionNot = {v}])
          /\ AgentsWhere(managed) \subseteq AgentsWhere([base EXCEPT !.managerChannel = "true"])
  /\ Splits(place, [base EXCEPT !.managerChannel = "true"],
            [base EXCEPT !.managerChannel = "false"])
  /\ GroupNames # {} =>
       Splits(place, [base EXCEPT !.noGroup = TRUE], [base EXCEPT !.groups = GroupNames])
  /\ \A g \in GroupNames :
       g \in DistinctDeploymentGroups(place) <=> AgentsWhere([base EXCEPT !.groups = {g}]) # {}

\* The figures are those of the filters, but for three differences of the code.  Where the active agents
\* are of several classes the figures of the classes are not what the filter by each of them finds,
\* although agents.repo.js:571-574 says so: only their sum is right (CountsByConnectivity).  The alert
\* counts the active ones of the agents its link lists (notifications.service.js:88 has no status).  An
\* antivirus of which nothing is known is found by the filter and not counted.
CountsAgree(place) ==
  LET base == [AnyAgent EXCEPT !.site = place]
      Active == [AnyAgent EXCEPT !.site = place, !.status = "active"]
      OfClass(c) == AgentsWhere([Active EXCEPT !.connectivity = c])
      OfOneClass == \E c \in Classes : OfClass(c) = AgentsWhere(Active)
  IN /\ UNION {OfClass(c) : c \in Classes} = AgentsWhere(Active)
     /\ \A count \in CountsByConnectivity(place) :
          /\ count["online"] + count["stale"] + count["offline"] + count["unknown"] =
               Cardinality(AgentsWhere(Active))
          /\ OfOneClass => \A c \in Classes : count[c] = Cardinality(OfClass(c))
     /\ AgentOfflineButIpOnline(place) =
          {a \in AgentsWhere([base EXCEPT !.offlineIpOnline = TRUE]) : fleet[a].active}
     /\ AntivirusInactiveAgents(place) =
          {a \in AgentsWhere([base EXCEPT !.antivirusInactive = TRUE]) : fleet[a].antivirus # "unknown"}

\* Unless a computer has two active Managers, the pages hold what "select all" selects.
PagesAgree(f, limit) ==
  LET first == ListAgents(f, 1, limit)
      pages == {ListAgents(f, n, limit).items : n \in 1..first.totalPages}
  IN /\ UNION {{x[1] : x \in p} : p \in pages} = ListAgentIds(f)
     /\ \A p \in pages : p # {}

\* The class that the list shows is the one it was filtered by, but in the second after a threshold.
ShownClassAgrees ==
  \A a \in DOMAIN fleet :
    ComputedConnectivity(a) = Connectivity(a) \/ fleet[a].age \in {601, 3601}

\* The list, its filters with their options, "select all", the figures and the notifications are
\* queries of their own over one table, and tell the same of it (agents.repo.js, notifications.repo.js),
\* but for the differences that CountsAgree and PagesAgree name: the figures of the classes of
\* connectivity agree only in their sum when the agents of a place are of several classes.
FleetAgrees ==
  /\ ShownClassAgrees
  /\ \A place \in {HostSite[h] : h \in Hosts} \cup {Anywhere} :
       OptionsAgree(place) /\ CountsAgree(place)
  /\ (\A h \in Hosts : Cardinality(hosts[h].managers) < 2) =>
       \A limit \in {1, 2}, c \in Classes \cup {"any"} :
         PagesAgree([AnyAgent EXCEPT !.connectivity = c], limit)
=============================================================================
