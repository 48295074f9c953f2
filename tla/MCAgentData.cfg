SPECIFICATION MCSpec
\* Deadlock is not an error: the bounded requests of a part come to an end.
CONSTANTS
  None = None
  dom = dom
  Domains = {dom}
  MaxRequests = 2
  MaxPerCycle = 1
  MaxEvents = 2
  MaxSeen = 2
  MaxStarts = 2
  NoIp = NoIp
  pc1 = pc1
  pc2 = pc2
  Hosts = {pc1, pc2}
  ip1 = ip1
  ip2 = ip2
  Ips = {ip1, ip2}
  MaxEntries = 3
  MaxAgents = 2
  MaxManagers = 1
  MaxReports = 2
  MaxMoves = 2
  MaxSyncs = 2
  MaxFaults = 3
INVARIANTS
  TypesOK
  PassedEventsAreAccounted
  EventsStoredOnce
  CountsAreAccounted
  ExemptIsSpared
  RowsAreTheComputers
  StoredIsReported
PROPERTIES
  LinkIsKept
CHECK_DEADLOCK FALSE
