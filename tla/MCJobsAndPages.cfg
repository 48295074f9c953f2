SPECIFICATION MCSpec
\* Deadlock is checked by MCAgentJobs.cfg; here the other parts stop at their bounds.
CHECK_DEADLOCK FALSE
CONSTANTS
  a1 = a1
  p1 = p1
  p2 = p2
  Agents = {a1}
  Polls = {p1, p2}
  PollAgent <- MCPollAgent
  MaxJobs = 1
  None = None
  n1 = n1
  n2 = n2
  Places = {"home", "edit-ip", "dns-logs"}
  Roles = {"viewer", "operator"}
  NoSite = NoSite
  MaxMoves = 4
  Names = {n1, n2}
  NoText = NoText
  MaxWrites = 3
  Domains <- MCDomains
  Seen <- MCDomains
  Offers <- MCOffers
  ChunkSize = 2
  MaxRounds = 2
  MaxChanges = 2
  MaxDomain = 3
  Matching = {2}
  PageSize = 1
  MaxFetches = 2
  MaxEvents = 3
  MaxPort = 4
  TlsPorts = {3}
  Fields <- MCFields
  Concurrency = 2
  MaxScans = 2
INVARIANTS
  PartsAreSound
PROPERTIES
  EarlyCancelIsEffective
  PendingIsPickedUp
  SentIsResolvedOrLost
