SPECIFICATION MCSpec
\* Deadlock is not an error: the bounded histories of a part come to an end.
CONSTANTS
  MaxCommands = 2
  MaxFetches = 2
  Items = {i1}
  SiteOrder <- MCSites
  Unlinked = Unlinked
  DayLength = 2
  MaxHour = 6
  MaxFailures = 1
  root = root
  user = user
  p1 = p1
  p2 = p2
  Users = {root, user}
  Root = root
  Texts = {p1, p2}
  Requests = {1, 2}
  People = {pa, pb}
  NoOne = NoOne
  Fetching = {1, 2}
  all = all
  some = some
  Filters = {all, some}
  AllAgents = all
  Nothing = Nothing
  MayGo = {2}
  MaxOut = 1
  Matches <- MCMatches
  MaxPresses = 2
  Tabs = {t1, t2}
  MaxEndpoints = 2
  e1 = e1
  e2 = e2
  e3 = e3
  Entries = {e1, e2, e3}
  SiteOf <- MCSiteOf
  Findings <- MCFindings
  Reporting = {e1}
  Editable = {e3}
  LastDay = 91
  Everywhere = Everywhere
  Blank = Blank
  Unknown = Unknown
  UltravncNames = {"uvnc_service"}
  ManagerNames = {"netdeskagentmanager"}
  UsualPaths = {"windows", "programs"}
  BrandsIn <- MCBrandsIn
  Ids = {1, 2, 3, 4}
  Ips = {1, 2, 3, 4}
  ComputerNames = {"pc1", "PC2"}
  Departments = {"lab"}
  Locations = {"bolnica", "dom_zdravlja"}
  NoText = NoText
  Key <- MCKey
  Usable <- MCUsable
  FirstEntries <- MCEntries
  Limits = {2}
  MaxEdits = 2
  Kinds = {"software", "services"}
  Labels = {"office", "office pro"}
  Makers = {"maker"}
  AnyMaker = AnyMaker
  Within <- MCWithin
  Machines = {1, 2}
  Detected <- MCDetected
  AgentsOn <- MCAgentsOn
  MaxRules = 2
  AgentIds = {1, 2, 3}
  Hosts = {1, 2}
  NoHost = NoHost
  HostSite <- MCHostSite
  Anywhere = Anywhere
  GroupNames = {"win10"}
  Versions = {1, 2}
  NoVersion = NoVersion
  Ages = {0, 600, 602, 3601, 3602}
  Never = Never
  FirstFleet <- MCFirstFleet
  MaxChanges = 2
  PrinterIds = {1}
  ComputerIds = {1, 2}
  PrinterSites = {"bolnica", "dom_zdravlja"}
  Handlers = {1, 2}
  MaxHandled = 3
  here = here
  SiteNames = {here, there}
  Searches = {NoSearch, Query1}
  NoSearch = NoSearch
  MaxRequests = 2
  MaxMoves = 2
  MaxLost = 1
INVARIANTS
  TypesOK
  ReplyIsWorkedThrough
  WithdrawnNeverRuns
  NothingIsLostOrRepeated
  AnAdminRemains
  ChosenPasswordStands
  ShownUserIsSession
  SentAsConfirmed
  PollsWhileWatched
  BellMeansPush
  ShownAgrees
PROPERTIES
  ImplementsManagerQueue
CHECK_DEADLOCK FALSE
