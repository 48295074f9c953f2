------------------------------ MODULE MCConsole ------------------------------
(* What administrators and the browser do, in one run for TLC: the modules share no variable, so     *)
(* that one of them moves, chosen at the start, and the others stand still.                        *)
EXTENDS ManagerJobs, DailyReports, Accounts, UserSession, AgentList, JobPages,
  PushSubscription, ConsoleViews, MCTables

CONSTANTS root, user, p1, p2, all, some, here

VARIABLE part

MCSites == <<"bolnica", "dom_zdravlja">>
MCMatches == [f \in {all, some} |-> IF f = all THEN {1, 2} ELSE {2}]

\* Which text an account's first password is makes no difference, nor what a part starts with
\* that stands still.  One old account, and computers that reported all or none, are enough.
MCInit ==
  /\ part \in {"manager", "reports", "accounts", "session", "list", "pages", "push", "views",
               "analytics", "entries", "flagged", "fleet", "printers"}
  /\ ManagerInit /\ ReportsInit /\ SessionInit /\ SubscriptionInit
  /\ AccountsInit /\ (\A u \in Users : users[u].text = NoRow.text) /\ users[root].hashed
  /\ part # "accounts" => users[user] = NoRow
  /\ Exists(user) => ~users[user].hashed
  /\ ListInit /\ (part # "list" => selected = {} /\ ~repeating)
  /\ JobPagesInit /\ (part # "pages" => view = "batch" /\ unfinished = {})
  /\ ViewsInit /\ currentSite = here /\ (part # "views" => opened = "free")
  /\ AnalyticsInit /\ Holders(stored.software) \in {{}, IF part = "analytics" THEN Entries ELSE {}}
  /\ EntriesInit /\ FlaggedInit /\ FleetInit
  /\ PrintersInit /\ (part # "printers" => DOMAIN printers = {})

serverVars == <<managerVars, reportsVars, accountVars>>
browserVars == <<sessionVars, listVars, jobPagesVars, subscriptionVars, viewsVars>>
tableVars == <<analyticsVars, entriesVars, flaggedVars, fleetVars, printersVars>>

MCNext ==
  /\ UNCHANGED part
  /\ \/ /\ part = "manager" /\ ManagerNext
        /\ UNCHANGED <<reportsVars, accountVars, browserVars, tableVars>>
     \/ /\ part = "reports" /\ ReportsNext
        /\ UNCHANGED <<managerVars, accountVars, browserVars, tableVars>>
     \/ /\ part = "accounts" /\ AccountsNext
        /\ UNCHANGED <<managerVars, reportsVars, browserVars, tableVars>>
     \/ /\ part = "session" /\ SessionNext
        /\ UNCHANGED <<listVars, jobPagesVars, subscriptionVars, viewsVars, serverVars, tableVars>>
     \/ /\ part = "list" /\ ListNext
        /\ UNCHANGED <<sessionVars, jobPagesVars, subscriptionVars, viewsVars, serverVars, tableVars>>
     \/ /\ part = "pages" /\ JobPagesNext
        /\ UNCHANGED <<sessionVars, listVars, subscriptionVars, viewsVars, serverVars, tableVars>>
     \/ /\ part = "push" /\ SubscriptionNext
        /\ UNCHANGED <<sessionVars, listVars, jobPagesVars, viewsVars, serverVars, tableVars>>
     \/ /\ part = "views" /\ ViewsNext
        /\ UNCHANGED <<sessionVars, listVars, jobPagesVars, subscriptionVars, serverVars, tableVars>>
     \/ /\ part = "analytics" /\ AnalyticsNext
        /\ UNCHANGED <<entriesVars, flaggedVars, fleetVars, printersVars, serverVars, browserVars>>
     \/ /\ part = "entries" /\ EntriesNext
        /\ UNCHANGED <<analyticsVars, flaggedVars, fleetVars, printersVars, serverVars, browserVars>>
     \/ /\ part = "flagged" /\ FlaggedNext
        /\ UNCHANGED <<analyticsVars, entriesVars, fleetVars, printersVars, serverVars, browserVars>>
     \/ /\ part = "fleet" /\ FleetNext
        /\ UNCHANGED <<analyticsVars, entriesVars, flaggedVars, printersVars, serverVars, browserVars>>
     \/ /\ part = "printers" /\ PrintersNext
        /\ UNCHANGED <<analyticsVars, entriesVars, flaggedVars, fleetVars, serverVars, browserVars>>

MCSpec == MCInit /\ [][MCNext]_<<part, serverVars, browserVars, tableVars>>

TypesOK ==
  /\ part = "manager" => ManagerTypeOK
  /\ part = "reports" => ReportsTypeOK
  /\ part = "accounts" => AccountsTypeOK
  /\ part = "session" => SessionTypeOK
  /\ part = "list" => ListTypeOK
  /\ part = "pages" => JobPagesTypeOK
  /\ part = "push" => SubscriptionTypeOK
  /\ part = "views" => ViewsTypeOK
  /\ part = "analytics" => AnalyticsTypeOK
  /\ part = "entries" => EntriesTypeOK
  /\ part = "flagged" => FlaggedTypeOK
  /\ part = "fleet" => FleetTypeOK
  /\ part = "printers" => PrintersTypeOK

\* What the pages show is what the server has for what is chosen on them (the list of agents and
\* the other pages of the console).
PagesAreInStep == (part = "list" => ListIsInStep) /\ (part = "views" => PageIsInStep)

\* Two queries that describe the same rows agree: in the inventory report and its lists, in the list
\* of entries and what is counted beside it, wherever the rules of unwanted programs are applied, in
\* the list of agents with its options and figures, and in the register of printers, where a flag
\* repeats whether there are connections.  One pair does not: the figures of the daily report for the
\* classes of connectivity and the filter by class, of which only the sum is right where agents of
\* several classes are active (CountsAgree).
QueriesAgree ==
  /\ part = "analytics" => ReportAgrees
  /\ part = "entries" => EntriesAgree
  /\ part = "flagged" => FlagsAgree /\ RulesAreDistinct
  /\ part = "fleet" => FleetAgrees
  /\ part = "printers" => RegisterAgrees /\ ConnectedIsShared

\* What is shown agrees with what it is taken from, on the pages and between the queries, with the
\* exceptions that each part names.
ShownAgrees == PagesAreInStep /\ QueriesAgree
=============================================================================
