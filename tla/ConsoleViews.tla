---------------------------- MODULE ConsoleViews ----------------------------
(***************************************************************************)
(* The pages of the console that show what the server has and change it.   *)
(* A page asks when it opens, when the site, the search or its page        *)
(* changes, when a timer fires and after its own changes; the answers come *)
(* in any order.  A page is the table of what it asks for on each of these *)
(* occasions.                                                              *)
(*                                                                         *)
(* Left out: what is asked on leaving a page and the forms.  The page that *)
(* the server chooses (applyServerPagination) is in AgentList, which is a  *)
(* page of this kind in detail.                                            *)
(***************************************************************************)
EXTENDS Naturals, FiniteSets

CONSTANTS
  SiteNames,      \* values of ?site=
  Searches,       \* of the search, the filters and the page together
  NoSearch,       \* the empty one
  MaxRequests,    \* bound on requests in flight when the user or a timer asks
  MaxMoves,       \* bound on changes of the site, of the search and on the server
  MaxLost         \* bound on requests that fail

ASSUME SearchAssumption == NoSearch \in Searches /\ MaxMoves \in Nat

VARIABLES
  opened,       \* the view that is open
  currentSite, search,
  timer,        \* the search waits for its 300 ms
  has,          \* the number of changes on the server of the parts that the page can change
  requests,     \* in flight
  parts,        \* what the page shows
  muddled,      \* history: parts with overlapping or failed requests
  moves,        \* bounded by MaxMoves
  drops         \* bounded by MaxLost

viewsVars == <<opened, currentSite, search, timer, has, requests, parts, muddled, moves, drops>>

-----------------------------------------------------------------------------
(* A request: what it fills, which of the refs its parameters are, which   *)
(* requests it aborts (useAbortableFetch), whether an error ends the       *)
(* function that awaits it, and what that function asks for afterwards.    *)

Request(of, takes) ==
  [of |-> of, takes |-> takes, aborts |-> {}, throws |-> FALSE, then |-> {},
   affects |-> {}, keeps |-> "nothing"]
Abortable(of, takes) == [Request(of, takes) EXCEPT !.aborts = {of}]

\* POST, PUT, PATCH or DELETE; "then" is what is asked once it is done.
Change(affects, then) ==
  [Request("change", {}) EXCEPT !.affects = affects, !.then = then, !.throws = TRUE]

\* The page repeats the change on what it shows, or takes what the answer has.
Local(of) == [Change({of}, {}) EXCEPT !.of = of, !.keeps = "change"]
Answered(of) == [Local(of) EXCEPT !.keeps = "answer"]

View(opens, onSite, onSearch) ==
  [opens |-> opens, onSite |-> onSite, onSearch |-> onSearch, later |-> {}, polls |-> {},
   changes |-> {}]

Listed == {"site", "search"}

ProcessDetectionsView ==
  LET list == Abortable("list", Listed) IN View({list}, {list}, {list})

ComputersWithoutAgentView ==
  LET list == Abortable("list", Listed) IN View({list}, {list}, {list})

ComputersForRepackView ==
  LET list == Abortable("list", Listed) IN
  [View({list}, {list}, {list}) EXCEPT !.changes = {Change({"list"}, {list})}]

DnsLogsView ==
  LET list == Abortable("list", Listed)
      blacklist == Request("blacklist", {})
  IN [View({list, blacklist}, {list}, {list}) EXCEPT
        !.changes = {Change({"list", "blacklist"}, {list, blacklist})}]

\* The tools of one printer: connecting, disconnecting, setting and unsetting the host.
PrintersView ==
  LET list == Abortable("list", Listed)
      details == Request("details", {})
  IN [View({list, details}, {list}, {list}) EXCEPT
        !.changes = {Change({"list"}, {list}),
                     Change({"list", "details"}, {[list EXCEPT !.then = {details}]})}]

InventoryView ==
  LET list == Request("list", Listed) IN
  [View({list}, {list}, {list}) EXCEPT !.changes = {Change({"list"}, {list})}]

\* The marks and the numbers above the list are changed on the page itself.
HomeView ==
  LET list == Request("list", Listed)
      duplicates == Request("duplicates", {"site"})
      options == Request("options", {"site"})
  IN [View({list, duplicates, options}, {list, duplicates, options}, {list}) EXCEPT
        !.polls = {list}, !.changes = {Local("list"), Change({"list"}, {list})}]

RepackRecommendationsView ==
  LET list == Request("list", {"site"}) IN
  [View({list}, {list}, {}) EXCEPT !.changes = {Local("list")}]

FreeIpAddressesView == LET list == Request("list", {"site"}) IN View({list}, {list}, {})
DuplicateNamesView == LET list == Request("list", {"site"}) IN View({list}, {list}, {})

\* The search is the report in the path: without one it is the latest of the site.
ReportsView ==
  LET latest == Request("report", {"report"})
      history == Request("history", {"site"})
  IN View({latest, history}, {latest, history}, {latest})

\* loadStats: the three lists follow the figures, each with the site that is chosen by then.
PDSUAnalyticsView ==
  LET withoutManager == Request("withoutManager", {"site"})
      ultravnc == [Request("withoutUltravnc", {"site"}) EXCEPT !.then = {withoutManager}]
      missing == [Request("missing", {"site"}) EXCEPT !.then = {ultravnc}]
      stats == [Request("stats", {"site"}) EXCEPT !.then = {missing}, !.throws = TRUE]
      flagged == Request("flagged", {})
  IN [View({stats, flagged}, {stats}, {}) EXCEPT
        !.later = {Abortable("results", Listed)}, !.changes = {Change({"flagged"}, {flagged})}]

\* refreshAll: the pages of the list are asked for after the figures and have the signal.
MetadataView ==
  LET pages == Abortable("pages", {"site"})
      stats == [Request("stats", {"site"}) EXCEPT !.aborts = {"pages"}, !.then = {pages}]
      missing == Request("missing", {"site"})
  IN [View({stats, missing}, {stats, missing}, {}) EXCEPT !.later = {Abortable("results", Listed)}]

\* selectHours
ServerHealthView ==
  LET live == Request("live", {})
      history == Request("history", {"search"})
      audit == Request("audit", {})
  IN [View({live, history, audit}, {}, {history}) EXCEPT
        !.polls = {live}, !.changes = {Change({"audit"}, {audit})}]

AgentReleasesView ==
  LET list == Request("list", {}) IN
  [View({list, Request("options", {}), Request("disk", {})}, {}, {}) EXCEPT
     !.changes = {Change({"list"}, {list})}]

UsersView ==
  LET list == Request("list", {}) IN
  [View({list}, {}, {}) EXCEPT
     !.changes = {Change({"list"}, {list}), [Change({"list"}, {list}) EXCEPT !.throws = FALSE]}]

GroupsView ==
  LET list == Request("list", {}) IN
  [View({list}, {}, {}) EXCEPT !.changes = {Change({"list"}, {list})}]
DeploymentGroupsView ==
  LET list == Request("list", {}) IN
  [View({list}, {}, {}) EXCEPT !.changes = {Change({"list"}, {list})}]
DownloadsFolderView ==
  LET list == Request("list", {}) IN
  [View({list}, {}, {}) EXCEPT !.changes = {Change({"list"}, {list})}]

ConfigView ==
  LET settings == Request("settings", {}) IN
  [View({settings}, {}, {}) EXCEPT !.changes = {Answered("settings")}]

LogsView == LET list == Request("list", {"search"}) IN View({list}, {}, {list})
BatchJobsView == LET list == Request("list", {"search"}) IN View({list}, {}, {list})

IpMetaView ==
  LET entry == [Request("entry", {}) EXCEPT
                  !.throws = TRUE, !.then = {Request("meta", {}), Request("uptime", {})}]
  IN [View({entry}, {}, {}) EXCEPT !.changes = {Local("meta")}]

\* One tab of the inventory of a computer; clearing it empties the page as well.
IpPdsuView ==
  LET items == Request("items", {})
      ignored == Request("exceptions", {})
      entry == [Request("entry", {}) EXCEPT !.throws = TRUE, !.then = {items, ignored}]
  IN [View({entry}, {}, {}) EXCEPT
        !.changes = {Change({"items", "exceptions"}, {[items EXCEPT !.then = {ignored}]}),
                     Change({"items", "exceptions"}, {[ignored EXCEPT !.then = {items}]}),
                     Answered("items")}]

Views ==
  [detections |-> ProcessDetectionsView, withoutAgent |-> ComputersWithoutAgentView,
   repack |-> ComputersForRepackView, dns |-> DnsLogsView, printers |-> PrintersView,
   inventory |-> InventoryView, home |-> HomeView, recommendations |-> RepackRecommendationsView,
   free |-> FreeIpAddressesView, duplicates |-> DuplicateNamesView, reports |-> ReportsView,
   analytics |-> PDSUAnalyticsView, metadata |-> MetadataView, health |-> ServerHealthView,
   releases |-> AgentReleasesView, users |-> UsersView, groups |-> GroupsView,
   deploymentGroups |-> DeploymentGroupsView, downloads |-> DownloadsFolderView,
   config |-> ConfigView, logs |-> LogsView, batches |-> BatchJobsView, ipMeta |-> IpMetaView,
   ipPdsu |-> IpPdsuView]

Shown == Views[opened]
PartNames ==
  {"list", "blacklist", "details", "duplicates", "options", "report", "history", "stats",
   "missing", "withoutUltravnc", "withoutManager", "flagged", "results", "pages", "live",
   "audit", "disk", "settings", "entry", "meta", "uptime", "items", "exceptions"}

Changeable == UNION {c.affects : c \in Shown.changes}

ViewsTypeOK ==
  /\ opened \in DOMAIN Views /\ currentSite \in SiteNames /\ search \in Searches /\ timer \in BOOLEAN
  /\ has \in [Changeable -> 0..MaxMoves] /\ DOMAIN parts \subseteq PartNames
  /\ muddled \subseteq PartNames
  /\ \A r \in requests : r.of \in PartNames \cup {"change"} /\ r.seen \in 0..MaxMoves

-----------------------------------------------------------------------------
(* Requests.                                                               *)

Query == [site |-> currentSite, search |-> search]

\* A ref; "report" is what the path of a report leaves to choose.
Ref(f, q) == IF f = "site" \/ (f = "report" /\ q.search = NoSearch) THEN q.site ELSE q.search
Asked(s, q) == [f \in s.takes |-> Ref(f, q)]

Live(rs, of) == {q \in rs : q.of = of /\ ~q.aborted}

\* Mutant: without a signal.
NothingAborted(rs, steps) == rs

\* getSignal
Aborted(rs, steps) ==
  LET aborting == UNION {s.aborts : s \in steps} IN
  {IF q.of \in aborting THEN [q EXCEPT !.aborted = TRUE] ELSE q : q \in rs}

Sending(s, q, number) ==
  [of |-> s.of, takes |-> s.takes, aborts |-> s.aborts, throws |-> s.throws, then |-> s.then,
   affects |-> s.affects, keeps |-> s.keeps, number |-> number, asked |-> Asked(s, q),
   served |-> FALSE, seen |-> 0, aborted |-> FALSE]

\* Beside the requests rs, those of steps.
Beside(rs, steps, q) ==
  LET number == CHOOSE n \in 1..(Cardinality(rs) + 1) : \A r \in rs : r.number # n IN
  Aborted(rs, steps) \cup {Sending(s, q, number) : s \in steps}

\* A part is in order again once it is asked for with nothing under way that is not aborted.
SendAll(rs, steps, before) ==
  /\ requests' = Beside(rs, steps, Query')
  /\ muddled' = (before \ {s.of : s \in {q \in steps : q.affects = {}}}) \cup
       {s.of : s \in {q \in steps : q.of \notin q.aborts \cup {"change"} /\ Live(rs, q.of) # {}}}

ViewsInit ==
  /\ search = NoSearch /\ currentSite \in SiteNames /\ opened \in DOMAIN Views
  /\ timer = (Shown.later # {}) /\ has = [p \in Changeable |-> 0] /\ parts = <<>>
  /\ requests = Beside({}, Shown.opens, Query) /\ muddled = {} /\ moves = 0 /\ drops = 0

\* The server: listings, and what changes them.
Serve(r) ==
  /\ ~r.served /\ ~r.aborted
  /\ has' = [p \in Changeable |-> IF p \in r.affects THEN has[p] + 1 ELSE has[p]]
  /\ requests' = (requests \ {r}) \cup
       {[r EXCEPT !.served = TRUE, !.seen = IF r.of \in Changeable THEN has'[r.of] ELSE 0]}
  /\ UNCHANGED <<opened, currentSite, search, timer, parts, muddled, moves, drops>>

Shows(r) ==
  [p \in DOMAIN parts \cup {r.of} |->
     IF p = r.of THEN [asked |-> r.asked, has |-> r.seen] ELSE parts[p]]

\* Mutant: the page does not repeat the change.
FilledByAnswers(r) == IF r.affects = {} \/ r.keeps = "answer" THEN Shows(r) ELSE parts

Filled(r) ==
  IF r.affects = {} \/ r.keeps = "answer" THEN Shows(r)
  ELSE IF r.keeps = "change" /\ r.of \in DOMAIN parts THEN [parts EXCEPT ![r.of].has = @ + 1]
  ELSE parts

ShowAnswer(r) ==
  /\ r.served /\ ~r.aborted
  /\ parts' = Filled(r)
  /\ UNCHANGED <<opened, currentSite, search, timer, has, moves, drops>>
  /\ SendAll(requests \ {r}, r.then, muddled)

AfterFailure(r) == IF r.throws THEN {} ELSE r.then

AbortError(r) ==
  /\ r.aborted
  /\ UNCHANGED <<opened, currentSite, search, timer, has, parts, moves, drops>>
  /\ SendAll(requests \ {r}, AfterFailure(r), muddled)

\* An error status or none; a change may have been done.
Fail(r) ==
  /\ ~r.aborted /\ drops < MaxLost /\ drops' = drops + 1
  /\ UNCHANGED <<opened, currentSite, search, timer, has, parts, moves>>
  /\ SendAll(requests \ {r}, AfterFailure(r),
          muddled \cup (IF r.affects # {} THEN (IF r.served THEN r.affects ELSE {})
                        ELSE IF r.throws THEN PartNames ELSE {r.of}))

-----------------------------------------------------------------------------
(* The page.                                                               *)

Room == Cardinality(requests) < MaxRequests

\* watch(site): a report that was chosen stays.
OnSite == {s \in Shown.onSite : "report" \in s.takes => search = NoSearch}

\* A search starts again.
ChangeSite(new) ==
  /\ Room /\ new # currentSite /\ moves < MaxMoves /\ moves' = moves + 1
  /\ currentSite' = new /\ timer' = (timer \/ Shown.later # {})
  /\ UNCHANGED <<opened, search, has, parts, drops>>
  /\ SendAll(requests, OnSite, muddled)

\* Typing, a filter, a page of the list; AgentList has the order of the watches.
ChangeSearch(new) ==
  /\ Room /\ new # search /\ Shown.onSearch \cup Shown.later # {}
  /\ moves < MaxMoves /\ moves' = moves + 1
  /\ search' = new /\ timer' = (timer \/ Shown.later # {})
  /\ UNCHANGED <<opened, currentSite, has, parts, drops>>
  /\ SendAll(requests, Shown.onSearch, muddled)

\* runSearch
RunSearch ==
  /\ timer /\ timer' = FALSE
  /\ UNCHANGED <<opened, currentSite, search, has, moves, drops>>
  /\ IF search = NoSearch
     THEN /\ parts' = [p \in DOMAIN parts \ {"results"} |-> parts[p]]
          /\ UNCHANGED <<requests, muddled>>
     ELSE SendAll(requests, Shown.later, muddled) /\ UNCHANGED parts

\* setInterval
Poll ==
  /\ Room /\ Shown.polls # {}
  /\ UNCHANGED <<opened, currentSite, search, timer, has, parts, moves, drops>>
  /\ SendAll(requests, Shown.polls, muddled)

Act(c) ==
  /\ Room /\ moves < MaxMoves /\ moves' = moves + 1
  /\ UNCHANGED <<opened, currentSite, search, timer, has, parts, drops>>
  /\ SendAll(requests, {c}, muddled)

ViewsNext ==
  \/ \E r \in requests : Serve(r) \/ ShowAnswer(r) \/ AbortError(r) \/ Fail(r)
  \/ \E new \in SiteNames : ChangeSite(new)
  \/ \E new \in Searches : ChangeSearch(new)
  \/ RunSearch \/ Poll
  \/ \E c \in Shown.changes : Act(c)

ViewsSpec == ViewsInit /\ [][ViewsNext]_viewsVars

-----------------------------------------------------------------------------
\* Once nothing is under way, every part of the page that was asked for in order shows what the
\* server has for the site and the search that are chosen, the user's own changes among it: a late
\* answer to an earlier choice never stays (useAbortableFetch.js:7-15), and no change is counted
\* twice or missed.
PageIsInStep ==
  requests = {} /\ ~timer =>
    \A p \in DOMAIN parts \ muddled :
      \/ p = "results" /\ search = NoSearch
      \/ /\ p \in Changeable => parts[p].has = has[p]
         /\ \A f \in DOMAIN parts[p].asked : parts[p].asked[f] = Ref(f, Query)
=============================================================================
