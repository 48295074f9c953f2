---------------------------- MODULE BlacklistPage ----------------------------
(***************************************************************************)
(* The list of blacklisted domains below the DNS log, one page of it at a  *)
(* time: it is read again after every addition and removal and whenever the *)
(* user turns the page or searches, and no request is given up for a later *)
(* one.  Other administrators, and the round of DnsBlacklist, change the   *)
(* list meanwhile.                                                         *)
(*                                                                         *)
(* A domain stands for its row, by the place its name has in the order.    *)
(* One addition or removal of a domain is on its way at a time.            *)
(***************************************************************************)
EXTENDS Naturals, Sequences, NumberOrder

CONSTANTS
  MaxDomain,  \* bound: the domains
  Matching,   \* those that a search finds
  PageSize,   \* blacklistLimit
  MaxFetches, \* bound: fetchBlacklist calls at a time
  MaxEvents   \* bound: what the user and others do, and failures

ASSUME BlacklistPageAssumption ==
  /\ MaxDomain \in Nat /\ Matching \subseteq 1 .. MaxDomain /\ PageSize \in Nat \ {0}
  /\ MaxFetches \in Nat \ {0} /\ MaxEvents \in Nat

AllDomains == 1 .. MaxDomain
Finds == [all |-> AllDomains, some |-> Matching]

VARIABLES
  flagged,   \* flagged_domains
  blacklist, blacklistTotalPages, blacklistPage, blacklistSearch,
  fetches,   \* the fetchBlacklist calls in progress
  jobs,      \* the additions and removals in progress
  events,    \* what the user and others have done so far
  answered,  \* the page and search whose rows are shown (history)
  crossed,   \* whether the last call was made while another one was in progress (history)
  failed,    \* whether it, or one in progress with it, has failed (history)
  astray     \* whether the page may have asked for a page that is no more (history)

listShown == <<blacklist, blacklistTotalPages, blacklistPage, blacklistSearch>>
listHistory == <<answered, crossed, failed, astray>>
blacklistPageVars == <<flagged, listShown, fetches, jobs, events, listHistory>>

NoFetch == [step |-> "none", page |-> 1, search |-> "all", total |-> 0, rows |-> <<>>]

Fetches ==
  [step : {"none", "asked", "counted", "read"}, page : Nat \ {0}, search : DOMAIN Finds,
   total : Nat, rows : Seq(AllDomains)]

BlacklistPageTypeOK ==
  /\ flagged \subseteq AllDomains
  /\ blacklist \in Seq(AllDomains) /\ Len(blacklist) <= PageSize
  /\ blacklistTotalPages \in Nat /\ blacklistPage \in Nat \ {0} /\ blacklistSearch \in DOMAIN Finds
  /\ fetches \in [1 .. MaxFetches -> Fetches]
  /\ jobs \in [AllDomains -> {"none", "adding", "added", "removing", "removed"}]
  /\ events \in 0 .. MaxEvents /\ answered \in [page : Nat \ {0}, search : DOMAIN Finds]
  /\ crossed \in BOOLEAN /\ failed \in BOOLEAN /\ astray \in BOOLEAN

Asked(page, search) == [NoFetch EXCEPT !.step = "asked", !.page = page, !.search = search]

\* onMounted
BlacklistPageInit ==
  /\ flagged \in SUBSET AllDomains
  /\ blacklist = <<>> /\ blacklistTotalPages = 0 /\ blacklistPage = 1 /\ blacklistSearch = "all"
  /\ fetches = [i \in 1 .. MaxFetches |-> IF i = 1 THEN Asked(1, "all") ELSE NoFetch]
  /\ jobs = [d \in AllDomains |-> "none"] /\ events = 0
  /\ answered = [page |-> 1, search |-> "all"]
  /\ crossed = FALSE /\ failed = FALSE /\ astray = FALSE

Event == events < MaxEvents /\ events' = events + 1
Free == {i \in 1 .. MaxFetches : fetches[i].step = "none"}
IsFetching == Free # 1 .. MaxFetches
IsWorking == \E d \in AllDomains : jobs[d] # "none"

-----------------------------------------------------------------------------
(* fetchBlacklist *)

Fetch(page, search) ==
  /\ Free # {}
  /\ LET i == CHOOSE i \in Free : \A j \in Free : i <= j IN
       fetches' = [fetches EXCEPT ![i] = Asked(page, search)]
  /\ crossed' = IsFetching /\ failed' = (failed /\ IsFetching)

FoundBy(search) == flagged \cap Finds[search]

\* The two statements of listFlaggedDomains
Count(i) ==
  /\ fetches[i].step = "asked"
  /\ fetches' = [fetches EXCEPT ![i].step = "counted", ![i].total = Cardinality(FoundBy(fetches[i].search))]
  /\ UNCHANGED <<flagged, listShown, jobs, events, listHistory>>

\* LIMIT and OFFSET
RowsOfPage(rows, page) ==
  LET offset == (page - 1) * PageSize
  IN [k \in {j \in 1 .. PageSize : offset + j <= Len(rows)} |-> rows[offset + k]]

Read(i) ==
  /\ fetches[i].step = "counted"
  /\ fetches' = [fetches EXCEPT ![i].step = "read",
                                ![i].rows = RowsOfPage(InOrder(FoundBy(fetches[i].search)), fetches[i].page)]
  /\ UNCHANGED <<flagged, listShown, jobs, events, listHistory>>

\* paginate
TotalPages(total) == (total + PageSize - 1) \div PageSize
SafePage(page, total) ==
  IF total = 0 THEN 1 ELSE IF page <= TotalPages(total) THEN page ELSE TotalPages(total)

\* Mutant: the page that was asked for is kept.
AskedPage(fetch) == fetch.page

AnsweredPage(fetch) == SafePage(fetch.page, fetch.total)

\* The page is corrected; rows of the page it is corrected to are not asked for.
Answer(i) ==
  LET fetch == fetches[i] IN
  /\ fetch.step = "read"
  /\ blacklist' = fetch.rows
  /\ blacklistTotalPages' = TotalPages(fetch.total)
  /\ blacklistPage' = AnsweredPage(fetch)
  /\ fetches' = [fetches EXCEPT ![i] = NoFetch]
  /\ answered' = [page |-> fetch.page, search |-> fetch.search]
  /\ UNCHANGED <<flagged, blacklistSearch, jobs, events, crossed, failed, astray>>

FetchFails(i) ==
  /\ fetches[i].step # "none" /\ Event
  /\ fetches' = [fetches EXCEPT ![i] = NoFetch] /\ failed' = TRUE
  /\ UNCHANGED <<flagged, listShown, jobs, answered, crossed, astray>>

-----------------------------------------------------------------------------
(* The user. *)

\* The page has not been read as it is, or is being changed.
Unsettled == answered.search # blacklistSearch \/ crossed \/ failed \/ IsFetching \/ IsWorking

\* prevBlacklistPage and nextBlacklistPage
TurnPage(page) ==
  /\ Event
  /\ \/ page = blacklistPage - 1 /\ page >= 1
     \/ page = blacklistPage + 1 /\ page <= blacklistTotalPages
  /\ blacklistPage' = page /\ Fetch(page, blacklistSearch)
  /\ astray' = (astray \/ Unsettled)
  /\ UNCHANGED <<flagged, blacklist, blacklistTotalPages, blacklistSearch, jobs, answered>>

\* Mutant: the page is kept.
SamePage == blacklistPage

FirstPage == 1

\* onBlacklistSearchInput
Search(search) ==
  /\ Event /\ search # blacklistSearch
  /\ blacklistSearch' = search /\ blacklistPage' = FirstPage /\ Fetch(FirstPage, search)
  /\ UNCHANGED <<flagged, blacklist, blacklistTotalPages, jobs, answered, astray>>

\* addToBlacklist and removeFromBlacklist
Begin(d, kind) ==
  /\ Event /\ jobs[d] = "none"
  /\ kind = "removing" => \E i \in DOMAIN blacklist : blacklist[i] = d
  /\ astray' = (astray \/ Unsettled)
  /\ jobs' = [jobs EXCEPT ![d] = kind]
  /\ UNCHANGED <<flagged, listShown, fetches, answered, crossed, failed>>

\* The server has done it; a domain that is on the list is refused, one that is gone is not.  A
\* row is removed by its id: where rows were removed unseen, the domain may have another one by now.
Store(d) ==
  /\ \/ jobs[d] = "adding" /\ flagged' = flagged \cup {d}
        /\ jobs' = [jobs EXCEPT ![d] = IF d \in flagged THEN "none" ELSE "added"]
     \/ jobs[d] = "removing" /\ jobs' = [jobs EXCEPT ![d] = "removed"]
        /\ \/ flagged' = flagged \ {d}
           \/ astray /\ UNCHANGED flagged
  /\ UNCHANGED <<listShown, fetches, events, listHistory>>

\* Mutant: the page is kept.
PageKept == blacklistPage

\* The last row of a page that is not the first
PageLeft == IF Len(blacklist) = 1 /\ blacklistPage > 1 THEN blacklistPage - 1 ELSE blacklistPage

\* The page is told.
Refresh(d) ==
  /\ \/ jobs[d] = "added" /\ UNCHANGED blacklistPage /\ Fetch(blacklistPage, blacklistSearch)
     \/ jobs[d] = "removed" /\ blacklistPage' = PageLeft /\ Fetch(PageLeft, blacklistSearch)
  /\ jobs' = [jobs EXCEPT ![d] = "none"]
  /\ UNCHANGED <<flagged, blacklist, blacklistTotalPages, blacklistSearch, events, answered, astray>>

\* The request fails, before or after it has been done.
EditFails(d) ==
  /\ Event /\ jobs[d] # "none"
  /\ jobs' = [jobs EXCEPT ![d] = "none"]
  /\ astray' = (astray \/ jobs[d] = "removed")
  /\ UNCHANGED <<flagged, listShown, fetches, answered, crossed, failed>>

\* Others add and remove.
OthersAdd(d) ==
  /\ Event /\ d \notin flagged /\ flagged' = flagged \cup {d}
  /\ UNCHANGED <<listShown, fetches, jobs, listHistory>>

OthersRemove(d) ==
  /\ Event /\ d \in flagged /\ flagged' = flagged \ {d} /\ astray' = TRUE
  /\ UNCHANGED <<listShown, fetches, jobs, answered, crossed, failed>>

BlacklistPageNext ==
  \/ \E i \in 1 .. MaxFetches : Count(i) \/ Read(i) \/ Answer(i) \/ FetchFails(i)
  \/ \E page \in 1 .. MaxDomain : TurnPage(page)
  \/ \E search \in DOMAIN Finds : Search(search)
  \/ \E d \in AllDomains :
       \/ Store(d) \/ Refresh(d) \/ EditFails(d) \/ OthersAdd(d) \/ OthersRemove(d)
       \/ \E kind \in {"adding", "removing"} : Begin(d, kind)

BlacklistPageSpec == BlacklistPageInit /\ [][BlacklistPageNext]_blacklistPageVars

-----------------------------------------------------------------------------
(* Properties. *)

\* When nothing is on its way, the number of the page is one the list has; unless the last call was
\* made before an earlier one had been answered (whose rows may have come last), the rows are those
\* of the search, and a list that has some is not shown as empty.  The exceptions: rows were removed
\* by others or without an answer, or the user turned the page or changed the list before it had
\* been read as it is; the number of the page is then corrected, but that page is not read
\* (DnsLogsView.vue).
ListIsThere ==
  ~IsFetching /\ ~IsWorking /\ ~failed =>
    /\ blacklistPage <= blacklistTotalPages \/ blacklistPage = 1
    /\ ~crossed => /\ answered.search = blacklistSearch
                   /\ ~astray /\ blacklist = <<>> => blacklistTotalPages = 0
=============================================================================
