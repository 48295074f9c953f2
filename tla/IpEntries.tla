----------------------------- MODULE IpEntries -----------------------------
(***************************************************************************)
(* The table ip_entries as administrators edit it, and the queries that    *)
(* describe it: the list of the first page with its counters, the options  *)
(* of its filters, free addresses, computers without an agent, duplicate   *)
(* names, recommendations for a new installation, and the export.          *)
(*                                                                         *)
(* What the ping loop, the agents and the inventory write is one step for  *)
(* each column here (Monitoring, Identity, InventorySync).  A search finds *)
(* a whole name or department; one filter on a set of values stands for    *)
(* the four.  The list is sorted by the address: any other column leaves   *)
(* the order of equal rows, hence their page, to the database.             *)
(***************************************************************************)
EXTENDS Integers, FiniteSets

CONSTANTS
  Ids, Ips, ComputerNames, Departments,
  Locations,    \* SITES
  NoText,       \* NULL, and a filter that is not set
  Key,          \* LOWER(TRIM(name))
  Usable,       \* for each site the addresses between the network and the broadcast address
  FirstEntries, \* the rows at the start
  Limits,       \* sizes of a page
  MaxEdits      \* bound on changes

EntryTypes == {"computer", "device", NoText}
Hardware == {"unknown", "good", "weak"}

EntryRows ==
  [ip : Ips, name : ComputerNames \cup {NoText}, department : Departments \cup {NoText},
   site : Locations \cup {NoText}, type : EntryTypes, online : BOOLEAN, pending : BOOLEAN,
   recent : BOOLEAN,      \* os is Windows 10 or 11
   hardware : Hardware,   \* of computer_metadata
   agents : 0..2]         \* active agents with this entry

ASSUME EntriesAssumption ==
  /\ Ips \subseteq Nat /\ Limits \subseteq Nat \ {0}
  /\ NoText \notin ComputerNames \cup Departments \cup Locations
  /\ Usable \in [Locations -> SUBSET Ips] /\ \A place \in Locations : IsFiniteSet(Usable[place])
  /\ IsFiniteSet(DOMAIN FirstEntries) /\ DOMAIN FirstEntries \subseteq Ids /\ MaxEdits \in Nat
  /\ \A i \in DOMAIN FirstEntries : FirstEntries[i] \in EntryRows
  /\ \A i, j \in DOMAIN FirstEntries : FirstEntries[i].ip = FirstEntries[j].ip => i = j

VARIABLES
  rows,     \* [id -> row]
  edits     \* bounded by MaxEdits

entriesVars == <<rows, edits>>

EntriesTypeOK ==
  /\ DOMAIN rows \subseteq Ids /\ edits \in 0..MaxEdits
  /\ \A i \in DOMAIN rows : rows[i] \in EntryRows

EntriesInit == rows = FirstEntries /\ edits = 0

-----------------------------------------------------------------------------
(* What changes the table.                                                 *)

Taken == {rows[i].ip : i \in DOMAIN rows}
Edit == edits < MaxEdits /\ edits' = edits + 1
Set(i, field, value) == Edit /\ rows' = [rows EXCEPT ![i][field] = value]

\* createService; the address is unique.
Create(ip, name, place, kind) ==
  /\ Edit /\ ip \notin Taken /\ Ids # DOMAIN rows
  /\ rows' = [i \in DOMAIN rows \cup {CHOOSE i \in Ids : i \notin DOMAIN rows} |->
       IF i \in DOMAIN rows THEN rows[i]
       ELSE [ip |-> ip, name |-> name, department |-> NoText, site |-> place, type |-> kind,
             online |-> FALSE, pending |-> FALSE, recent |-> FALSE, hardware |-> "unknown",
             agents |-> 0]]

\* updateService, for one of the columns that a form has.
UpdateEntry(i) ==
  \/ \E ip \in Ips \ Taken : Set(i, "ip", ip)
  \/ \E name \in ComputerNames \cup {NoText} : Set(i, "name", name)
  \/ \E department \in Departments \cup {NoText} : Set(i, "department", department)
  \/ \E place \in Locations : Set(i, "site", place)
  \/ \E kind \in EntryTypes : Set(i, "type", kind)

Delete(i) == Edit /\ rows' = [j \in DOMAIN rows \ {i} |-> rows[j]]

\* setPendingRepackService
SetPendingRepack(i) == Set(i, "pending", ~rows[i].pending)

\* The ping loop, enrolment and revocation, and the two kinds of inventory.
Others(i) ==
  \/ Set(i, "online", ~rows[i].online)
  \/ \E n \in {rows[i].agents - 1, rows[i].agents + 1} \cap (0..2) : Set(i, "agents", n)
  \/ Set(i, "recent", ~rows[i].recent)
  \/ \E h \in Hardware : Set(i, "hardware", h)

EntriesNext ==
  \/ \E ip \in Ips, name \in ComputerNames, place \in Locations, kind \in EntryTypes :
       Create(ip, name, place, kind)
  \/ \E i \in DOMAIN rows : UpdateEntry(i) \/ Delete(i) \/ SetPendingRepack(i) \/ Others(i)

EntriesSpec == EntriesInit /\ [][EntriesNext]_entriesVars

-----------------------------------------------------------------------------
(* The queries.                                                            *)

AtSite(place) == {i \in DOMAIN rows : place \in {rows[i].site, NoText}}
Searched(text) == {i \in DOMAIN rows : text \in {rows[i].name, rows[i].department, NoText}}
SearchedByName(text) == {i \in DOMAIN rows : text \in {rows[i].name, NoText}}
OfType(kind) == {i \in DOMAIN rows : rows[i].type = kind}
Online == {i \in DOMAIN rows : rows[i].online}
PendingRepack == {i \in DOMAIN rows : rows[i].pending}

\* What the filters of the list are, with some of their values: status and pendingRepack do not count
\* for its counters.
Filter == [search : {NoText} \cup {Key[n] : n \in ComputerNames},
           type : {"all", "unknown", "computer"}, site : Locations \cup {NoText},
           departments : {{}} \cup {{d} : d \in Departments},
           status : {"all", "online"}, pendingRepack : BOOLEAN]

Base(f) ==
  {i \in AtSite(f.site) \cap Searched(f.search) :
     /\ f.type # "all" => rows[i].type = (IF f.type = "unknown" THEN NoText ELSE f.type)
     /\ f.departments # {} => rows[i].department \in f.departments}

\* Mutant: what is offline counts as well.
AnyStatus(f) == Base(f)

OfStatus(f) ==
  IF f.status = "online" THEN Base(f) \cap Online
  ELSE IF f.status = "offline" THEN Base(f) \ Online ELSE Base(f)

ListedEntries(f) == IF f.pendingRepack THEN OfStatus(f) \cap PendingRepack ELSE OfStatus(f)

Ceiling(n, limit) == (n + limit - 1) \div limit
Between(low, n, high) == IF n > high THEN high ELSE IF n < low THEN low ELSE n

\* LEFT JOIN agents: an entry comes once for each active agent.
Joined(found) ==
  {x \in found \X (0..2) : x[2] < rows[x[1]].agents \/ (x[2] = 0 /\ rows[x[1]].agents = 0)}
Before(a, b) == rows[a[1]].ip < rows[b[1]].ip \/ (a[1] = b[1] /\ a[2] < b[2])

\* ORDER BY, LIMIT and OFFSET.
PageOf(joined, number, limit) ==
  {a \in joined : Cardinality({b \in joined : Before(b, a)})
                    \in (number - 1) * limit .. number * limit - 1}

Total(f) == Cardinality(ListedEntries(f))
Counts(f) ==
  [online |-> Cardinality(Base(f) \cap Online), offline |-> Cardinality(Base(f) \ Online),
   pendingRepack |-> Cardinality(Base(f) \cap PendingRepack)]

ListIpEntries(f, number, limit) ==
  LET totalPages == Ceiling(Total(f), limit)
      safePage == IF totalPages = 0 THEN 1 ELSE Between(1, number, totalPages)
  IN [entries |-> PageOf(Joined(ListedEntries(f)), safePage, limit), total |-> Total(f),
      totalPages |-> totalPages, page |-> safePage, counts |-> Counts(f)]

\* distinct departments; the others alike
FilterOptions(place) == {rows[i].department : i \in AtSite(place)} \ {NoText}

FreeIpAddresses(place) ==
  LET occupied == Taken \cap Usable[place] IN
  [total |-> Cardinality(Usable[place]), occupiedCount |-> Cardinality(occupied),
   freeIps |-> Usable[place] \ occupied]

\* listComputersWithoutAgent and, for the export, listAllComputersWithoutAgent: their search does not
\* look at the department.
AllWithoutAgent(text, place) ==
  {i \in OfType("computer") \cap SearchedByName(text) \cap AtSite(place) : rows[i].agents = 0}
WithoutAgent(text, place, number, limit) ==
  LET found == AllWithoutAgent(text, place)
      totalPages == Ceiling(Cardinality(found), limit)
      safePage == IF totalPages = 0 THEN 1 ELSE Between(1, number, totalPages)
  IN [entries |-> {a[1] : a \in PageOf(found \X {0}, safePage, limit)},
      total |-> Cardinality(found), totalPages |-> totalPages, page |-> safePage]

\* The groups are counted under the search and the status, their items are of the site.
Duplicates(text, status, place) ==
  LET counted == {i \in Searched(text) \cap AtSite(place) :
                    /\ rows[i].name # NoText
                    /\ status = "online" => rows[i].online
                    /\ status = "offline" => ~rows[i].online}
      Of(k, S) == {i \in S : rows[i].name # NoText /\ Key[rows[i].name] = k}
      keys == {k \in {Key[rows[i].name] : i \in counted} : Cardinality(Of(k, counted)) > 1}
  IN [k \in keys |-> [count |-> Cardinality(Of(k, counted)), items |-> Of(k, AtSite(place))]]

\* listRepackCandidates and the reasons of repackRecommendationsService.
RepackRecommendations(place) ==
  {i \in OfType("computer") \cap AtSite(place) : rows[i].recent /\ rows[i].hardware = "weak"}

\* The figures of the notifications.
CountOfflineEntries(place) == Cardinality({i \in AtSite(place) : ~rows[i].online})
CountUnclassifiedEntries(place) == Cardinality({i \in AtSite(place) : rows[i].type = NoText})
CountDuplicateNameGroups(place) ==
  LET Called(k) == {i \in AtSite(place) : rows[i].name # NoText /\ Key[rows[i].name] = k}
  IN Cardinality({k \in {Key[n] : n \in ComputerNames} : Cardinality(Called(k)) > 1})

CountIpEntriesTotal(place) == Cardinality(AtSite(place))
ExportEntries(text, place) == Searched(text) \cap AtSite(place)

-----------------------------------------------------------------------------
(* What the queries tell of each other.                                    *)

All == [search |-> NoText, type |-> "all", departments |-> {}, site |-> NoText,
        status |-> "all", pendingRepack |-> FALSE]

\* Unless an entry has two active agents, walking through the pages meets every entry once.
PagesPartition(f, limit) ==
  LET last == Ceiling(Total(f), limit)
      pages == {{a[1] : a \in ListIpEntries(f, n, limit).entries} : n \in 1..last}
  IN /\ UNION pages = ListedEntries(f) /\ {} \notin pages
     /\ Cardinality(pages) = last /\ (\A p, q \in pages : p = q \/ p \cap q = {})
     /\ ListIpEntries(f, last + 1, limit) = ListIpEntries(f, last, limit)

\* The counters are what their filters list.
CountersAgree(f) ==
  /\ Counts(f).online = Total([f EXCEPT !.status = "online"])
  /\ Counts(f).offline = Total([f EXCEPT !.status = "offline"])
  /\ Counts(f).pendingRepack = Total([f EXCEPT !.pendingRepack = TRUE])
  /\ Counts(f).online + Counts(f).offline = Total(f)

SiteAgrees(place) ==
  LET scope == [All EXCEPT !.site = place]
      computers == [scope EXCEPT !.type = "computer"]
      free == FreeIpAddresses(place)
      duplicates == Duplicates(NoText, "all", place)
  IN /\ CountIpEntriesTotal(place) = Cardinality(ExportEntries(NoText, place))
     /\ CountIpEntriesTotal(place) = Total(scope)
     /\ CountOfflineEntries(place) = Counts(scope).offline
     /\ CountUnclassifiedEntries(place) =
          Total([scope EXCEPT !.type = "unknown"])
     /\ CountDuplicateNameGroups(place) = Cardinality(DOMAIN duplicates)
     \* An option of the filter finds something.
     /\ \A d \in Departments :
          d \in FilterOptions(place) <=> ListedEntries([scope EXCEPT !.departments = {d}]) # {}
     \* What is free can be given to a new entry, wherever the other entries say they are.
     /\ free.freeIps \cap Taken = {} /\ free.total = Cardinality(free.freeIps) + free.occupiedCount
     /\ \A limit \in Limits :
          LET pages == WithoutAgent(NoText, place, 1, limit).totalPages IN
          UNION {WithoutAgent(NoText, place, n, limit).entries : n \in 1..pages} =
            {i \in ListedEntries(computers) : rows[i].agents = 0}
     /\ RepackRecommendations(place) \subseteq ListedEntries(computers)
     \* A name is a duplicate of its site alone.
     /\ \A k \in DOMAIN duplicates :
          /\ duplicates[k].count = Cardinality(duplicates[k].items)
          /\ \A status \in {"online", "offline"}, name \in ComputerNames \cup {NoText} :
               LET narrowed == Duplicates(name, status, place) IN
               k \in DOMAIN narrowed =>
                 narrowed[k].count <= duplicates[k].count /\ narrowed[k].items = duplicates[k].items
     /\ \A i, j \in AtSite(place) :
          /\ i # j /\ rows[i].name # NoText /\ rows[j].name # NoText
          /\ Key[rows[i].name] = Key[rows[j].name]
          => \E k \in DOMAIN duplicates : {i, j} \subseteq duplicates[k].items

\* The list, its counters, pages and filter options, the free addresses, the computers without an
\* agent, the duplicates, the recommendations and the export describe the same rows: each is a query
\* of its own, and one that forgets a condition or takes it twice tells something else
\* (ipEntries.repo.js, ipAddresses.service.js).
EntriesAgree ==
  /\ \A f \in Filter : f.status = "all" /\ ~f.pendingRepack => CountersAgree(f)
  /\ (\A i \in DOMAIN rows : rows[i].agents < 2) =>
       \A f \in Filter, limit \in Limits :
         f.type = "all" /\ f.departments = {} => PagesPartition(f, limit)
  /\ \A place \in Locations : SiteAgrees(place)
=============================================================================
