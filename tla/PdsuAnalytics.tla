--------------------------- MODULE PdsuAnalytics ---------------------------
(***************************************************************************)
(* The analysis of the inventories: some thirty queries over the five      *)
(* tables that the agents fill, shown side by side on one page, searched,  *)
(* and exported.                                                           *)
(*                                                                         *)
(* A COUNT or a SUM is the set that it counts, a grouped query the         *)
(* function from its groups to their rows.  ORDER BY and LIMIT are left    *)
(* out, and so are the columns that are only shown.  A text that           *)
(* sanitizeText empties is Blank; "name" is display_name, device_name,     *)
(* name, hotfix_id and name.                                               *)
(***************************************************************************)
EXTENDS Naturals, FiniteSets

CONSTANTS
  Entries,        \* entries with a computer's agent
  SiteOf,         \* the site of each
  Findings,          \* what the agent of each finds: the rows for each table
  Reporting,      \* bound: the entries that report again
  Editable,       \* bound: the entries that are edited
  LastDay,        \* bound on today
  Everywhere,     \* no site was chosen
  Blank,          \* NULL
  Unknown,        \* "Nepoznat izdavač", "Nepoznat proizvođač", "Nepoznato"
  UltravncNames,  \* names of services that are like UltraVNC's
  ManagerNames,   \* and like the Manager's
  UsualPaths,     \* paths under Windows and Program Files
  BrandsIn        \* the numbers of the manufacturers that a text speaks of

Tables == {"software", "drivers", "services", "updates", "printers"}

\* An agent reports its own rows only, finitely many of them; an update's day is a day or NULL, and
\* NULL is no state of a service.
ASSUME AnalyticsAssumption ==
  /\ IsFiniteSet(Entries) /\ LastDay \in Nat \ {0}
  /\ \A e \in Entries, t \in Tables :
       IsFiniteSet(Findings[e][t]) /\ \A r \in Findings[e][t] : r.computer = e
  /\ \A e \in Entries : \A r \in Findings[e]["updates"] : r.day \in Nat \cup {Blank}
  /\ Blank # "stopped"

FoundIn(t) == UNION {Findings[e][t] : e \in Entries}
SiteChoices == {SiteOf[e] : e \in Entries} \cup {Everywhere}

VARIABLES
  type,    \* entry_type, "computer" or "device"
  stored,  \* the rows of the five tables
  work,    \* tables that are being replaced: deleted, then filled
  today

analyticsVars == <<type, stored, work, today>>

AnalyticsTypeOK ==
  /\ type \in [Entries -> {"computer", "device"}]
  /\ DOMAIN stored = Tables /\ \A t \in Tables : stored[t] \subseteq FoundIn(t)
  /\ \A w \in work : /\ w.table \in Tables /\ w.of \in Entries /\ w.deleted \in BOOLEAN
                    /\ w.rows \subseteq FoundIn(w.table)
  /\ today \in Nat

AnalyticsInit ==
  /\ type = [e \in Entries |-> "computer"]
  /\ \E known \in SUBSET Entries :
       stored = [t \in Tables |-> UNION {Findings[e][t] : e \in known}]
  /\ work = {} /\ today = LastDay - 1

-----------------------------------------------------------------------------
(* What changes the tables.                                                *)

\* syncComputerSoftware and the others run side by side, each deletes the computer's rows first.
Replace(e, rows) ==
  /\ work = {}
  /\ work' = {[table |-> t, of |-> e, rows |-> rows[t], deleted |-> FALSE] : t \in Tables}
  /\ UNCHANGED <<type, stored, today>>

Report(e) == e \in Reporting /\ Replace(e, Findings[e])

\* clearComputerPdsu, by an administrator.
Clear(e) == e \in Reporting /\ Replace(e, [t \in Tables |-> {}])

DeleteRows(w) ==
  /\ ~w.deleted
  /\ stored' = [stored EXCEPT ![w.table] = {r \in @ : r.computer # w.of}]
  /\ work' = (work \ {w}) \cup (IF w.rows = {} THEN {} ELSE {[w EXCEPT !.deleted = TRUE]})
  /\ UNCHANGED <<type, today>>

InsertRows(w) ==
  /\ w.deleted
  /\ stored' = [stored EXCEPT ![w.table] = @ \cup w.rows]
  /\ work' = work \ {w}
  /\ UNCHANGED <<type, today>>

\* The entry is edited; its rows stay.
Retype(e) ==
  /\ e \in Editable
  /\ type' = [type EXCEPT ![e] = IF @ = "computer" THEN "device" ELSE "computer"]
  /\ UNCHANGED <<stored, work, today>>

NextDay ==
  /\ today < LastDay /\ today' = today + 1
  /\ UNCHANGED <<type, stored, work>>

\* Every list is rewritten like the programs: deleted, then inserted.
AnalyticsNext ==
  \/ \E e \in Entries : Report(e) \/ Clear(e) \/ Retype(e)
  \/ \E w \in work : DeleteRows(w) \/ InsertRows(w)
  \/ NextDay

AnalyticsSpec == AnalyticsInit /\ [][AnalyticsNext]_analyticsVars

-----------------------------------------------------------------------------
(* Parts that the queries share.                                           *)

Computers(site) == {e \in Entries : type[e] = "computer" /\ site \in {SiteOf[e], Everywhere}}

\* JOIN ip_entries with the conditions on the type and the site.
RowsOf(table, site) == {r \in stored[table] : r.computer \in Computers(site)}

Holders(rows) == {r.computer : r \in rows}
Named(rows) == {r \in rows : r.name # Blank}
Names(rows) == {r.name : r \in Named(rows)}
GroupBy(rows, Key(_)) == [k \in {Key(r) : r \in rows} |-> {r \in rows : Key(r) = k}]
NameOf(r) == r.name
HolderOf(r) == r.computer
Or(text, other) == IF text = Blank THEN other ELSE text
InSeveralVersions(rows) ==
  {n \in Names(rows) :
     Cardinality({r.version : r \in {q \in rows : q.name = n}} \ {Blank}) > 1}
Rare(rows) ==
  {n \in Names(rows) : Cardinality(Holders({r \in rows : r.name = n})) <= 2}

Coverage(site) == [t \in Tables |-> Holders(RowsOf(t, site))]

WithoutPdsu(site) ==
  {e \in Computers(site) : \A t \in Tables : \A r \in stored[t] : r.computer # e}

WithoutService(site, names) ==
  {[computer |-> e, hasServiceData |-> \E r \in stored["services"] : r.computer = e] :
     e \in {c \in Computers(site) :
              ~\E r \in stored["services"] : r.computer = c /\ r.name \in names}}
WithoutUltravnc(site) == WithoutService(site, UltravncNames)
WithoutNetdeskAgentManager(site) == WithoutService(site, ManagerNames)

-----------------------------------------------------------------------------
(* Software and drivers.                                                   *)

SoftwareStats(site) ==
  LET rows == RowsOf("software", site) IN
  [total |-> rows, unique |-> Names(rows), computers |-> Holders(rows),
   withoutPublisher |-> {r \in rows : r.publisher = Blank},
   withoutVersion |-> {r \in rows : r.version = Blank}]

TopSoftware(site) == GroupBy(Named(RowsOf("software", site)), NameOf)

PublisherOf(r) == Or(r.publisher, Unknown)
TopPublishers(site) == GroupBy(RowsOf("software", site), PublisherOf)

SoftwareMultipleVersions(site) == InSeveralVersions(RowsOf("software", site))
RareSoftware(site) == Rare(RowsOf("software", site))
ComputersWithMostSoftware(site) == GroupBy(RowsOf("software", site), HolderOf)

DriverStats(site) ==
  LET rows == RowsOf("drivers", site) IN
  [total |-> rows, unique |-> Names(rows), computers |-> Holders(rows),
   uniqueManufacturers |-> {r.manufacturer : r \in rows} \ {Blank},
   withoutManufacturer |-> {r \in rows : r.manufacturer = Blank},
   withoutVersion |-> {r \in rows : r.version = Blank},
   withoutDate |-> {r \in rows : r.date = Blank}]

ManufacturerOf(r) == Or(r.manufacturer, Or(r.provider, Unknown))
TopDriverManufacturers(site) == GroupBy(RowsOf("drivers", site), ManufacturerOf)

OldestDrivers(site) == {r \in RowsOf("drivers", site) : r.date # Blank}
DriverMultipleVersions(site) == InSeveralVersions(RowsOf("drivers", site))
ComputersWithMostDrivers(site) == GroupBy(RowsOf("drivers", site), HolderOf)

-----------------------------------------------------------------------------
(* Services.                                                               *)

Automatic == {"auto", "automatic"}

\* NULL is not different from 'running'.
StoppedAutomatic(rows) ==
  {r \in rows : r.mode \in Automatic /\ r.state \notin {"running", Blank}}

ServiceStats(site) ==
  LET rows == RowsOf("services", site)
      InMode(modes) == {r \in rows : r.mode \in modes}
      InState(state) == {r \in rows : r.state = state}
  IN [total |-> rows, unique |-> Names(rows), computers |-> Holders(rows),
      running |-> InState("running"), stopped |-> InState("stopped"),
      automatic |-> InMode(Automatic), manual |-> InMode({"manual"}),
      disabled |-> InMode({"disabled"}), automaticStopped |-> StoppedAutomatic(rows)]

AutomaticStoppedServices(site) == StoppedAutomatic(RowsOf("services", site))

\* countAutomaticStoppedServices of the notifications
NotifiedStopped(site) ==
  {r \in stored["services"] : /\ r.computer \in Computers(site) /\ r.mode \in Automatic
                             /\ r.state # Blank /\ r.state # "running"}

UnusualServicePaths(site) == {r \in RowsOf("services", site) : r.path \notin UsualPaths \cup {Blank}}

RareServices(site) == Rare(RowsOf("services", site))

-----------------------------------------------------------------------------
(* Updates.                                                                *)

Age(r) == today - r.day
Dated(rows) == {r \in rows : r.day # Blank}

\* The age of the latest dated row: an update that is as old, and none that is newer.
LatestIs(rows, InRange(_)) ==
  \E r \in Dated(rows) : InRange(Age(r)) /\ \A q \in Dated(rows) : Age(q) >= Age(r)

UpdateStats(site) ==
  LET rows == RowsOf("updates", site) IN
  [total |-> rows, unique |-> Names(rows), computers |-> Holders(rows),
   last30Days |-> {r \in Dated(rows) : Age(r) <= 30}]

UpdateFreshnessBuckets(site) ==
  LET of == GroupBy(Dated(RowsOf("updates", site)), HolderOf)
      Bucket(InRange(_)) == {e \in DOMAIN of : LatestIs(of[e], InRange)}
  IN [last30Days |-> Bucket(LAMBDA age : age <= 30),
      days31To60 |-> Bucket(LAMBDA age : age > 30 /\ age <= 60),
      days61To90 |-> Bucket(LAMBDA age : age > 60 /\ age <= 90),
      olderThan90Days |-> Bucket(LAMBDA age : age > 90),
      withoutData |-> {e \in Computers(site) : \A r \in stored["updates"] : r.computer # e}]

TopHotfixes(site) == GroupBy(Named(RowsOf("updates", site)), NameOf)

\* LEFT JOIN: a computer without updates is in the list.
LatestUpdateByComputer(site) ==
  [e \in Computers(site) |-> {r \in stored["updates"] : r.computer = e}]

\* Mutant: not older than so many days.
StaleOneDayEarly(days, site) ==
  LET of == LatestUpdateByComputer(site) IN
  {e \in DOMAIN of : Dated(of[e]) = {} \/ LatestIs(of[e], LAMBDA age : age >= days)}

StaleUpdateComputers(days, site) ==
  LET of == LatestUpdateByComputer(site) IN
  {e \in DOMAIN of : Dated(of[e]) = {} \/ LatestIs(of[e], LAMBDA age : age > days)}

\* countStaleUpdateComputers of the notifications: the latest day is NULL or too early.
NotifiedStale(days, site) ==
  {e \in Computers(site) :
     \A r \in Dated(stored["updates"]) : r.computer = e => r.day < today - days}

-----------------------------------------------------------------------------
(* Printers.                                                               *)

WithProblem(rows) == {r \in rows : r.status \notin {"ok", "idle", "unknown", Blank}}

PrinterStats(site) ==
  LET rows == RowsOf("printers", site) IN
  [total |-> rows, unique |-> Names(rows), computers |-> Holders(rows),
   default |-> {r \in rows : r.default}, problemStatus |-> WithProblem(rows)]

TopPrinterNames(site) ==
  [n \in Names(RowsOf("printers", site)) |->
     Holders({r \in RowsOf("printers", site) : r.name = n})]

DriverOf(r) == r.driver
TopPrinterDrivers(site) == GroupBy({r \in RowsOf("printers", site) : r.driver # Blank}, DriverOf)

PrintersWithProblemStatus(site) == WithProblem(RowsOf("printers", site))
RarePrinters(site) == Rare(RowsOf("printers", site))
ComputersWithMostPrinters(site) == GroupBy(RowsOf("printers", site), HolderOf)
ActivePrinterPerComputer(site) == RowsOf("printers", site)

\* The first manufacturer of the list that the driver or the name speaks of.
PrinterManufacturer(r) ==
  LET brands == BrandsIn[r.driver] \cup BrandsIn[r.name] IN
  IF brands = {} THEN Unknown ELSE CHOOSE b \in brands : \A c \in brands : b <= c

GroupByManufacturer(site) == GroupBy(ActivePrinterPerComputer(site), PrinterManufacturer)

-----------------------------------------------------------------------------
(* The page, the export and the search.                                    *)

\* Math.round
Pct(part, total) == IF total = 0 THEN 0 ELSE (200 * part + total) \div (2 * total)

Stats(site) ==
  [totalComputers |-> Computers(site), coverage |-> Coverage(site),
   pct |-> [t \in Tables |-> Pct(Cardinality(Coverage(site)[t]), Cardinality(Computers(site)))],
   without |-> [t \in Tables |-> Computers(site) \ Coverage(site)[t]],
   stats |-> [t \in Tables |->
     CASE t = "software" -> SoftwareStats(site) [] t = "drivers" -> DriverStats(site)
       [] t = "services" -> ServiceStats(site)  [] t = "updates" -> UpdateStats(site)
       [] t = "printers" -> PrinterStats(site)]]

Export(table, site) == RowsOf(table, site)

SearchFields(table) ==
  CASE table = "software" -> {"name", "version", "publisher", "computer"}
    [] table = "drivers"  -> {"name", "version", "manufacturer", "provider", "computer"}
    [] table = "services" -> {"name", "path", "computer"}
    [] table = "updates"  -> {"name", "computer"}
    [] table = "printers" -> {"name", "driver", "computer"}

\* A term that is not in another one's middle.
SearchRows(table, term, site) ==
  {r \in RowsOf(table, site) : \E f \in SearchFields(table) : r[f] = term}

Search(term, site) ==
  [t \in Tables |-> IF term = Blank THEN {} ELSE SearchRows(t, term, site)]

-----------------------------------------------------------------------------
(* What the page guarantees at every moment, for one site and for all.     *)

CoverageAgrees(site) ==
  LET s == Stats(site) IN
  /\ \A t \in Tables :
       s.coverage[t] = s.stats[t].computers /\ s.pct[t] <= 100
  /\ WithoutPdsu(site) = {e \in s.totalComputers : \A t \in Tables : e \in s.without[t]}
  /\ \A list \in {WithoutUltravnc(site), WithoutNetdeskAgentManager(site)} :
       {row.computer : row \in {q \in list : ~q.hasServiceData}} = s.without["services"]

ListsAgree(stats, top, several, rare, most) ==
  /\ DOMAIN top = stats.unique
  /\ UNION {top[k] : k \in DOMAIN top} = Named(stats.total)
  /\ several \cup rare \subseteq stats.unique
  /\ \A k \in stats.unique \ rare : Cardinality(Holders(top[k])) > 2
  /\ \A k \in several : Cardinality(top[k]) > 1
  /\ DOMAIN most = stats.computers /\ UNION {most[e] : e \in DOMAIN most} = stats.total

\* A group of what has no value is the figure that counts it, and what bears that very word.
UnknownIs(groups, rows) == rows = IF Unknown \in DOMAIN groups THEN groups[Unknown] ELSE {}

SoftwareAgrees(site) ==
  LET s == SoftwareStats(site) IN
  /\ ListsAgree(s, TopSoftware(site), SoftwareMultipleVersions(site), RareSoftware(site),
                ComputersWithMostSoftware(site))
  /\ UnknownIs(TopPublishers(site),
               s.withoutPublisher \cup {r \in s.total : r.publisher = Unknown})

DriversAgree(site) ==
  LET s == DriverStats(site)
      makers == TopDriverManufacturers(site)
  IN /\ DriverMultipleVersions(site) \subseteq s.unique
     /\ UNION {makers[m] : m \in DOMAIN makers} = s.total
     /\ s.uniqueManufacturers \subseteq DOMAIN makers
     /\ Unknown \in DOMAIN makers =>
          \A r \in makers[Unknown] : r \in s.withoutManufacturer \/ r.manufacturer = Unknown
     /\ OldestDrivers(site) = s.total \ s.withoutDate
     /\ DOMAIN ComputersWithMostDrivers(site) = s.computers

ServicesAgree(site) ==
  LET s == ServiceStats(site) IN
  /\ AutomaticStoppedServices(site) = s.automaticStopped
  /\ NotifiedStopped(site) = s.automaticStopped
  /\ s.automaticStopped \subseteq s.automatic \ s.running
  /\ s.stopped \cap s.automatic \subseteq s.automaticStopped
  /\ RareServices(site) \subseteq s.unique
  /\ UnusualServicePaths(site) \subseteq s.total

\* A computer with updates that are all undated is in no bucket, and in the list of the stale ones.
UpdatesAgree(site) ==
  LET s == UpdateStats(site)
      b == UpdateFreshnessBuckets(site)
      undated == s.computers \ Holders(Dated(s.total))
      buckets == {b[k] : k \in DOMAIN b} \cup {undated}
  IN /\ UNION buckets = Computers(site)
     /\ \A k, l \in DOMAIN b : k # l => b[k] \cap b[l] = {}
     /\ \A k \in DOMAIN b : b[k] \cap undated = {}
     /\ Holders(s.last30Days) = b.last30Days
     /\ StaleUpdateComputers(90, site) = b.olderThan90Days \cup b.withoutData \cup undated
     /\ NotifiedStale(90, site) = StaleUpdateComputers(90, site)
     /\ DOMAIN TopHotfixes(site) = s.unique
     /\ UNION {LatestUpdateByComputer(site)[e] : e \in Computers(site)} = s.total

PrintersAgree(site) ==
  LET s == PrinterStats(site)
      groups == GroupByManufacturer(site)
  IN /\ PrintersWithProblemStatus(site) = s.problemStatus
     /\ DOMAIN TopPrinterNames(site) = s.unique
     /\ RarePrinters(site) =
          {n \in s.unique : Cardinality(TopPrinterNames(site)[n]) <= 2}
     /\ UNION {groups[m] : m \in DOMAIN groups} = s.total
     /\ \A d \in DOMAIN TopPrinterDrivers(site) :
          Cardinality({m \in DOMAIN groups : \E r \in groups[m] : r.driver = d}) >= 1
     /\ DOMAIN ComputersWithMostPrinters(site) = s.computers

\* What the page names can be found, and what is found is in the export.
SearchFinds(site) ==
  LET stats == Stats(site).stats IN
  \A t \in Tables :
    /\ Export(t, site) = stats[t].total
    /\ \A n \in stats[t].unique :
         LET found == Search(n, site)[t] IN
         {r \in stats[t].total : r.name = n} \subseteq found /\ found \subseteq Export(t, site)

\* The figures, lists, search and export of the analysis tell the same, whatever is stored, also
\* between the two steps that replace a table.  They are separate queries, so that one which forgets
\* the type, the site, a NULL or the edge of an interval tells something else
\* (pdsuAnalyticsStatsService, searchPdsuAnalytics, exportPdsuAnalyticsXlsx).
ReportAgrees ==
  \A site \in SiteChoices :
    /\ CoverageAgrees(site) /\ SoftwareAgrees(site) /\ DriversAgree(site)
    /\ ServicesAgree(site) /\ UpdatesAgree(site) /\ PrintersAgree(site)
    /\ SearchFinds(site)
=============================================================================
