------------------------------- MODULE Printers -------------------------------
(***************************************************************************)
(* The register of printers, the computers that are connected to one, and  *)
(* the flag "shared" of its row, which connecting sets and disconnecting   *)
(* counts again.  Every statement is a step of its own, as no handler uses *)
(* a transaction.                                                          *)
(*                                                                         *)
(* Of a printer's columns the flag, the site and the host computer are     *)
(* kept.  The foreign keys, which are not among the sources, are taken to  *)
(* remove a deleted computer's connections and clear it as host.           *)
(***************************************************************************)
EXTENDS Naturals, FiniteSets

CONSTANTS
  PrinterIds, ComputerIds,
  PrinterSites,
  Handlers,      \* requests that may run at the same time
  MaxHandled     \* bound on requests

ASSUME PrintersAssumption == 0 \notin PrinterIds \cup ComputerIds /\ MaxHandled \in Nat

VARIABLES
  printers,      \* [id -> row]
  connections,   \* printer_connected_computers
  entryIds,     \* the ids of ip_entries
  handling,      \* what a request does next
  handled,
  unsure        \* printers whose flag may be wrong (history)

printersVars == <<printers, connections, entryIds, handling, handled, unsure>>

NoHandling == [at |-> "idle", op |-> "host", printer |-> 0, computer |-> 0, shared |-> FALSE]

PrintersTypeOK ==
  /\ DOMAIN printers \subseteq PrinterIds
  /\ \A p \in DOMAIN printers :
       printers[p] \in [site : PrinterSites, shared : BOOLEAN, host : ComputerIds \cup {0}]
  /\ connections \subseteq PrinterIds \X ComputerIds /\ entryIds \subseteq ComputerIds
  /\ handling \in [Handlers ->
       [at : {"idle", "write", "count", "flag"}, op : {"connect", "disconnect", "host"},
        printer : PrinterIds \cup {0}, computer : ComputerIds \cup {0}, shared : BOOLEAN]]
  /\ handled \in 0..MaxHandled /\ unsure \subseteq PrinterIds

\* Printers that nobody shares or hosts yet.
PrintersInit ==
  /\ \E S \in SUBSET PrinterIds, place \in PrinterSites :
       printers = [p \in S |-> [site |-> place, shared |-> FALSE, host |-> 0]]
  /\ connections = {} /\ entryIds = ComputerIds
  /\ handling = [r \in Handlers |-> NoHandling] /\ handled = 0 /\ unsure = {}

Handle == handled < MaxHandled /\ handled' = handled + 1
Connected(p) == {c \in ComputerIds : <<p, c>> \in connections}
Write(p, row) ==
  printers' = [q \in DOMAIN printers \cup {p} |-> IF q = p THEN row ELSE printers[q]]

-----------------------------------------------------------------------------
(* Single statements.                                                      *)

\* createPrinterService; the form has the flag and no host.  The id is new: no request speaks of it.
CreatePrinter(p, place, shared) ==
  /\ Handle /\ p \notin DOMAIN printers /\ \A r \in Handlers : handling[r].printer # p
  /\ Write(p, [site |-> place, shared |-> shared, host |-> 0])
  /\ unsure' = unsure \ {p}
  /\ UNCHANGED <<connections, entryIds, handling>>

\* updatePrinterService: the form writes back every column, and with them the flag.
UpdatePrinter(p, place, shared) ==
  /\ Handle /\ p \in DOMAIN printers
  /\ Write(p, [printers[p] EXCEPT !.site = place, !.shared = shared])
  /\ unsure' = IF shared THEN unsure ELSE unsure \cup {p}
  /\ UNCHANGED <<connections, entryIds, handling>>

DeletePrinter(p) ==
  /\ Handle /\ p \in DOMAIN printers
  /\ printers' = [q \in DOMAIN printers \ {p} |-> printers[q]]
  /\ connections' = {x \in connections : x[1] # p}
  /\ UNCHANGED <<entryIds, handling, unsure>>

UnsetHost(p) ==
  /\ Handle /\ p \in DOMAIN printers
  /\ Write(p, [printers[p] EXCEPT !.host = 0])
  /\ UNCHANGED <<connections, entryIds, handling, unsure>>

\* deleteService of the entries, with its foreign keys; the flags stay as they are.
DeleteComputer(c) ==
  /\ c \in entryIds /\ entryIds' = entryIds \ {c}
  /\ connections' = {x \in connections : x[2] # c}
  /\ printers' = [p \in DOMAIN printers |->
       IF printers[p].host = c THEN [printers[p] EXCEPT !.host = 0] ELSE printers[p]]
  /\ UNCHANGED <<handling, handled, unsure>>

-----------------------------------------------------------------------------
(* Requests of several statements.                                         *)

\* findIpEntryByIpOrId; an unknown computer is refused.
FindComputer(r, op, p, c) ==
  /\ Handle /\ handling[r].at = "idle" /\ c \in entryIds
  /\ handling' = [handling EXCEPT ![r] =
       [at |-> "write", op |-> op, printer |-> p, computer |-> c, shared |-> op = "connect"]]
  /\ UNCHANGED <<printers, connections, entryIds, unsure>>

ThenDo(r, at) == handling' = [handling EXCEPT ![r].at = at]

\* setPrinterHost; a key that is gone is an error.
SetHost(r) ==
  LET h == handling[r] IN
  /\ h.at = "write" /\ h.op = "host" /\ handling' = [handling EXCEPT ![r] = NoHandling]
  /\ IF h.printer \in DOMAIN printers /\ h.computer \in entryIds
     THEN Write(h.printer, [printers[h.printer] EXCEPT !.host = h.computer])
     ELSE UNCHANGED printers
  /\ UNCHANGED <<connections, entryIds, handled, unsure>>

\* INSERT IGNORE: neither a row that is there nor a key that is gone is an error.  A disconnection
\* that has counted already does not count this one.
Connect(r) ==
  LET h == handling[r] IN
  /\ h.at = "write" /\ h.op = "connect" /\ ThenDo(r, "flag")
  /\ IF h.printer \in DOMAIN printers /\ h.computer \in entryIds
     THEN /\ connections' = connections \cup {<<h.printer, h.computer>>}
          /\ unsure' = IF \E o \in Handlers : handling[o].op = "disconnect"
                             /\ handling[o].at = "flag" /\ handling[o].printer = h.printer
                        THEN unsure \cup {h.printer} ELSE unsure
     ELSE UNCHANGED <<connections, unsure>>
  /\ UNCHANGED <<printers, entryIds, handled>>

Disconnect(r) ==
  LET h == handling[r] IN
  /\ h.at = "write" /\ h.op = "disconnect" /\ ThenDo(r, "count")
  /\ connections' = connections \ {<<h.printer, h.computer>>}
  /\ UNCHANGED <<printers, entryIds, handled, unsure>>

\* Mutant: disconnecting resets the flag without counting.
CountNothing(r) ==
  /\ handling[r].at = "count" /\ ThenDo(r, "flag")
  /\ UNCHANGED <<printers, connections, entryIds, handled, unsure>>

CountConnections(r) ==
  /\ handling[r].at = "count"
  /\ handling' = [handling EXCEPT ![r].at = "flag",
                                  ![r].shared = Connected(handling[r].printer) # {}]
  /\ UNCHANGED <<printers, connections, entryIds, handled, unsure>>

\* UPDATE printers SET shared, the last statement of both.
SetShared(r) ==
  LET h == handling[r] IN
  /\ h.at = "flag" /\ handling' = [handling EXCEPT ![r] = NoHandling]
  /\ IF h.printer \in DOMAIN printers
     THEN Write(h.printer, [printers[h.printer] EXCEPT !.shared = h.shared])
     ELSE UNCHANGED printers
  /\ UNCHANGED <<connections, entryIds, handled, unsure>>

\* A statement fails, or the server stops: what was written stays.
HandlerFails(r) ==
  LET h == handling[r] IN
  /\ h.at # "idle" /\ handling' = [handling EXCEPT ![r] = NoHandling]
  /\ unsure' = IF h.op = "connect" /\ h.at = "flag" THEN unsure \cup {h.printer} ELSE unsure
  /\ UNCHANGED <<printers, connections, entryIds, handled>>

PrintersNext ==
  \/ \E p \in PrinterIds, place \in PrinterSites, shared \in BOOLEAN :
       CreatePrinter(p, place, shared) \/ UpdatePrinter(p, place, shared)
  \/ \E p \in PrinterIds : DeletePrinter(p) \/ UnsetHost(p)
  \/ \E c \in ComputerIds : DeleteComputer(c)
  \/ \E r \in Handlers :
       \/ \E op \in {"connect", "disconnect", "host"}, p \in PrinterIds, c \in ComputerIds :
            FindComputer(r, op, p, c)
       \/ SetHost(r) \/ Connect(r) \/ Disconnect(r) \/ CountConnections(r) \/ SetShared(r)
       \/ HandlerFails(r)

PrintersSpec == PrintersInit /\ [][PrintersNext]_printersVars

-----------------------------------------------------------------------------
(* The queries.                                                            *)

PrintersAt(place) == {p \in DOMAIN printers : printers[p].site = place}

\* The list counts rows of the table, the details and the export join the computers.
ListPrinters(place) == [p \in PrintersAt(place) |-> Cardinality(Connected(p))]
GetPrinterById(p) ==
  [host |-> {printers[p].host} \cap entryIds, connected |-> Connected(p) \cap entryIds]
ExportPrinters(place) ==
  {[role |-> "HOST", printer |-> x[1], computer |-> x[2]] :
     x \in {y \in PrintersAt(place) \X entryIds : printers[y[1]].host = y[2]}} \cup
  {[role |-> "CONNECTED", printer |-> x[1], computer |-> x[2]] :
     x \in {y \in connections : y[1] \in PrintersAt(place) /\ y[2] \in entryIds}}

\* A printer with a connected computer is shared, whatever is connected and disconnected at the same
\* time.  Excepted are an administrator who says otherwise, a connection inserted after the count of
\* a disconnection, and one whose second statement failed (printers.repo.js:236-269).
ConnectedIsShared ==
  \A p \in DOMAIN printers \ unsure :
    Connected(p) # {} =>
      \/ printers[p].shared
      \/ \E r \in Handlers : handling[r] = [at |-> "flag", op |-> "connect", printer |-> p,
                                        computer |-> handling[r].computer, shared |-> TRUE]

\* The list, the details and the two sheets of the export tell the same of every printer.
RegisterAgrees ==
  \A place \in PrinterSites :
    LET sheet == ExportPrinters(place) IN
    \A p \in DOMAIN ListPrinters(place) :
      /\ ListPrinters(place)[p] = Cardinality(GetPrinterById(p).connected)
      /\ {x.computer : x \in {y \in sheet : y.printer = p /\ y.role = "HOST"}} =
           GetPrinterById(p).host
      /\ {x.computer : x \in {y \in sheet : y.printer = p /\ y.role = "CONNECTED"}} =
           GetPrinterById(p).connected
=============================================================================
