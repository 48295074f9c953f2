--------------------------- MODULE InventorySync ---------------------------
(***************************************************************************)
(* What the handlers of one computer's inventory do to its rows: the lists *)
(* (software, drivers, services, updates, printers, available updates) and *)
(* the metadata with its child tables.  The rows are found by ip_entries.id *)
(* alone, which syncAgentInventory has resolved before (module Identity).   *)
(* The steps of one request run in parallel (Promise.all), the requests of  *)
(* one computer may overlap: the agent gives up a request and sends the     *)
(* next one, or restarts, while the server still works on the first.        *)
(*                                                                          *)
(* The six lists have the same code and share no row: there is one.  A      *)
(* reading is the number of the request that brought it; readings are not   *)
(* empty.  Event logs, DNS queries and processes are in AgentTelemetry, the *)
(* comparison of the service's files is left out.                           *)
(***************************************************************************)
EXTENDS Naturals, FiniteSets

CONSTANTS
  MaxSyncs,  \* bound: requests
  MaxFaults  \* bound: failures, stops of the server, and requests to clear

ASSUME InventorySyncAssumption == MaxSyncs \in Nat /\ MaxFaults \in Nat

Syncs == 1 .. MaxSyncs

VARIABLES
  handler,   \* the request's kind, its two parallel parts and what it has read
  started,   \* requests so far
  list,      \* computer_software: the requests whose rows it holds
  metadata,  \* computer_metadata with its child tables, by id
  inserted,  \* rows ever inserted into it: AUTO_INCREMENT
  attached,  \* ip_entries.metadata_id, 0 for NULL
  faults,    \* failures, stops and requests to clear so far
  clearing,  \* an administrator's request is between its two statements
  prior,     \* the requests that were over when a request came (history)
  disturbed  \* the requests in whose time or after which an administrator cleared (history)

tableVars == <<list, metadata, inserted, attached>>
syncHistory == <<prior, disturbed>>
syncVars == <<handler, started, tableVars, faults, clearing, syncHistory>>

Kinds == {"full", "partial", "post"}
Fields == {"scalars", "logicalCpus", "parts"}
Nothing == [f \in Fields |-> 0]
NoRow == [f \in Fields |-> MaxSyncs + 1]
RowIds == {i \in Syncs : metadata[i] # NoRow}

\* A full sync of the agent sends every field and the lists, one with events, queries or
\* processes none of them; an administrator posts every field.
SentFields(kind) == IF kind = "partial" THEN {} ELSE Fields

Unsent == [kind |-> "partial", list |-> "none", meta |-> "none", row |-> 0, old |-> Nothing]

SyncTypeOK ==
  /\ handler \in [Syncs -> [kind : Kinds, list : {"none", "delete", "insert", "done", "failed"},
                            meta : {"none", "find", "base", "parts", "read", "write", "done", "failed"},
                            row : 0 .. MaxSyncs, old : [Fields -> 0 .. MaxSyncs]]]
  /\ started \in 0 .. MaxSyncs
  /\ list \subseteq Syncs
  /\ metadata \in [Syncs -> [Fields -> 0 .. MaxSyncs] \cup {NoRow}]
  /\ inserted \in 0 .. MaxSyncs /\ attached \in 0 .. MaxSyncs
  /\ faults \in 0 .. MaxFaults /\ clearing \in BOOLEAN
  /\ prior \in [Syncs -> SUBSET Syncs] /\ disturbed \subseteq Syncs

SyncInit ==
  /\ handler = [s \in Syncs |-> Unsent] /\ started = 0
  /\ list = {} /\ metadata = [i \in Syncs |-> NoRow] /\ inserted = 0 /\ attached = 0
  /\ faults = 0 /\ clearing = FALSE
  /\ prior = [s \in Syncs |-> {}] /\ disturbed = {}

Running(s) == handler[s].list \in {"delete", "insert"} \/ handler[s].meta \notin {"none", "done", "failed"}

ToList(s, at) == handler' = [handler EXCEPT ![s].list = at]
ToMeta(s, at) == handler' = [handler EXCEPT ![s].meta = at]
EndMeta(s, at, id) == handler' = [handler EXCEPT ![s].meta = at, ![s].row = id, ![s].old = Nothing]
Fault == faults < MaxFaults /\ faults' = faults + 1

-----------------------------------------------------------------------------
(* The request. *)

\* syncAgentInventory starts all parts at once; POST /ip-addresses/:ip/metadata has one.
StartSync(kind) ==
  /\ started < MaxSyncs
  /\ started' = started + 1
  /\ handler' = [handler EXCEPT ![started + 1] =
                   [Unsent EXCEPT !.kind = kind,
                                  !.list = IF kind = "full" THEN "delete" ELSE "none",
                                  !.meta = IF kind = "post" THEN "read" ELSE "find"]]
  /\ prior' = [prior EXCEPT ![started + 1] = {s \in 1 .. started : ~Running(s)}]
  /\ disturbed' = IF clearing THEN disturbed \cup {started + 1} ELSE disturbed
  /\ UNCHANGED <<tableVars, faults, clearing>>

-----------------------------------------------------------------------------
(* syncComputerSoftware and its like: two statements, no transaction. *)

\* Mutant: a complete list is added to the old one.
KeepList(s) ==
  /\ handler[s].list = "delete"
  /\ ToList(s, "insert")
  /\ UNCHANGED <<started, tableVars, faults, clearing, syncHistory>>

DeleteList(s) ==
  /\ handler[s].list = "delete"
  /\ list' = {}
  /\ ToList(s, "insert")
  /\ UNCHANGED <<started, metadata, inserted, attached, faults, clearing, syncHistory>>

InsertList(s) ==
  /\ handler[s].list = "insert"
  /\ list' = list \cup {s}
  /\ ToList(s, "done")
  /\ UNCHANGED <<started, metadata, inserted, attached, faults, clearing, syncHistory>>

\* A statement fails: the other parts of the request go on.
ListFails(s) ==
  /\ Fault
  /\ handler[s].list \in {"delete", "insert"}
  /\ ToList(s, "failed")
  /\ UNCHANGED <<started, tableVars, clearing, syncHistory>>

-----------------------------------------------------------------------------
(* patchMetadataForIpEntry: read, merge, upsertMetadataForIpEntry. *)

FindMetadata(s) ==
  /\ handler[s].meta = "find"
  /\ \/ RowIds = {} /\ ToMeta(s, "read")
     \/ \E id \in RowIds : handler' = [handler EXCEPT ![s].meta = "base", ![s].row = id]
  /\ UNCHANGED <<started, tableVars, faults, clearing, syncHistory>>

\* mapMeta reads the columns under the names loadMetadataBaseById gives them, but for
\* cpuLogicalCpus, which it looks for as cpuLogicalCPus: the count is NULL in what it returns.
ReadBase(s) ==
  LET row == metadata[handler[s].row] IN
  /\ handler[s].meta = "base"
  /\ \/ row = NoRow /\ ToMeta(s, "read")
     \/ row # NoRow /\ handler' = [handler EXCEPT ![s].meta = "parts", ![s].old.scalars = row.scalars]
  /\ UNCHANGED <<started, tableVars, faults, clearing, syncHistory>>

\* loadMetadataChildren, of a row that may have gone with its children
ReadParts(s) ==
  LET row == metadata[handler[s].row] IN
  /\ handler[s].meta = "parts"
  /\ handler' = [handler EXCEPT ![s].meta = "read", ![s].old.parts = IF row = NoRow THEN 0 ELSE row.parts]
  /\ UNCHANGED <<started, tableVars, faults, clearing, syncHistory>>

\* The transaction begins: txGetExistingMetaId.
ReadMetadataId(s) ==
  /\ handler[s].meta = "read"
  /\ \/ RowIds = {} /\ handler' = [handler EXCEPT ![s].meta = "write", ![s].row = 0]
     \/ \E id \in RowIds : handler' = [handler EXCEPT ![s].meta = "write", ![s].row = id]
  /\ UNCHANGED <<started, tableVars, faults, clearing, syncHistory>>

\* Mutant: parts that were not sent are replaced by none.
MergedScalars(s) ==
  [f \in Fields |-> IF f \in SentFields(handler[s].kind) THEN s ELSE IF f = "parts" THEN 0 ELSE handler[s].old[f]]

\* The row that is written: what was sent, and for the rest what was read.
Merged(s) == [f \in Fields |-> IF f \in SentFields(handler[s].kind) THEN s ELSE handler[s].old[f]]

\* txInsertMeta, txAttachMetadataToIpEntry and the children, to the end of the transaction.
InsertMetadata(s) ==
  /\ handler[s].meta = "write" /\ handler[s].row = 0
  /\ inserted' = inserted + 1
  /\ metadata' = [metadata EXCEPT ![inserted + 1] = Merged(s)]
  /\ attached' = inserted + 1
  /\ EndMeta(s, "done", inserted + 1)
  /\ UNCHANGED <<started, list, faults, clearing, syncHistory>>

\* txUpdateMeta and txReplaceRam, -Storage, -Gpus, -Nics, to the end of the transaction.
UpdateMetadata(s) ==
  /\ handler[s].meta = "write" /\ handler[s].row \in RowIds
  /\ metadata' = [metadata EXCEPT ![handler[s].row] = Merged(s)]
  /\ EndMeta(s, "done", handler[s].row)
  /\ UNCHANGED <<started, list, inserted, attached, faults, clearing, syncHistory>>

\* The row was cleared meanwhile: the UPDATE finds none, and its children are refused, when there
\* are any and a foreign key stands (in no file of the repository), or written for no row.
UpdateMisses(s) ==
  /\ handler[s].meta = "write" /\ handler[s].row \notin RowIds \cup {0}
  /\ \/ EndMeta(s, "done", 0)
     \/ Merged(s).parts # 0 /\ EndMeta(s, "failed", 0)
  /\ UNCHANGED <<started, tableVars, faults, clearing, syncHistory>>

\* A statement fails and the transaction is rolled back; a second row may be refused (the key of
\* computer_metadata is in no file of the repository).
MetadataFails(s) ==
  /\ \/ handler[s].meta = "write" /\ handler[s].row = 0 /\ RowIds # {} /\ UNCHANGED faults
     \/ handler[s].meta \notin {"none", "done", "failed"} /\ Fault
  /\ EndMeta(s, "failed", 0)
  /\ UNCHANGED <<started, tableVars, clearing, syncHistory>>

-----------------------------------------------------------------------------
(* The server and its administrators. *)

\* The server stops: its requests stop where they are, open transactions are rolled back.
StopServer ==
  /\ Fault
  /\ \E s \in Syncs : Running(s)
  /\ handler' = [s \in Syncs |->
       [handler[s] EXCEPT !.list = IF @ \in {"delete", "insert"} THEN "failed" ELSE @,
                          !.meta = IF @ \notin {"none", "done", "failed"} THEN "failed" ELSE @,
                          !.row = IF handler[s].meta = "done" THEN @ ELSE 0,
                          !.old = Nothing]]
  /\ clearing' = FALSE
  /\ UNCHANGED <<started, tableVars, syncHistory>>

\* clearComputerPdsu, of which the list sees one DELETE
ClearPdsu ==
  /\ Fault
  /\ started > 0
  /\ list' = {}
  /\ disturbed' = 1 .. started
  /\ UNCHANGED <<handler, started, metadata, inserted, attached, clearing, prior>>

\* deleteMetadataForIpEntry: first the column of ip_entries, then the row.
DetachMetadata ==
  /\ Fault
  /\ started > 0 /\ ~clearing
  /\ attached' = 0
  /\ clearing' = TRUE
  /\ disturbed' = 1 .. started
  /\ UNCHANGED <<handler, started, list, metadata, inserted, prior>>

DeleteMetadata ==
  /\ clearing
  /\ metadata' = [i \in Syncs |-> NoRow]
  /\ clearing' = FALSE
  /\ disturbed' = 1 .. started
  /\ UNCHANGED <<handler, started, list, inserted, attached, faults, prior>>

\* The second statement fails: the row stays and the entry does not show it.
DeleteFails ==
  /\ Fault
  /\ clearing
  /\ clearing' = FALSE
  /\ UNCHANGED <<handler, started, tableVars, syncHistory>>

\* The lists of drivers and services are rewritten in the same way.
ListNext == \E s \in Syncs : DeleteList(s) \/ InsertList(s) \/ ListFails(s)
PatchNext == \E s \in Syncs : FindMetadata(s) \/ ReadBase(s) \/ ReadParts(s)
UpsertNext == \E s \in Syncs : ReadMetadataId(s) \/ InsertMetadata(s) \/ UpdateMetadata(s) \/ UpdateMisses(s)
ClearNext == ClearPdsu \/ DetachMetadata \/ DeleteMetadata \/ DeleteFails
SyncNext ==
  \/ \E kind \in Kinds : StartSync(kind)
  \/ ListNext \/ PatchNext \/ UpsertNext
  \/ \E s \in Syncs : MetadataFails(s)
  \/ StopServer \/ ClearNext

SyncSpec == SyncInit /\ [][SyncNext]_syncVars

-----------------------------------------------------------------------------
(* Properties. *)

Overlap(s, t) == s \notin prior[t] /\ t \notin prior[s] /\ s # t

\* The newest complete inventory: every part of request s succeeded, nothing ran beside it, and
\* nothing that replaces it has come since.
IsLatest(s) ==
  /\ handler[s].kind = "full" /\ handler[s].list = "done" /\ handler[s].meta = "done"
  /\ s \notin disturbed
  /\ \A t \in 1 .. started : ~Overlap(s, t) /\ (t > s => handler[t].kind = "partial")

\* An inventory the server has acknowledged is stored whole and stays so until it is replaced or
\* cleared, whatever syncs with nothing but events, queries and processes follow, overlap or fail
\* (patchMetadataForIpEntry merges): the list is its list, and the metadata, when there is one row
\* of it, is its metadata, attached to the entry unless a clear was cut short.  The count of logical CPUs is no part of
\* this: the next such sync erases it (ReadBase).
LatestInventoryIsStored ==
  \A s \in Syncs : IsLatest(s) =>
    /\ list = {s}
    /\ \A id \in RowIds : RowIds = {id} =>
         metadata[id].scalars = s /\ metadata[id].parts = s /\ (attached = id \/ disturbed # {})

\* A list is never older than a request that replaced it and never empty because of an overlap: a
\* list that a request has stored is gone once a request that came after the end of that one has
\* stored its own, and when all requests have stored theirs, there is one.
ListIsCurrent ==
  LET stored == {s \in Syncs : handler[s].list = "done"} IN
  /\ \A t \in stored : prior[t] \cap list = {}
  /\ (/\ stored # {} /\ disturbed = {}
      /\ \A s \in Syncs : handler[s].kind = "full" => s \in stored) => list # {}

\* What the database has of a computer is what its agent reported last (syncInventoryService).
StoredIsReported == LatestInventoryIsStored /\ ListIsCurrent
=============================================================================
