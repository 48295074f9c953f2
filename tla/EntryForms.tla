----------------------------- MODULE EntryForms -----------------------------
(***************************************************************************)
(* The forms of an entry and the lists of groups they choose from: the page *)
(* that edits an entry reads it once and writes all its columns back, while *)
(* agents and other administrators write to it as well; a department is a   *)
(* text that the server does not look up, and a group is deleted after its  *)
(* uses have been counted.                                                  *)
(*                                                                          *)
(* One entry is edited; three of the eight columns of the form stand for    *)
(* all: the address, which is required as the site is, one that agents write *)
(* too, and the department.  There are two lists of groups with the same code, for the   *)
(* departments of entries and for the deployment groups of agents and       *)
(* releases.  A form is saved once at a time and is not left meanwhile; that *)
(* an address is unique is in IpEntries.                                    *)
(***************************************************************************)
EXTENDS Naturals

CONSTANTS
  Names,     \* of groups
  NoText,    \* '' and NULL
  MaxWrites  \* bound: what users and agents do

Kinds == {"department", "deployment"}
Columns == {"ip", "os", "department"}
Systems == {"w10", "w11"}

ASSUME EntryFormsAssumption == NoText \notin Names \cup Systems \cup {"old", "new"} /\ MaxWrites \in Nat

Forms == [ip : {"old", "new", NoText}, os : Systems \cup {NoText}, department : Names \cup {NoText}]
EntryRows == {r \in Forms : r.ip # NoText}

\* createIpEntryForm
EmptyForm == [c \in Columns |-> NoText]

VARIABLES
  row,       \* the entry
  elsewhere, \* the departments of the other entries
  ofAgents, ofReleases, \* agent_deployment_groups and agent_release_groups
  listed,    \* groups_list and deployment_groups_list
  page,      \* the page that is shown: "none", "add" or "edit"
  form,      \* what its fields show
  options,   \* groupOptions
  request,   \* how far the page's requests are: "entry", "groups", "add" and "save"
  entryRead, groupsRead, added, sent,  \* what they carry
  deleting,  \* deleteGroupService between its two statements
  writes,    \* what users and agents have done so far
  loaded,    \* whether the form shows an entry (history)
  typed,     \* the columns changed in the form since (history)
  written,   \* the columns written since the form's entry was read (history)
  sentAs,    \* loaded and typed when the form was sent (history)
  loose      \* names that may be in use without being listed (history)

useVars == <<row, elsewhere, ofAgents, ofReleases>>
tableVars == <<useVars, listed>>
carried == <<entryRead, groupsRead, added, sent>>
formHistory == <<loaded, typed, written, sentAs>>
entryFormsVars == <<tableVars, page, form, options, request, carried, deleting, writes, formHistory, loose>>

NoDeletion == [kind |-> "none", name |-> NoText, unused |-> TRUE]
NoRequest == [entry |-> "none", groups |-> "none", add |-> "none", save |-> "none"]
Unsent == [loaded |-> FALSE, typed |-> {}]

EntryFormsTypeOK ==
  /\ row \in EntryRows /\ elsewhere \subseteq Names /\ ofAgents \subseteq Names /\ ofReleases \subseteq Names
  /\ listed \in [Kinds -> SUBSET Names]
  /\ page \in {"none", "add", "edit"} /\ form \in Forms /\ options \subseteq Names
  /\ request \in [entry : {"none", "asked", "read"}, groups : {"none", "asked", "read"},
                  add : {"none", "asked", "done"}, save : {"none", "asked", "done"}]
  /\ entryRead \in Forms /\ groupsRead \subseteq Names /\ added \in Names \cup {NoText} /\ sent \in Forms
  /\ deleting \in [kind : Kinds, name : Names, unused : BOOLEAN] \cup {NoDeletion}
  /\ writes \in 0 .. MaxWrites /\ loaded \in BOOLEAN
  /\ typed \subseteq Columns /\ written \subseteq Columns
  /\ sentAs \in [loaded : BOOLEAN, typed : SUBSET Columns] /\ loose \subseteq Kinds \X Names

Used(kind) ==
  IF kind = "department" THEN ({row.department} \cap Names) \cup elsewhere ELSE ofAgents \cup ofReleases

\* The lists are younger than the departments: a name may be in use that is in none.
EntryFormsInit ==
  /\ row \in {r \in EntryRows : r.ip = "old" /\ r.os = "w10"}
  /\ elsewhere = {} /\ ofAgents = {} /\ ofReleases = {} /\ listed \in [Kinds -> SUBSET Names]
  /\ page = "none" /\ form = EmptyForm /\ options = {} /\ request = NoRequest
  /\ entryRead = EmptyForm /\ groupsRead = {} /\ added = NoText /\ sent = EmptyForm
  /\ deleting = NoDeletion /\ writes = 0
  /\ loaded = FALSE /\ typed = {} /\ written = {} /\ sentAs = Unsent
  /\ loose = {"department"} \X (Used("department") \ listed["department"])

Write == writes < MaxWrites /\ writes' = writes + 1

-----------------------------------------------------------------------------
(* The page and what it asks for when it is mounted.                       *)

OpenPage(kind, asked) ==
  /\ page = "none" /\ Write
  /\ page' = kind
  /\ request' = [c \in DOMAIN NoRequest |-> IF c \in asked THEN "asked" ELSE "none"]
  /\ UNCHANGED <<tableVars, form, options, carried, deleting, formHistory, loose>>

OpenEdit == OpenPage("edit", {"entry", "groups"})
OpenAdd == OpenPage("add", {"groups"})

\* goBack, and the way back after the form has been saved: nobody sees what is still to answer.
Leave ==
  /\ page # "none" /\ request.save # "asked"
  /\ page' = "none" /\ form' = EmptyForm /\ options' = {} /\ request' = NoRequest
  /\ entryRead' = EmptyForm /\ groupsRead' = {} /\ added' = NoText /\ sent' = EmptyForm
  /\ loaded' = FALSE /\ typed' = {} /\ written' = {} /\ sentAs' = Unsent
  /\ UNCHANGED <<tableVars, deleting, writes, loose>>

\* getByIdService
ReadEntry ==
  /\ request.entry = "asked"
  /\ request' = [request EXCEPT !.entry = "read"]
  /\ entryRead' = row /\ written' = {}
  /\ UNCHANGED <<tableVars, page, form, options, groupsRead, added, sent, deleting, writes,
                 loaded, typed, sentAs, loose>>

\* The form is replaced, with what has been typed into it meanwhile.
AnswerEntry ==
  /\ request.entry = "read"
  /\ form' = entryRead /\ loaded' = TRUE /\ typed' = {}
  /\ request' = [request EXCEPT !.entry = "none"] /\ entryRead' = EmptyForm
  /\ UNCHANGED <<tableVars, page, options, groupsRead, added, sent, deleting, writes, written, sentAs, loose>>

\* listGroupsService
ReadGroups ==
  /\ request.groups = "asked"
  /\ request' = [request EXCEPT !.groups = "read"]
  /\ groupsRead' = listed["department"]
  /\ UNCHANGED <<tableVars, page, form, options, entryRead, added, sent, deleting, writes, formHistory, loose>>

AnswerGroups ==
  /\ request.groups = "read"
  /\ options' = groupsRead
  /\ request' = [request EXCEPT !.groups = "none"] /\ groupsRead' = {}
  /\ UNCHANGED <<tableVars, page, form, entryRead, added, sent, deleting, writes, formHistory, loose>>

\* A request fails, before or after the server has done it: the form stays and can be used.
RequestFails(kind) ==
  /\ Write /\ request[kind] # "none"
  /\ request' = [request EXCEPT ![kind] = "none"]
  /\ UNCHANGED <<tableVars, page, form, options, carried, deleting, formHistory, loose>>

-----------------------------------------------------------------------------
(* What the user does in the form.                                         *)

\* A text field, or a select: GroupSelect offers the list and what the form has.
Offered(c) ==
  CASE c = "ip" -> {"old", "new", NoText}
    [] c = "os" -> Systems \cup {NoText}
    [] c = "department" -> options \cup {form.department, NoText}

Type(c, text) ==
  /\ page # "none" /\ Write /\ text \in Offered(c) /\ text # form[c]
  /\ form' = [form EXCEPT ![c] = text] /\ typed' = typed \cup {c}
  /\ UNCHANGED <<tableVars, page, options, request, carried, deleting, loaded, written, sentAs, loose>>

\* addGroup of GroupSelect
AddGroup(name) ==
  /\ page # "none" /\ Write /\ request.add = "none"
  /\ request' = [request EXCEPT !.add = "asked"] /\ added' = name
  /\ UNCHANGED <<tableVars, page, form, options, entryRead, groupsRead, sent, deleting, formHistory, loose>>

\* createGroupService: a second row of that name is refused.
InsertAdded ==
  /\ request.add = "asked"
  /\ listed' = [listed EXCEPT !["department"] = @ \cup {added}]
  /\ request' = [request EXCEPT !.add = IF added \in listed["department"] THEN "none" ELSE "done"]
  /\ UNCHANGED <<useVars, page, form, options, carried, deleting, writes, formHistory, loose>>

\* 'group-added' and 'update:modelValue'
AnswerAdded ==
  /\ request.add = "done"
  /\ options' = options \cup {added}
  /\ form' = [form EXCEPT !.department = added] /\ typed' = typed \cup {"department"}
  /\ request' = [request EXCEPT !.add = "none"]
  /\ UNCHANGED <<tableVars, page, carried, deleting, writes, loaded, written, sentAs, loose>>

\* Mutant: columns without a text are left to the defaults of the form.
FormWithDefaults == [c \in Columns |-> IF c \in typed \cup {"ip"} THEN form[c] ELSE NoText]

Body == form

\* handleUpdate and handleSubmit: an address is required, and the whole form is sent.
Save ==
  /\ page # "none" /\ Write /\ form.ip # NoText /\ request.save = "none"
  /\ request' = [request EXCEPT !.save = "asked"]
  /\ sent' = Body /\ sentAs' = [loaded |-> loaded, typed |-> typed]
  /\ UNCHANGED <<tableVars, page, form, options, entryRead, groupsRead, added, deleting,
                 loaded, typed, written, loose>>

\* updateService sets every column it is sent; createService inserts another entry.
WriteSaved ==
  /\ request.save = "asked"
  /\ \/ page = "edit" /\ row' = sent /\ UNCHANGED elsewhere
     \/ page = "add" /\ elsewhere' = elsewhere \cup ({sent.department} \cap Names) /\ UNCHANGED row
  /\ request' = [request EXCEPT !.save = "done"]
  /\ written' = written \cup {c \in Columns : row'[c] # row[c]}
  /\ UNCHANGED <<ofAgents, ofReleases, listed, page, form, options, carried, deleting, writes,
                 loaded, typed, sentAs, loose>>

-----------------------------------------------------------------------------
(* Agents and other administrators.                                        *)

\* The inventory of an agent sets the address and the system, an administrator any column; a
\* department is chosen from the list as it is.
OthersWrite(c, text) ==
  /\ Write /\ text # row[c]
  /\ text \in (CASE c = "ip" -> {"old", "new"} [] c = "os" -> Systems
                 [] c = "department" -> listed["department"] \cup {NoText})
  /\ row' = [row EXCEPT ![c] = text] /\ written' = written \cup {c}
  /\ UNCHANGED <<elsewhere, ofAgents, ofReleases, listed, page, form, options, request, carried, deleting,
                 loaded, typed, sentAs, loose>>

\* A deployment group of an agent is any text; the pages let one be chosen.
Deploy(name) == IF name \in listed["deployment"] THEN loose ELSE loose \cup {<<"deployment", name>>}

\* addAgentDeploymentGroupService, for one agent or for many
AddAgentGroup(name) ==
  /\ Write /\ ofAgents' = ofAgents \cup {name} /\ loose' = Deploy(name)
  /\ UNCHANGED <<row, elsewhere, ofReleases, listed, page, form, options, request, carried, deleting,
                 formHistory>>

\* removeAgentDeploymentGroupService
RemoveAgentGroup(name) ==
  /\ Write /\ name \in ofAgents /\ ofAgents' = ofAgents \ {name}
  /\ UNCHANGED <<row, elsewhere, ofReleases, listed, page, form, options, request, carried, deleting,
                 formHistory, loose>>

\* A release is saved with the groups ticked in DeploymentGroupPicker, where a new one can be typed.
SetReleaseGroups(names) ==
  /\ Write /\ names # ofReleases /\ ofReleases' = names
  /\ loose' = loose \cup UNION {Deploy(name) : name \in names \ ofReleases}
  /\ UNCHANGED <<row, elsewhere, ofAgents, listed, page, form, options, request, carried, deleting,
                 formHistory>>

CreateGroup(kind, name) ==
  /\ Write /\ name \notin listed[kind]
  /\ listed' = [listed EXCEPT ![kind] = @ \cup {name}]
  /\ UNCHANGED <<useVars, page, form, options, request, carried, deleting, formHistory, loose>>

\* Mutant: releases are not counted.
UsedByAgents(kind) == IF kind = "deployment" THEN ofAgents ELSE Used(kind)

\* departmentCount, or agentCount and releaseCount
Counted(kind) == Used(kind)

\* deleteGroupService: the name must be listed and not be used.
BeginDelete(kind, name) ==
  /\ Write /\ deleting = NoDeletion
  /\ name \in listed[kind] \ Counted(kind)
  /\ deleting' = [kind |-> kind, name |-> name, unused |-> name \notin Used(kind)]
  /\ UNCHANGED <<tableVars, page, form, options, request, carried, formHistory, loose>>

\* Whether a form, or a request on its way to one or from one, has this department.
Held(name) ==
  \/ name \in options \cup {form.department}
  \/ request.groups = "read" /\ name \in groupsRead
  \/ request.entry = "read" /\ entryRead.department = name
  \/ request.add = "done" /\ added = name
  \/ request.save = "asked" /\ sent.department = name

DeleteGroup ==
  LET name == deleting.name kind == deleting.kind IN
  /\ deleting # NoDeletion
  /\ listed' = [listed EXCEPT ![kind] = @ \ {name}]
  /\ deleting' = NoDeletion
  /\ loose' = (IF deleting.unused /\ (name \in Used(kind) \/ (kind = "department" /\ Held(name)))
               THEN loose \cup {<<kind, name>>} ELSE loose)
  /\ UNCHANGED <<useVars, page, form, options, request, carried, writes, formHistory>>

DeleteFails == deleting # NoDeletion /\ deleting' = NoDeletion /\
  UNCHANGED <<tableVars, page, form, options, request, carried, writes, formHistory, loose>>

PageNext ==
  \/ OpenEdit \/ OpenAdd \/ Leave \/ ReadEntry \/ AnswerEntry \/ ReadGroups \/ AnswerGroups
  \/ \E kind \in {"entry", "groups", "add", "save"} : RequestFails(kind)
  \/ \E c \in Columns : \E text \in Offered(c) : Type(c, text)
  \/ \E name \in Names : AddGroup(name)
  \/ InsertAdded \/ AnswerAdded \/ Save \/ WriteSaved
OthersNext ==
  \/ \E c \in Columns, text \in Names \cup Systems \cup {"old", "new", NoText} : OthersWrite(c, text)
  \/ \E name \in Names : AddAgentGroup(name) \/ RemoveAgentGroup(name)
  \/ \E names \in SUBSET Names : SetReleaseGroups(names)
  \/ \E kind \in Kinds, name \in Names : CreateGroup(kind, name) \/ BeginDelete(kind, name)
  \/ DeleteGroup \/ DeleteFails
EntryFormsNext == PageNext \/ OthersNext

EntryFormsSpec == EntryFormsInit /\ [][EntryFormsNext]_entryFormsVars

-----------------------------------------------------------------------------
(* Properties.                                                             *)

\* A form that is saved, and one that is looked at, changes a column only if its user has typed
\* into it or somebody has written it since the form's entry was read (the older text is then
\* written back), unless the entry never arrived: that form is empty, and saving it empties every
\* column but the address typed into it (EditIpView.vue).
SaveKeepsOthers ==
  page = "edit" =>
    /\ loaded => \A c \in Columns \ (typed \cup written) : form[c] = row[c]
    /\ request.save = "asked" /\ sentAs.loaded =>
         \A c \in Columns \ (sentAs.typed \cup written) : sent[c] = row[c]

\* A group that is in use is listed, unless it was never listed or was typed as a text, or was taken
\* into use after its uses had been counted, or by a form that had read the list before.
UsedIsListed == \A kind \in Kinds : \A name \in Used(kind) \ listed[kind] : <<kind, name>> \in loose

FormsAreTrue == SaveKeepsOthers /\ UsedIsListed
=============================================================================
