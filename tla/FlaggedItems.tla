---------------------------- MODULE FlaggedItems ----------------------------
(***************************************************************************)
(* Unwanted programs, services and drivers: rules that administrators add  *)
(* and remove, exceptions from a rule on one computer, and the places that *)
(* apply the rules to what the inventory of a computer holds.  The three   *)
(* kinds have tables and functions of their own that do the same.          *)
(*                                                                         *)
(* A text is a model value; Within says which rule names a name contains.  *)
(* A service has no maker.                                                 *)
(***************************************************************************)
EXTENDS Naturals, FiniteSets

CONSTANTS
  Kinds,        \* FLAG_KINDS
  Labels,       \* names of rules and items
  Makers, AnyMaker,  \* publishers and providers, or NULL
  Within,       \* pairs of a rule's name and a name that contains it
  Machines,     \* ip_entries that are computers
  Detected,     \* what the inventory may find: [kind, machine, name, maker]
  AgentsOn,     \* the active agents of each machine
  MaxRules      \* bound on rules ever added

\* An agent belongs to one entry.
ASSUME FlaggedAssumption ==
  /\ \A t \in Labels : <<t, t>> \in Within
  /\ AnyMaker \notin Makers /\ MaxRules \in Nat /\ IsFiniteSet(Detected)
  /\ \A i \in Detected : /\ i.kind \in Kinds /\ i.machine \in Machines
                         /\ i.name \in Labels /\ i.maker \in Makers \cup {AnyMaker}
  /\ \A m, n \in Machines : m # n => AgentsOn[m] \cap AgentsOn[n] = {}

VARIABLES
  rules,       \* the rows of the three tables: [id, kind, name, maker]
  added,       \* the last id
  adding,      \* requests between the check and the insertion: [number, kind, name, maker]
  raced,       \* history: whether two requests were there at the same time
  exceptions,  \* [rule, machine]
  installed    \* rows of the inventory

flaggedVars == <<rules, added, adding, raced, exceptions, installed>>

FlaggedTypeOK ==
  /\ added \in 0..MaxRules
  /\ rules \subseteq [id : 1..added, kind : Kinds, name : Labels, maker : Makers \cup {AnyMaker}]
  /\ adding \subseteq [number : {1, 2}, kind : Kinds, name : Labels, maker : Makers \cup {AnyMaker}]
  /\ raced \in BOOLEAN /\ installed \subseteq Detected
  /\ exceptions \subseteq [rule : 1..added, machine : Machines]

FlaggedInit ==
  /\ rules = {} /\ added = 0 /\ adding = {} /\ raced = FALSE /\ exceptions = {}
  /\ installed = Detected

-----------------------------------------------------------------------------
(* Rules.                                                                  *)

\* findFlaggedSoftwareMatch: a rule without a maker holds for every maker.
Match(kind, name, maker) ==
  {r \in rules : r.kind = kind /\ r.name = name /\ r.maker \in {AnyMaker, maker}}

\* addFlaggedSoftwareService up to its check; the page offers what the inventory has found.
BeginAdd(i, number) ==
  /\ Match(i.kind, i.name, i.maker) = {}
  /\ added + Cardinality(adding) < MaxRules /\ \A a \in adding : a.number # number
  /\ adding' = adding \cup {[number |-> number, kind |-> i.kind, name |-> i.name, maker |-> i.maker]}
  /\ raced' = (raced \/ adding # {})
  /\ UNCHANGED <<rules, added, exceptions, installed>>

InsertRule(a) ==
  /\ adding' = adding \ {a} /\ added' = added + 1
  /\ rules' = rules \cup {[id |-> added', kind |-> a.kind, name |-> a.name, maker |-> a.maker]}
  /\ UNCHANGED <<raced, exceptions, installed>>

\* Mutant: the exceptions of the rule stay.
ExceptionsAfter(r) == exceptions

\* ON DELETE CASCADE
WithoutRule(r) == {x \in exceptions : x.rule # r.id}

RemoveRule(r) ==
  /\ rules' = rules \ {r} /\ exceptions' = WithoutRule(r)
  /\ UNCHANGED <<added, adding, raced, installed>>

\* INSERT IGNORE: nothing happens once the rule has gone.
AddException(id, m) ==
  /\ exceptions' = exceptions \cup
       (IF \E r \in rules : r.id = id THEN {[rule |-> id, machine |-> m]} ELSE {})
  /\ UNCHANGED <<rules, added, adding, raced, installed>>

RemoveException(x) ==
  /\ exceptions' = exceptions \ {x}
  /\ UNCHANGED <<rules, added, adding, raced, installed>>

\* The inventory of a machine finds one thing more or less.
Sync(i) ==
  /\ installed' = IF i \in installed THEN installed \ {i} ELSE installed \cup {i}
  /\ UNCHANGED <<rules, added, adding, raced, exceptions>>

\* Services and drivers go the same way as programs, in tables of their own.
FlaggedNext ==
  \/ \E i \in Detected : Sync(i) \/ \E number \in {1, 2} : BeginAdd(i, number)
  \/ \E a \in adding : InsertRule(a)
  \/ \E r \in rules : RemoveRule(r)
  \/ \E id \in 1..added, m \in Machines : AddException(id, m)
  \/ \E x \in exceptions : RemoveException(x)

FlaggedSpec == FlaggedInit /\ [][FlaggedNext]_flaggedVars

-----------------------------------------------------------------------------
(* Where the rules are applied.                                            *)

\* LIKE and the maker, in the JOINs and subqueries.
Applies(r, i) ==
  r.kind = i.kind /\ <<r.name, i.name>> \in Within /\ r.maker \in {AnyMaker, i.maker}

Excepted(r, m) == [rule |-> r.id, machine |-> m] \in exceptions

Least(S) == CHOOSE n \in S : \A k \in S : n <= k

\* computerSoftwareList and its two siblings: matched_flagged_id of a row, 0 for NULL.
MatchedFlaggedId(i) ==
  LET ids == {r.id : r \in {q \in rules : Applies(q, i) /\ ~Excepted(q, i.machine)}} IN
  IF ids = {} THEN 0 ELSE Least(ids)

\* What the page of a machine marks (mapFlaggableRow).
Marked(kind, m) ==
  {i \in installed : i.kind = kind /\ i.machine = m /\ MatchedFlaggedId(i) # 0}

\* The number on the first page: pairs of a row and a rule (listIpEntries).
FlaggedCount(kind, m) ==
  Cardinality({x \in installed \X rules :
                 x[1].kind = kind /\ x[1].machine = m /\ Applies(x[2], x[1]) /\ ~Excepted(x[2], m)})

\* findAgentIdsForFlaggedSoftware and its siblings, which the links of the flagged page select.
AgentIdsFor(r) ==
  UNION {AgentsOn[i.machine] : i \in {j \in installed : Applies(r, j) /\ ~Excepted(r, j.machine)}}

\* isSoftwareFlagged: a program of the report is compared with the rules exactly.
ShownAsFlagged(i) == \E r \in rules : r.kind = i.kind /\ r.name = i.name /\ r.maker = i.maker

\* listFlaggedSoftwareExceptionsForIpEntry
ExceptionsOf(kind, m) == {r \in rules : r.kind = kind /\ Excepted(r, m)}

-----------------------------------------------------------------------------
\* The page of a machine marks something exactly if its number on the first page is not zero, and
\* exactly then some rule selects its agents; what the report shows as flagged is marked on every
\* machine that has it, unless its exception is listed there; and no exception outlives its rule.
FlagsAgree ==
  /\ \A kind \in Kinds, m \in Machines :
       LET selecting == {r \in rules : r.kind = kind /\ AgentsOn[m] \cap AgentIdsFor(r) # {}} IN
       /\ (Marked(kind, m) # {}) <=> (FlaggedCount(kind, m) > 0)
       /\ AgentsOn[m] # {} => ((Marked(kind, m) # {}) <=> (selecting # {}))
       /\ \A i \in installed :
            i.kind = kind /\ i.machine = m /\ ShownAsFlagged(i) =>
              i \in Marked(kind, m) \/ \E r \in ExceptionsOf(kind, m) : Applies(r, i)
  /\ \A x \in exceptions : \E r \in rules : r.id = x.rule

\* Two requests that are checked one after the other never add the same rule twice.
RulesAreDistinct ==
  raced \/ \A r, q \in rules : r # q => <<r.kind, r.name, r.maker>> # <<q.kind, q.name, q.maker>>
=============================================================================
