---------------------------- MODULE DnsBlacklist ----------------------------
(***************************************************************************)
(* The blacklist of domains (flagged_domains): the daily round that adds    *)
(* what four feeds and a list in the code name, the administrators who add *)
(* and remove rules meanwhile, and the SQL that tells whether a domain a   *)
(* computer asked for is on the list.                                      *)
(*                                                                         *)
(* A domain is the sequence of its labels.  An AUTO_INCREMENT id is the    *)
(* number of the domain's row, which no two rows of a domain share.        *)
(***************************************************************************)
EXTENDS Naturals, Sequences, FiniteSets

CONSTANTS
  Domains,    \* the domains of rules and queries
  Offers,     \* what each source names, in the order of the round; the last is in the code
  ChunkSize,  \* BULK_INSERT_CHUNK_SIZE
  Seen,       \* the domains that computers asked for
  MaxRounds, MaxChanges \* bounds: rounds, and what administrators and failures do

ASSUME DnsBlacklistAssumption ==
  /\ Domains \subseteq Seq(STRING) /\ Seen \subseteq Domains
  /\ Offers \in Seq(SUBSET Domains) /\ Len(Offers) > 0
  /\ ChunkSize \in Nat \ {0} /\ MaxRounds \in Nat /\ MaxChanges \in Nat

Sources == 1 .. Len(Offers)
Curated == Len(Offers)
ByHand == 0

VARIABLES
  rules,     \* flagged_domains: [domain, id, reason]
  ids,       \* how many rows each domain has had
  turn,      \* the source whose turn it is in the round, 0 between rounds
  text,      \* what its feed answered: "none", "asked" or "parsed"
  pending,   \* what is still to be inserted of it
  adding,    \* addFlaggedDomainService between its two statements: the domain, <<>> for none
  rounds, changes, \* how many there have been
  tried,     \* the sources that had their turn in this round, or the last (history)
  due,       \* what they named that nobody has removed since, without what failed (history)
  entered    \* the rows that administrators added (history)

roundVars == <<turn, text, pending, rounds>>
blacklistHistory == <<tried, due, entered>>
blacklistVars == <<rules, ids, roundVars, adding, changes, blacklistHistory>>

DnsBlacklistTypeOK ==
  /\ rules \subseteq [domain : Domains, id : Nat, reason : Sources \cup {ByHand}]
  /\ ids \in [Domains -> Nat]
  /\ turn \in 0 .. Len(Offers) /\ text \in {"none", "asked", "parsed"} /\ pending \subseteq Domains
  /\ adding \in Domains \cup {<<>>}
  /\ rounds \in 0 .. MaxRounds /\ changes \in 0 .. MaxChanges
  /\ tried \subseteq Sources /\ due \subseteq Domains
  /\ entered \subseteq Domains \X Nat

DnsBlacklistInit ==
  /\ rules = {} /\ ids = [d \in Domains |-> 0]
  /\ turn = 0 /\ text = "none" /\ pending = {} /\ adding = <<>> /\ rounds = 0 /\ changes = 0
  /\ tried = {} /\ due = {} /\ entered = {}

Listed == {r.domain : r \in rules}
ChangeOnce == changes < MaxChanges /\ changes' = changes + 1

\* The rows of these domains, of which none is on the list.
NewRows(domains, reason) == {[domain |-> d, id |-> ids[d] + 1, reason |-> reason] : d \in domains}
Number(domains) == ids' = [d \in Domains |-> IF d \in domains THEN ids[d] + 1 ELSE ids[d]]

-----------------------------------------------------------------------------
(* The round.                                                              *)

\* The source s has its turn; the list in the code needs no feed.
Turn(s) ==
  /\ turn' = s
  /\ text' = (IF s = 0 THEN "none" ELSE IF s = Curated THEN "parsed" ELSE "asked")
  /\ pending' = (IF s = Curated THEN Offers[s] ELSE {})

After(s) == IF s = Curated THEN 0 ELSE s + 1

\* tick of startDomainBlacklistSyncLoop, at the start and every 24 hours
BeginRound ==
  /\ turn = 0 /\ rounds < MaxRounds /\ rounds' = rounds + 1
  /\ Turn(1)
  /\ tried' = {} /\ due' = {}
  /\ UNCHANGED <<rules, ids, adding, changes, entered>>

\* fetchText and the parser: a feed names some of its domains today.
ReadFeed(found) ==
  /\ text = "asked" /\ found \subseteq Offers[turn]
  /\ text' = "parsed" /\ pending' = found
  /\ UNCHANGED <<rules, ids, turn, adding, rounds, changes, blacklistHistory>>

\* Mutant: an error ends the round.
EndOfRound(s) == 0

\* The catch of each source leads to the next one.
AfterFailure(s) == After(s)

\* A feed does not answer in time, or a statement fails: the rest of the source is left out.
SourceFails ==
  /\ turn # 0 /\ ChangeOnce
  /\ ~(turn = Curated /\ pending = {})
  /\ Turn(AfterFailure(turn))
  /\ tried' = tried \cup {turn} /\ due' = due \ pending
  /\ UNCHANGED <<rules, ids, adding, rounds, entered>>

\* Mutant: INSERT ... ON DUPLICATE KEY UPDATE reason
Replaced(chunk) == {IF r.domain \in chunk THEN [r EXCEPT !.reason = turn] ELSE r : r \in rules}

\* INSERT IGNORE leaves the rows that are there.
Kept(chunk) == rules

\* Mutant: what is left after the first chunk is forgotten.
NothingLeft(chunk) == {}

Left(chunk) == pending \ chunk

\* bulkInsertFlaggedDomains inserts a chunk; the source ends with the last one.
InsertChunk(chunk) ==
  /\ text = "parsed" /\ chunk \subseteq pending
  /\ Cardinality(chunk) = ChunkSize \/ (chunk = pending /\ Cardinality(chunk) < ChunkSize)
  /\ rules' = Kept(chunk) \cup NewRows(chunk \ Listed, turn)
  /\ Number(chunk \ Listed)
  /\ IF Left(chunk) # {}
     THEN pending' = Left(chunk) /\ UNCHANGED <<turn, text, tried>>
     ELSE Turn(After(turn)) /\ tried' = tried \cup {turn}
  /\ due' = due \cup pending
  /\ UNCHANGED <<adding, rounds, changes, entered>>

\* The server is started again, with a round.
RestartRounds ==
  /\ turn # 0 /\ ChangeOnce
  /\ Turn(0) /\ adding' = <<>>
  /\ tried' = {} /\ due' = {}
  /\ UNCHANGED <<rules, ids, rounds, entered>>

-----------------------------------------------------------------------------
(* The administrators.                                                     *)

\* findFlaggedDomainMatch finds none.
FindNone(d) ==
  /\ ChangeOnce /\ adding = <<>> /\ d \notin Listed
  /\ adding' = d
  /\ UNCHANGED <<rules, ids, roundVars, blacklistHistory>>

\* insertFlaggedDomain, which the unique key refuses when the round was faster
InsertRule ==
  LET d == adding IN
  /\ d # <<>> /\ adding' = <<>>
  /\ IF d \in Listed
     THEN UNCHANGED <<rules, ids, entered>>
     ELSE /\ rules' = rules \cup NewRows({d}, ByHand) /\ Number({d})
          /\ entered' = entered \cup {<<d, ids[d] + 1>>}
  /\ UNCHANGED <<roundVars, changes, tried, due>>

\* deleteFlaggedDomain; what a feed names comes back in the next round.
RemoveRule(r) ==
  /\ ChangeOnce
  /\ rules' = rules \ {r} /\ due' = due \ {r.domain}
  /\ UNCHANGED <<ids, roundVars, adding, tried, entered>>

DnsBlacklistNext ==
  \/ BeginRound \/ SourceFails \/ RestartRounds \/ InsertRule
  \/ \E domains \in SUBSET Domains : ReadFeed(domains) \/ InsertChunk(domains)
  \/ \E d \in Domains : FindNone(d)
  \/ \E r \in rules : RemoveRule(r)

DnsBlacklistSpec == DnsBlacklistInit /\ [][DnsBlacklistNext]_blacklistVars

-----------------------------------------------------------------------------
(* Properties.                                                             *)

\* SUBSTRING_INDEX(domain, '.', -k)
LastLabels(d, k) == IF Len(d) <= k THEN d ELSE SubSeq(d, Len(d) - k + 1, Len(d))

\* Mutant: the branches stop at five labels.
FewerBranches(d) == d \in Listed \/ \E k \in 2 .. 5 : LastLabels(d, k) \in Listed

\* FLAGGED_DOMAIN_MATCH_SQL
isBlacklisted(d) == d \in Listed \/ \E k \in 2 .. 6 : LastLabels(d, k) \in Listed

IsUnder(d, rule) == Len(d) > Len(rule) /\ LastLabels(d, Len(rule)) = rule

\* A query is marked exactly if a rule names its domain or one above it (dnsLogs.repo.js), where a
\* rule of one label, or of more than six, names only itself.
MarksAreTrue ==
  \A d \in Seen :
    isBlacklisted(d) <=> d \in Listed \/ \E rule \in Listed : Len(rule) \in 2 .. 6 /\ IsUnder(d, rule)

\* A round gives every source its turn, whatever fails before it, and what the sources named that did
\* not fail is on the list until an administrator removes it (domainBlacklistSync.service.js).
NamedIsListed ==
  /\ turn = 0 => tried \in {{}, Sources}
  /\ turn # 0 => tried = 1 .. turn - 1
  /\ due \ pending \subseteq Listed

\* A domain has one rule, and a rule that was entered by hand keeps its reason.
EnteredStands ==
  \A r \in rules :
    /\ <<r.domain, r.id>> \in entered <=> r.reason = ByHand
    /\ \A other \in rules : other.domain = r.domain => other = r

BlacklistIsTrue == MarksAreTrue /\ NamedIsListed /\ EnteredStands
=============================================================================
