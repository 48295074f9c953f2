--------------------------- MODULE MCJobsAndPages ---------------------------
(* Two things for one run of TLC: the command queue, small enough for its liveness properties, and   *)
(* beside it the pages that are about a site, an entry, its ports and the domains.  Their modules    *)
(* share no variable, so that one of them moves, chosen at the start, and the others stand still.    *)
EXTENDS MCAgentJobs, Navigation, EntryForms, DnsBlacklist, BlacklistPage, PortScan

CONSTANTS n1, n2

VARIABLE part

\* A domain, its subdomains, and where a query has more labels than the code follows.
Com == <<"com">>
Site == <<"site", "com">>
Six == <<"c", "b", "a", "www", "site", "com">>
Seven == <<"d">> \o Six
Eight == <<"e">> \o Seven
MCDomains == {Com, Site, Six, Seven, Eight}
MCOffers == << {Com, Site, Seven}, {Site, Six, Eight} >>

\* Nothing, a port with a range, ranges out of bounds and back to front, and what names no port.
MCFields == {{}, {<<2>>, <<1, 3>>}, {<<9, 0>>}, {<<>>, <<7>>, <<1, 2, 3>>}, {<<6, 8>>, <<0, 0>>}}

\* Which of two groups an entry starts with makes no difference, nor what a part starts with
\* that stands still.
MCInit ==
  /\ part \in {"jobs", "tab", "forms", "list", "page", "ports"}
  /\ Init /\ PortScanInit /\ DnsBlacklistInit
  /\ NavigationInit
  /\ part # "tab" => going.to = Home /\ token = "none" /\ remembered = NoSite
  /\ EntryFormsInit /\ row.department = n1 /\ listed["deployment"] = {n1}
  /\ part # "forms" => listed["department"] = {}
  /\ BlacklistPageInit /\ (part # "page" => flagged = {})

pageVars == <<navigationVars, entryFormsVars, blacklistPageVars, portScanVars>>

MCNext ==
  /\ UNCHANGED part
  /\ \/ part = "jobs" /\ Next /\ UNCHANGED <<blacklistVars, pageVars>>
     \/ /\ part = "tab" /\ NavigationNext
        /\ UNCHANGED <<vars, blacklistVars, entryFormsVars, blacklistPageVars, portScanVars>>
     \/ /\ part = "forms" /\ EntryFormsNext
        /\ UNCHANGED <<vars, blacklistVars, navigationVars, blacklistPageVars, portScanVars>>
     \/ part = "list" /\ DnsBlacklistNext /\ UNCHANGED <<vars, pageVars>>
     \/ /\ part = "page" /\ BlacklistPageNext
        /\ UNCHANGED <<vars, blacklistVars, navigationVars, entryFormsVars, portScanVars>>
     \/ /\ part = "ports" /\ PortScanNext
        /\ UNCHANGED <<vars, blacklistVars, navigationVars, entryFormsVars, blacklistPageVars>>

\* The fairness of AgentJobs, where the queue is the part that moves; of the others only safety
\* is of interest.
JobsFairness ==
  /\ \A p \in Polls : /\ WF_vars(part = "jobs" /\ PollSelect(p))
                      /\ WF_vars(part = "jobs" /\ PollMark(p))
                      /\ WF_vars(part = "jobs" /\ PollReply(p))
  /\ \A a \in Agents : /\ WF_vars(part = "jobs" /\ \E p \in Polls : PollAgent[p] = a /\ StartPoll(p))
                       /\ WF_vars(part = "jobs" /\ \E j \in JobIds : Execute(a, j))
                       /\ WF_vars(part = "jobs" /\ SendResult(a))
                       /\ WF_vars(part = "jobs" /\ ReportDone(a))
  /\ \A j \in JobIds : /\ WF_vars(part = "jobs" /\ ResultCheck(j))
                       /\ WF_vars(part = "jobs" /\ ResultComplete(j))
  /\ <>[][~(part = "jobs" /\ BackendRestart)]_vars

MCSpec == MCInit /\ [][MCNext]_<<part, vars, blacklistVars, pageVars>> /\ JobsFairness

\* What each part is correct by: where a tab goes and comes to, what a form writes and what is
\* counted for a group, what the list of domains has and marks, which of it is shown, and which
\* ports are found open.
PartsAreSound ==
  /\ part = "tab" => NavigationTypeOK /\ NavigationIsTrue
  /\ part = "forms" => EntryFormsTypeOK /\ FormsAreTrue
  /\ part = "list" => DnsBlacklistTypeOK /\ BlacklistIsTrue
  /\ part = "page" => BlacklistPageTypeOK /\ ListIsThere
  /\ part = "ports" => PortScanTypeOK /\ ScanIsTrue
=============================================================================
