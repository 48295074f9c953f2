------------------------------ MODULE MCTables ------------------------------
(* Three computers of two sites and what their agents find; the entries of two sites; the programs   *)
(* and services that rules are about; two agents, and printers, of two sites.                      *)
EXTENDS PdsuAnalytics, IpEntries, FlaggedItems, AgentTable, Printers

CONSTANTS e1, e2, e3

MCSiteOf == [e \in Entries |-> IF e = e3 THEN "dom_zdravlja" ELSE "bolnica"]

Software(e, id, name, version, publisher) ==
  [computer |-> e, id |-> id, name |-> name, version |-> version, publisher |-> publisher]
Driver(e, id, name, version, date, manufacturer, provider) ==
  [computer |-> e, id |-> id, name |-> name, version |-> version, date |-> date,
   manufacturer |-> manufacturer, provider |-> provider]
Service(e, id, name, state, mode, path) ==
  [computer |-> e, id |-> id, name |-> name, state |-> state, mode |-> mode, path |-> path]
Hotfix(e, id, name, day) == [computer |-> e, id |-> id, name |-> name, day |-> day]
Printer(e, id, name, driver, status, default) ==
  [computer |-> e, id |-> id, name |-> name, driver |-> driver, status |-> status,
   default |-> default]

\* Every computer has the common things; e1 and e2 have what is rare, e3 what has no value.
MCFindings == [e \in Entries |->
  [software |-> {Software(e, 1, "office", IF e = e1 THEN "v1" ELSE "v2", "maker")} \cup
     (IF e = e3 THEN {Software(e, 2, "office", Blank, Blank), Software(e, 3, Blank, "v1", Blank)}
      ELSE {Software(e, 2, "game", "v1", "maker")}),
   drivers |-> {Driver(e, 1, "disk", IF e = e1 THEN "v1" ELSE "v2", 1, "maker", "provider")} \cup
     (IF e = e3 THEN {Driver(e, 2, "net", Blank, Blank, Blank, Blank)}
      ELSE {Driver(e, 2, "net", "v1", Blank, Blank, "provider")}),
   services |-> {Service(e, 1, "spooler", "running", "auto", "windows")} \cup
     (IF e = e1 THEN {Service(e, 2, "uvnc_service", "stopped", "automatic", "programs")}
      ELSE IF e = e2 THEN {Service(e, 2, "netdeskagentmanager", Blank, "auto", Blank)}
      ELSE {Service(e, 2, Blank, "starting", "auto", "odd"),
            Service(e, 3, "odd", "stopped", "manual", "odd")}),
   updates |-> IF e = e1 THEN {Hotfix(e, 1, "kb1", 0), Hotfix(e, 2, "kb2", 60)}
     ELSE IF e = e2 THEN {Hotfix(e, 1, "kb1", 0), Hotfix(e, 2, Blank, Blank)}
     ELSE {Hotfix(e, 1, "kb1", Blank)},
   printers |-> {Printer(e, 1, "hp laser", "hp driver", "ok", TRUE)} \cup
     (IF e = e1 THEN {Printer(e, 2, "front desk", Blank, "error", FALSE)}
      ELSE IF e = e2 THEN {Printer(e, 2, "front desk", "canon driver", Blank, FALSE)}
      ELSE {Printer(e, 2, Blank, "plain", "offline", FALSE)})]]

MCBrandsIn ==
  [text \in {"hp laser", "hp driver", "front desk", "canon driver", "plain", Blank} |->
     CASE text \in {"hp laser", "hp driver"} -> {1} [] text = "canon driver" -> {2} [] OTHER -> {}]

-----------------------------------------------------------------------------
MCKey == [n \in {"pc1", "PC2"} |-> "pc1"]
MCUsable == [place \in {"bolnica", "dom_zdravlja"} |-> IF place = "bolnica" THEN {1, 2} ELSE {3}]

Entry(ip, name, department, place, kind, up) ==
  [ip |-> ip, name |-> name, department |-> department, site |-> place, type |-> kind,
   online |-> up, pending |-> FALSE, recent |-> TRUE, hardware |-> "weak", agents |-> 1]

\* Two entries have one name, and one lies outside the addresses of its site.
MCEntries ==
  [i \in 1..3 |-> CASE i = 1 -> Entry(1, "pc1", "lab", "bolnica", "computer", TRUE)
                    [] i = 2 -> Entry(3, "PC2", NoText, "bolnica", "device", FALSE)
                    [] OTHER -> Entry(4, "pc1", "lab", "dom_zdravlja", "computer", FALSE)]

-----------------------------------------------------------------------------
Item(kind, m, name, maker) == [kind |-> kind, machine |-> m, name |-> name, maker |-> maker]

MCDetected ==
  {Item("software", 1, "office pro", "maker"), Item("software", 1, "office", AnyMaker),
   Item("software", 2, "office", "maker"), Item("services", 2, "office", AnyMaker)}
MCWithin == {<<"office", "office">>, <<"office", "office pro">>, <<"office pro", "office pro">>}
MCAgentsOn == [m \in {1, 2} |-> IF m = 1 THEN {1} ELSE {2, 3}]
-----------------------------------------------------------------------------
\* An agent that works, and one of the same computer that was reinstalled.
MCFirstFleet ==
  [a \in {1, 2} |->
     [active |-> TRUE, age |-> IF a = 1 THEN Never ELSE 0, host |-> 1, groups |-> {},
      version |-> 1, antivirus |-> IF a = 1 THEN "unknown" ELSE "enabled"]]
MCHostSite == [h \in {1, 2} |-> IF h = 1 THEN "bolnica" ELSE "dom_zdravlja"]
=============================================================================
