----------------------------- MODULE Navigation -----------------------------
(***************************************************************************)
(* Where one tab of the browser is and where it goes: the routes with what *)
(* they require, the guard of the router with its redirects, the page on   *)
(* which a site is chosen, the login, and the site that localStorage       *)
(* remembers for all tabs.  The other tabs are an environment that replaces *)
(* the token and the remembered site.                                      *)
(*                                                                         *)
(* An address is a page, the site its query names and the stops before it: *)
(* /login?returnTo=X and /select-site?returnTo=X are X with a stop more.   *)
(* Ids and the rest of the query are left out, and going back in the       *)
(* history.  What useCurrentUser and the flag of fetchWithAuth do is in    *)
(* UserSession.                                                            *)
(***************************************************************************)
EXTENDS Naturals, Sequences

CONSTANTS
  Places,  \* bound: the pages that are asked for
  Roles,   \* who logs in: some of Users below
  NoSite,  \* no site, or none that exists, in an address or in localStorage
  MaxMoves \* bound: what the user and other tabs do

\* constants/sites.js
Sites == {"bolnica", "dom_zdravlja"}
isValidSite(s) == s \in Sites

\* The roles, and the administrator whose name is admin.
Users == {"viewer", "operator", "admin", "root"}

-----------------------------------------------------------------------------
(* The routes. *)

\* Those that filter by site, which meta does not mention.
SitePages ==
  {"home", "add-ip", "free-ip-addresses", "duplicates", "computers-for-repack", "repack-recommendations",
   "groups", "deployment-groups", "metadata", "printers", "inventory", "pdsu", "agents", "agent-releases",
   "agent-batches", "computers-without-agent", "reports", "report-detail"}

\* requiresSite: false
DetailPages ==
  {"edit-ip", "ip-meta", "ip-pdsu", "ip-port-scan", "agent-detail", "agent-batch-detail", "agent-vnc-session"}

\* requiresAdmin, requiresRootAdmin and requiresOperator, which filter by site as well
AdminPages == {"downloads-folder"}
RootPages == {"users", "logs", "config"}
OperatorPages == {"server-health", "dns-logs", "process-detections"}

Pages == SitePages \cup DetailPages \cup AdminPages \cup RootPages \cup OperatorPages \cup {"not-found"}

\* Mutant: operators pass where administrators are asked for, and the other way round.
AllowedSwapped(role) ==
  SitePages \cup DetailPages
    \cup (IF role \in {"admin", "root"} THEN OperatorPages ELSE {})
    \cup (IF role \in {"operator", "admin", "root"} THEN AdminPages ELSE {})
    \cup (IF role = "root" THEN RootPages ELSE {})

\* The pages from which the guard does not send this user home.
Allowed(role) ==
  SitePages \cup DetailPages
    \cup (IF role \in {"operator", "admin", "root"} THEN OperatorPages ELSE {})
    \cup (IF role \in {"admin", "root"} THEN AdminPages ELSE {})
    \cup (IF role = "root" THEN RootPages ELSE {})

\* AppNav's links, and the link to the shared files (AgentsView), by the user that is shown.
NavLinks(shown) ==
  {"home", "metadata", "pdsu", "printers", "inventory", "agents", "reports"}
    \cup (IF shown = "root" THEN RootPages ELSE {})
    \cup (IF shown \in {"operator", "admin", "root"} THEN OperatorPages ELSE {})
    \cup (IF shown \in {"admin", "root"} THEN AdminPages ELSE {})

ASSUME NavigationAssumption == Places \subseteq Pages /\ Roles \subseteq Users /\ NoSite \notin Sites /\ MaxMoves \in Nat

-----------------------------------------------------------------------------

Stops == {<<>>, <<"login">>, <<"select-site">>, <<"login", "select-site">>, <<"start">>}
Addresses == [stops : Stops, page : Pages, site : Sites \cup {NoSite}]
At(page, site) == [stops |-> <<>>, page |-> page, site |-> site]
Stopped(stop, to) == [to EXCEPT !.stops = <<stop>> \o @]
Home == At("home", NoSite)
Start == Stopped("start", Home)

VARIABLES
  route,      \* where the tab is
  going,      \* the navigation under way: where to, and whether the guard has let it pass
  token,      \* localStorage "token": whose, "expired" or "none"
  remembered, \* localStorage "netdesk_last_site"
  shown,      \* whose links the tab shows, "none" before it has asked
  moves,      \* what the user and other tabs have done so far
  wanted,     \* the page the user asked for (history)
  mine,       \* the site the user chose or the tab showed last (history)
  strayed,    \* whether another one may be remembered: it is not stored yet, could not be, or
              \* another tab has stored its own (history)
  hops        \* redirects since the navigation began or the token changed (history)

navigationHistory == <<wanted, mine, strayed>>
navigationVars == <<route, going, token, remembered, shown, moves, hops, navigationHistory>>

Idle == [to |-> Start, at |-> "none"]
To(to) == going' = [to |-> to, at |-> "guard"]
From(address) == IF address.stops = <<>> THEN address.site ELSE NoSite
IsLogin(address) == address.stops \in {<<"login">>, <<"login", "select-site">>}

\* The site that the next page without one in its address should have.
Expect(site) ==
  \/ site \in {NoSite, mine} /\ UNCHANGED <<mine, strayed>>
  \/ site \notin {NoSite, mine} /\ mine' = site /\ strayed' = TRUE

\* Where the tab is going, or is.
Target == IF going.at = "none" THEN route ELSE going.to

NavigationTypeOK ==
  /\ route \in Addresses
  /\ going \in [to : Addresses, at : {"none", "guard", "loading"}]
  /\ token \in Users \cup {"expired", "none"} /\ shown \in Users \cup {"none"}
  /\ remembered \in Sites \cup {NoSite} /\ mine \in Sites \cup {NoSite}
  /\ moves \in 0 .. MaxMoves /\ wanted \in Pages /\ strayed \in BOOLEAN /\ hops \in Nat

\* A tab that is opened with some address.
NavigationInit ==
  /\ route = Start
  /\ \E page \in Places, site \in Sites \cup {NoSite} :
       /\ page \in DetailPages \cup {"not-found"} => site = NoSite
       /\ going = [to |-> At(page, site), at |-> "guard"]
       /\ wanted = page /\ mine = site
  /\ token \in Roles \cup {"none"} /\ remembered \in Sites \cup {NoSite}
  /\ shown = "none" /\ moves = 0 /\ strayed = TRUE /\ hops = 0

Move == moves < MaxMoves /\ moves' = moves + 1

-----------------------------------------------------------------------------
(* The guard: beforeEach is called again for each redirect. *)

Guarded == going.at = "guard" /\ UNCHANGED <<route, moves>>
Redirect(to) == To(to) /\ hops' = hops + 1

HasSession == token \in Users
RequiresAuth(to) == to.stops = <<"select-site">> \/ (to.stops = <<>> /\ to.page # "not-found")
IsRefused(to) == to.stops = <<>> /\ to.page \notin Allowed(token)
RequiresSite(to) == to.stops = <<>> /\ to.page \notin DetailPages

\* Mutant: after the login the page is forgotten.
ToLoginOnly(to) == Stopped("login", Home)

ToLogin(to) == Stopped("login", to)

\* no token, or one that has expired
GuardSession ==
  LET to == going.to IN
  /\ Guarded /\ RequiresAuth(to) /\ ~HasSession
  /\ token' = "none" /\ shown' = "none"
  /\ Redirect(ToLogin(to))
  /\ UNCHANGED <<remembered, navigationHistory>>

\* next('/'): the query, and the site in it, is left behind.
SendHome ==
  /\ Redirect(Home)
  /\ wanted' = "home" /\ Expect(From(route))
  /\ UNCHANGED <<token, remembered, shown>>

\* A role that is not enough leads to the first page.
GuardRole == Guarded /\ RequiresAuth(going.to) /\ HasSession /\ IsRefused(going.to) /\ SendHome

\* Mutant: what is remembered is preferred to the page one comes from.
RememberedSite == remembered

FallbackSite == IF isValidSite(From(route)) THEN From(route) ELSE remembered

\* an address without a site
GuardSite ==
  LET to == going.to IN
  /\ Guarded /\ RequiresAuth(to) /\ HasSession /\ ~IsRefused(to)
  /\ RequiresSite(to) /\ ~isValidSite(to.site)
  /\ \/ /\ isValidSite(FallbackSite)
        /\ Redirect([to EXCEPT !.site = FallbackSite])
        /\ mine' = (IF From(route) = NoSite /\ strayed THEN FallbackSite ELSE mine)
     \/ /\ ~isValidSite(FallbackSite)
        /\ Redirect(Stopped("select-site", to))
        /\ UNCHANGED mine
  /\ UNCHANGED <<token, remembered, shown, wanted, strayed>>

\* guestOnly: who is logged in is sent to the first page, wherever the login was to lead.
GuardGuest == Guarded /\ IsLogin(going.to) /\ HasSession /\ SendHome

\* The guard lets the navigation pass and remembers the site, unless the browser cannot store it.
GuardPasses ==
  LET to == going.to IN
  /\ Guarded
  /\ RequiresAuth(to) => HasSession /\ ~IsRefused(to) /\ (RequiresSite(to) => isValidSite(to.site))
  /\ IsLogin(to) => ~HasSession
  /\ going' = [going EXCEPT !.at = "loading"]
  /\ \/ RequiresAuth(to) /\ RequiresSite(to) /\ remembered' = to.site /\ strayed' = FALSE
     \/ RequiresAuth(to) /\ RequiresSite(to) /\ UNCHANGED remembered /\ strayed' = TRUE
     \/ ~(RequiresAuth(to) /\ RequiresSite(to)) /\ UNCHANGED <<remembered, strayed>>
  /\ UNCHANGED <<token, shown, wanted, mine, hops>>

\* The pages without MainLayout.
BarePages == {"agent-vnc-session", "not-found"}

\* The page's component is loaded: the route changes, and the layout, which login and select-site
\* are without as well, asks for the user.
Arrive ==
  /\ going.at = "loading"
  /\ route' = going.to /\ going' = Idle
  /\ LET inLayout == going.to.stops = <<>> /\ going.to.page \notin BarePages
     IN shown' = IF inLayout /\ shown = "none" /\ HasSession THEN token ELSE shown
  /\ UNCHANGED <<token, remembered, moves, hops, navigationHistory>>

GuardNext == GuardSession \/ GuardRole \/ GuardSite \/ GuardGuest \/ GuardPasses \/ Arrive

-----------------------------------------------------------------------------
(* The user, who does not act while the guard runs: it does not wait for anything. *)

PushTo(to) == Move /\ going.at # "guard" /\ To(to) /\ hops' = 0

OnPage == route.stops = <<>> /\ route.page # "not-found"

\* A link or router.push in the application, without a site.
FollowLink(page) ==
  /\ OnPage
  /\ page \in SitePages \cup DetailPages \cup NavLinks(shown)
  /\ PushTo(At(page, NoSite))
  /\ wanted' = page /\ Expect(From(route))
  /\ UNCHANGED <<route, token, remembered, shown>>

\* SiteSwitcher, which is there when the address has a site
SwitchSite ==
  /\ OnPage /\ isValidSite(route.site)
  /\ PushTo(Stopped("select-site", route))
  /\ wanted' = route.page /\ Expect(From(route))
  /\ UNCHANGED <<route, token, remembered, shown>>

\* Mutant: the site of the page that was left is kept.
KeepSite(to, site) == IF isValidSite(to.site) THEN to ELSE [to EXCEPT !.site = site]

WithSite(to, site) == [to EXCEPT !.site = site]

\* SelectSiteView
SelectSite(site) ==
  /\ route.stops = <<"select-site">>
  /\ PushTo(WithSite(At(route.page, route.site), site))
  /\ wanted' = route.page /\ Expect(site)
  /\ UNCHANGED <<route, token, remembered, shown>>

\* handleLogin
Login(role) ==
  /\ IsLogin(route)
  /\ PushTo([route EXCEPT !.stops = Tail(@)])
  /\ token' = role
  /\ wanted' = route.page /\ Expect(From([route EXCEPT !.stops = Tail(@)]))
  /\ UNCHANGED <<route, remembered, shown>>

\* LogoutButton
Logout ==
  /\ OnPage
  /\ PushTo(Stopped("login", Home))
  /\ token' = "none" /\ shown' = "none"
  /\ wanted' = "home" /\ Expect(From(route))
  /\ UNCHANGED <<route, remembered>>

\* The tab is loaded anew, with the address it has or another one.
Load(to) ==
  /\ PushTo(to)
  /\ route' = Start /\ shown' = "none"
  /\ UNCHANGED <<token, remembered>>

OpenAddress(page, site) ==
  /\ page \in DetailPages \cup {"not-found"} => site = NoSite
  /\ Load(At(page, site))
  /\ wanted' = page /\ Expect(IF site # NoSite THEN site ELSE From(route))

Reload == route # Start /\ Load(route) /\ wanted' = route.page /\ Expect(From(route))

-----------------------------------------------------------------------------
(* Requests, time and other tabs. *)

\* safeRedirectToLogin: an answer of any page, once the session is over; it comes back to the page
\* that is there, not to the one the tab is on its way to.
Unauthorized ==
  /\ route # Start /\ ~HasSession
  /\ token' = "none" /\ shown' = "none"
  /\ \/ ~IsLogin(route) /\ PushTo(Stopped("login", route))
        /\ wanted' = route.page /\ Expect(From(route))
     \/ IsLogin(route) /\ token # "none" /\ Move /\ going.at # "guard"
        /\ UNCHANGED <<going, hops, navigationHistory>>
  /\ UNCHANGED <<route, remembered>>

\* The token expires, or another tab logs in or out.
TokenChanges(value) ==
  /\ Move /\ value # token
  /\ value = "expired" => HasSession
  /\ token' = value /\ hops' = 0
  /\ UNCHANGED <<route, going, remembered, shown, navigationHistory>>

OtherTabRemembers(site) ==
  /\ Move /\ site # remembered
  /\ remembered' = site /\ strayed' = TRUE
  /\ UNCHANGED <<route, going, token, shown, wanted, mine, hops>>

UserNext ==
  \/ \E page \in Places : FollowLink(page) \/ \E site \in Sites \cup {NoSite} : OpenAddress(page, site)
  \/ SwitchSite \/ \E site \in Sites : SelectSite(site)
  \/ Logout \/ \E role \in Roles : Login(role)
  \/ Reload
AroundNext ==
  \/ Unauthorized
  \/ \E value \in Roles \cup {"expired", "none"} : TokenChanges(value)
  \/ \E site \in Sites : OtherTabRemembers(site)
NavigationNext == GuardNext \/ UserNext \/ AroundNext

NavigationSpec == NavigationInit /\ [][NavigationNext]_navigationVars

-----------------------------------------------------------------------------
(* Properties. *)

\* A page that filters by site has one before it is mounted (useCurrentSite.js).
PagesHaveASite == OnPage /\ RequiresSite(route) => isValidSite(route.site)

\* The page that was asked for is reached across the login, the choice of a site and all redirects,
\* unless the role is refused, somebody who is logged in opens the login, or the page that is left
\* finds the session over while the next one is loaded.
WantedIsReached == Target.page = wanted

\* A tab stays on its site until its user chooses another one: it changes only from a page whose
\* address has none, when another tab has remembered its own, or when the choice was not stored: it
\* could not be, or the page it was made for was refused or left before the guard had let it in.
SiteIsKept == From(Target) \in {NoSite, mine}

\* One navigation is redirected twice at most: to the first page, and to a site or the choice of one.
GuardEnds == hops <= 2

\* A link that AppNav shows to the user of the session leads to its page.
LinksLead == shown = token => \A page \in NavLinks(shown) : page \in Allowed(token)

NavigationIsTrue == PagesHaveASite /\ WantedIsReached /\ SiteIsKept /\ GuardEnds /\ LinksLead
=============================================================================
