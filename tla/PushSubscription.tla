-------------------------- MODULE PushSubscription --------------------------
(***************************************************************************)
(* The push subscription of one browser, which its tabs share, the rows of *)
(* push_subscriptions, and a push to all of them, which prunes those that  *)
(* the push service calls gone.  An endpoint that was given up never comes *)
(* back; a new subscription gets the next one.                             *)
(*                                                                         *)
(* usePushNotifications awaits the browser, the backend and the browser    *)
(* again; every await is a step.  fetchWithAuth's own refusal is a request *)
(* that fails.                                                             *)
(***************************************************************************)
EXTENDS Naturals

CONSTANTS
  Tabs,
  MaxEndpoints  \* bound: endpoints that the push service issues

ASSUME PushSubscriptionAssumption == MaxEndpoints \in Nat

VARIABLES
  bell,        \* isSubscribed of a tab
  unchecked,   \* the tabs whose checkSubscription has not ended
  doing,       \* what a tab awaits and for which endpoint
  excused,     \* whether the tab's last operation failed, or others changed something since (history)
  subscription,\* the browser's endpoint, 0 for none
  issued,      \* endpoints issued
  endpoints,   \* the rows
  lost,        \* endpoints whose row could not be stored (history)
  sends,       \* sendPushToAll: the rows still to be sent to
  deadIds,     \* and those found to be gone
  pushing

pushTabVars == <<bell, unchecked, doing, excused>>
pushRunVars == <<sends, deadIds, pushing>>
subscriptionVars == <<pushTabVars, subscription, issued, endpoints, lost, pushRunVars>>

Endpoints == 1 .. MaxEndpoints
Idle == [at |-> "idle", endpoint |-> 0]
Stages == {"key", "post", "stored", "get", "drop", "delete", "deleted"}

SubscriptionTypeOK ==
  /\ bell \in [Tabs -> BOOLEAN] /\ unchecked \in SUBSET Tabs /\ excused \in [Tabs -> BOOLEAN]
  /\ doing \in [Tabs -> {Idle} \cup [at : Stages, endpoint : {0} \cup Endpoints]]
  /\ issued \in {0} \cup Endpoints /\ subscription \in 0 .. issued
  /\ endpoints \in SUBSET (1 .. issued) /\ lost \in SUBSET (1 .. issued)
  /\ sends \in SUBSET (1 .. issued) /\ deadIds \in SUBSET (1 .. issued) /\ pushing \in BOOLEAN

SubscriptionInit ==
  /\ bell = [t \in Tabs |-> FALSE] /\ unchecked = Tabs /\ doing = [t \in Tabs |-> Idle]
  /\ excused = [t \in Tabs |-> FALSE]
  /\ subscription = 0 /\ issued = 0 /\ endpoints = {} /\ lost = {}
  /\ sends = {} /\ deadIds = {} /\ pushing = FALSE

Do(t, stage, e) == doing' = [doing EXCEPT ![t] = [at |-> stage, endpoint |-> e]]
Finish(t) == doing' = [doing EXCEPT ![t] = Idle]
Ring(t, setting) == bell' = [bell EXCEPT ![t] = setting]
Excuse(T) == excused' = [t \in Tabs |-> t \in T \/ excused[t]]

\* A row that is deleted and stored anew has another id than the one a push has listed.
DeleteRow(e) == endpoints' = endpoints \ {e} /\ deadIds' = deadIds \ {e}
StoreRow(e) == endpoints' = endpoints \cup {e} /\ lost' = lost \ {e}

-----------------------------------------------------------------------------
(* A tab.                                                                  *)

\* checkSubscription, when the service worker is ready; once per tab.
CheckSubscription(t) ==
  /\ t \in unchecked /\ unchecked' = unchecked \ {t}
  /\ Ring(t, subscription # 0)
  /\ excused' = [excused EXCEPT ![t] = @ /\ doing[t] # Idle]
  /\ UNCHANGED <<doing, subscription, issued, endpoints, lost, pushRunVars>>

\* The button is disabled while loading.
Toggle(t) ==
  /\ doing[t] = Idle
  /\ Do(t, IF bell[t] THEN "get" ELSE "key", 0)
  /\ excused' = [excused EXCEPT ![t] = FALSE]
  /\ UNCHANGED <<bell, unchecked, subscription, issued, endpoints, lost, pushRunVars>>

\* subscribe: with permission and key, the browser's subscription is taken, or made.
Subscribe(t) ==
  /\ doing[t].at = "key"
  /\ \/ /\ subscription # 0
        /\ Do(t, "post", subscription) /\ UNCHANGED <<subscription, issued, excused>>
     \/ /\ subscription = 0 /\ issued < MaxEndpoints
        /\ issued' = issued + 1 /\ subscription' = issued'
        /\ Do(t, "post", issued') /\ Excuse(Tabs \ {t})
  /\ UNCHANGED <<bell, unchecked, endpoints, lost, pushRunVars>>

UpsertPushSubscription(t) ==
  /\ doing[t].at = "post"
  /\ StoreRow(doing[t].endpoint)
  /\ Do(t, "stored", doing[t].endpoint)
  /\ UNCHANGED <<bell, unchecked, excused, subscription, issued, pushRunVars>>

Subscribed(t) ==
  /\ doing[t].at = "stored"
  /\ Finish(t) /\ Ring(t, TRUE)
  /\ UNCHANGED <<unchecked, excused, subscription, issued, endpoints, lost, pushRunVars>>

\* unsubscribe: the browser is asked for its subscription, gives it up, and the backend is told.
GetSubscription(t) ==
  /\ doing[t].at = "get"
  /\ \/ subscription = 0 /\ Finish(t) /\ Ring(t, FALSE)
     \/ subscription # 0 /\ Do(t, "drop", subscription) /\ UNCHANGED bell
  /\ UNCHANGED <<unchecked, excused, subscription, issued, endpoints, lost, pushRunVars>>

Drop(t) ==
  /\ doing[t].at = "drop"
  /\ Do(t, "delete", doing[t].endpoint)
  /\ \/ /\ subscription = doing[t].endpoint
        /\ subscription' = 0 /\ Excuse(Tabs \ {t})
     \/ subscription # doing[t].endpoint /\ UNCHANGED <<subscription, excused>>
  /\ UNCHANGED <<bell, unchecked, issued, endpoints, lost, pushRunVars>>

DeletePushSubscription(t) ==
  /\ doing[t].at = "delete"
  /\ DeleteRow(doing[t].endpoint)
  /\ Do(t, "deleted", doing[t].endpoint)
  /\ UNCHANGED <<bell, unchecked, excused, subscription, issued, lost, sends, pushing>>

\* An answer with an error status is taken for one without.
Unsubscribed(t) ==
  /\ doing[t].at \in {"delete", "deleted"}
  /\ Finish(t) /\ Ring(t, FALSE)
  /\ UNCHANGED <<unchecked, excused, subscription, issued, endpoints, lost, pushRunVars>>

\* No permission, an error, no answer: the setting stays.  The page may also be loaded anew.
Unstored(t) == IF doing[t].at = "post" THEN {doing[t].endpoint} \ endpoints ELSE {}

Abandon(t) ==
  /\ lost' = lost \cup Unstored(t)
  /\ Finish(t)
  /\ UNCHANGED <<subscription, issued, endpoints, pushRunVars>>

OperationFails(t) ==
  /\ doing[t] # Idle
  /\ Abandon(t) /\ Excuse({t})
  /\ UNCHANGED <<bell, unchecked>>

ReloadTab(t) == Abandon(t) /\ Ring(t, FALSE) /\ unchecked' = unchecked \cup {t} /\ UNCHANGED excused

\* The user clears the site's data or takes the permission back: no tab is told.
Vanish ==
  /\ subscription # 0 /\ subscription' = 0
  /\ Excuse(Tabs)
  /\ UNCHANGED <<bell, unchecked, doing, issued, endpoints, lost, pushRunVars>>

-----------------------------------------------------------------------------
(* sendPushToAll.                                                          *)

ListPushSubscriptions ==
  /\ ~pushing /\ pushing' = TRUE
  /\ sends' = endpoints /\ deadIds' = {}
  /\ UNCHANGED <<pushTabVars, subscription, issued, endpoints, lost>>

\* Mutant: any error of the push service counts.
AnyError(e) == TRUE

\* 410 or 404.
IsGone(e) == e # subscription

\* The other errors may pass, and change nothing here.
SendNotification(e) ==
  /\ e \in sends /\ sends' = sends \ {e}
  /\ deadIds' = IF IsGone(e) /\ e \in endpoints THEN deadIds \cup {e} ELSE deadIds
  /\ UNCHANGED <<pushing, pushTabVars, subscription, issued, endpoints, lost>>

DeleteDead ==
  /\ pushing /\ sends = {} /\ pushing' = FALSE
  /\ endpoints' = endpoints \ deadIds /\ deadIds' = {}
  /\ UNCHANGED <<sends, pushTabVars, subscription, issued, lost>>

SubscriptionNext ==
  \/ \E t \in Tabs :
       \/ CheckSubscription(t) \/ Toggle(t) \/ Subscribe(t) \/ UpsertPushSubscription(t) \/ Subscribed(t)
       \/ GetSubscription(t) \/ Drop(t) \/ DeletePushSubscription(t) \/ Unsubscribed(t)
       \/ OperationFails(t) \/ ReloadTab(t)
  \/ Vanish \/ ListPushSubscriptions \/ DeleteDead
  \/ \E e \in Endpoints : SendNotification(e)

SubscriptionSpec == SubscriptionInit /\ [][SubscriptionNext]_subscriptionVars

-----------------------------------------------------------------------------
(* What a bell promises.                                                   *)

\* A tab at rest shows whether the browser is subscribed, unless its operation failed or somebody
\* else changed the subscription.
BellIsTrue ==
  \A t \in Tabs :
    doing[t] = Idle /\ t \notin unchecked /\ ~excused[t]
      => (bell[t] <=> subscription # 0)

\* A subscription is stored when no tab is busy, unless its request failed.
SubscriptionIsStored ==
  (\A t \in Tabs : doing[t] = Idle) /\ subscription # 0 /\ subscription \notin lost
    => subscription \in endpoints

\* Whoever sees a lit bell is sent the pushes: overlapping operations of two tabs, and pushes whose
\* pruning works with an older list, never cost a live subscription its row (subscribe, unsubscribe,
\* sendPushToAll).
BellMeansPush == BellIsTrue /\ SubscriptionIsStored
=============================================================================
