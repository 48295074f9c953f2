---------------------------- MODULE BrowserProofs ----------------------------
(***************************************************************************)
(* Proofs about the browser, for every number of tabs, users, requests,    *)
(* presses, filters, agents and changes: the session of a user, the push   *)
(* subscription, the pages that follow commands, the list of agents and    *)
(* the pages of the console, which share no state; and about the console   *)
(* as a whole, these five and the eight parts of the backend               *)
(* (ServerProofs), of which one moves.                                     *)
(***************************************************************************)
EXTENDS MCConsole, ServerProofs

-----------------------------------------------------------------------------
(* The session of a browser.                                               *)

\* No user is shown, and no answer is on its way that would set one.
NobodyShown ==
  /\ currentUser = NoOne
  /\ \A q \in Fetching : inFlight[q].kind = "me" => inFlight[q].old

\* The user that is shown, and the one that an answer will show, is the token's; nobody is while
\* somebody may log in, which is on the login page and on the way to it.
SessionIsOne ==
  /\ currentUser # NoOne => currentUser = token.user
  /\ \A q \in Fetching : inFlight[q].kind = "me" /\ ~inFlight[q].old => inFlight[q].user = token.user
  /\ page = "login" \/ redirecting => NobodyShown

\* A token's user stays in it when it expires; a request is what was sent, or old.
SessionTyped ==
  /\ token \in {NoToken} \cup [user : People, valid : BOOLEAN]
  /\ inFlight \in [Fetching -> {Unused} \cup [kind : {"me", "other"}, user : People, old : BOOLEAN]]

SessionInv == SessionTyped /\ (foreign \/ overtaken \/ SessionIsOne)

LEMMA SessionInitInv == SessionInit => SessionInv
<1> SUFFICES ASSUME SessionInit PROVE SessionInv
  OBVIOUS
<1> USE DEF SessionInit, Unused
<1>1. SessionTyped
  BY DEF SessionTyped
<1>2. SessionIsOne
  BY DEF SessionIsOne, NobodyShown
<1> QED
  BY <1>1, <1>2 DEF SessionInv

\* After resetCurrentUser nobody is shown, whatever is still in flight.
LEMMA AfterForget ==
  ASSUME SessionTyped, Forget, token' \in {NoToken} \cup [user : People, valid : BOOLEAN]
  PROVE  SessionInv'
<1>1. \A q \in Fetching :
        /\ inFlight'[q] \in {Unused} \cup [kind : {"me", "other"}, user : People, old : BOOLEAN]
        /\ inFlight'[q].kind = "me" => inFlight'[q].old
  <2> SUFFICES ASSUME NEW q \in Fetching
               PROVE  /\ inFlight'[q] \in {Unused} \cup [kind : {"me", "other"}, user : People, old : BOOLEAN]
                      /\ inFlight'[q].kind = "me" => inFlight'[q].old
    OBVIOUS
  <2>1. CASE inFlight[q] = Unused
    BY <2>1 DEF Forget, Unused
  <2>2. CASE inFlight[q] # Unused
    <3>1. inFlight[q] \in [kind : {"me", "other"}, user : People, old : BOOLEAN]
      BY <2>2 DEF SessionTyped
    <3>2. inFlight'[q] = [inFlight[q] EXCEPT !.old = TRUE]
      BY <2>2 DEF Forget
    <3>3. inFlight'[q] = [kind |-> inFlight[q].kind, user |-> inFlight[q].user, old |-> TRUE]
      BY <3>1, <3>2
    <3> QED
      BY <3>1, <3>3
  <2> QED
    BY <2>1, <2>2
<1>2. SessionTyped'
  BY <1>1 DEF SessionTyped, Forget
<1>3. SessionIsOne'
  BY <1>1 DEF SessionIsOne, NobodyShown, Forget
<1> QED
  BY <1>2, <1>3 DEF SessionInv

LEMMA SentIsTyped ==
  ASSUME SessionTyped, token.valid, NEW kind \in {"me", "other"}, Send(kind)
  PROVE  /\ inFlight' \in [Fetching -> {Unused} \cup [kind : {"me", "other"}, user : People, old : BOOLEAN]]
         /\ \A q \in Fetching :
              \/ inFlight'[q] = inFlight[q]
              \/ inFlight'[q].kind = kind /\ inFlight'[q].user = token.user /\ ~inFlight'[q].old
<1>1. token.user \in People
  BY DEF SessionTyped, NoToken
<1> QED
  BY <1>1 DEF SessionTyped, Send

\* An answer or an error frees the slot of its request.
LEMMA FreedIsTyped ==
  ASSUME SessionTyped, NEW q \in Fetching, inFlight' = [inFlight EXCEPT ![q] = Unused]
  PROVE  /\ inFlight' \in [Fetching -> {Unused} \cup [kind : {"me", "other"}, user : People, old : BOOLEAN]]
         /\ \A p \in Fetching : inFlight'[p] = inFlight[p] \/ inFlight'[p].kind = "none"
BY DEF SessionTyped, Unused

LEMMA RedirectInv ==
  ASSUME SessionInv, Redirect, UNCHANGED page
  PROVE  SessionInv'
<1>1. CASE SessionIsOver
  BY <1>1, AfterForget DEF Redirect, EndSession, ResetCurrentUser, SessionInv
<1>2. CASE ~SessionIsOver
  BY <1>2 DEF Redirect, SessionInv, SessionTyped, SessionIsOne, NobodyShown
<1> QED
  BY <1>1, <1>2

LEMMA SessionNextInv == SessionInv /\ [SessionNext]_sessionVars => SessionInv'
<1> SUFFICES ASSUME SessionInv, [SessionNext]_sessionVars PROVE SessionInv'
  OBVIOUS
<1>0. SessionTyped
  BY DEF SessionInv
<1> USE <1>0
<1>1. CASE UNCHANGED sessionVars
  BY <1>1 DEF sessionVars, SessionInv, SessionTyped, SessionIsOne, NobodyShown
<1>2. CASE Navigate
  <2>1. CASE token.valid
    BY <1>2, <2>1 DEF Navigate, SessionInv, SessionTyped, SessionIsOne, NobodyShown
  <2>2. CASE ~token.valid
    BY <1>2, <2>2, AfterForget DEF Navigate, EndSession, ResetCurrentUser
  <2> QED
    BY <2>1, <2>2
<1>3. CASE Mount
  <2>1. CASE loaded
    BY <1>3, <2>1 DEF Mount, SessionInv, SessionTyped, SessionIsOne, NobodyShown
  <2>2. CASE ~loaded /\ token.valid
    BY <1>3, <2>2, SentIsTyped DEF Mount, SessionInv, SessionTyped, SessionIsOne, NobodyShown
  <2>3. CASE ~loaded /\ ~token.valid
    BY <1>3, <2>3, AfterForget DEF Mount
  <2> QED
    BY <2>1, <2>2, <2>3
<1>4. CASE Logout
  BY <1>4, AfterForget DEF Logout, ForgetUser, ResetCurrentUser
<1>5. CASE Reload
  <2>1. token' \in {NoToken} \cup [user : People, valid : BOOLEAN]
    BY <1>5 DEF Reload, SessionTyped
  <2>2. SessionTyped'
    BY <1>5, <2>1 DEF Reload, SessionTyped
  <2>3. SessionIsOne'
    BY <1>5 DEF Reload, SessionIsOne, NobodyShown, Unused
  <2> QED
    BY <2>2, <2>3 DEF SessionInv
<1>6. CASE Fetch
  <2>1. CASE token.valid
    BY <1>6, <2>1, SentIsTyped DEF Fetch, SessionInv, SessionTyped, SessionIsOne, NobodyShown
  <2>2. CASE ~token.valid
    BY <1>6, <2>2, RedirectInv DEF Fetch
  <2> QED
    BY <2>1, <2>2
<1>7. CASE FinishRedirect
  BY <1>7 DEF FinishRedirect, SessionInv, SessionTyped, SessionIsOne, NobodyShown
<1>8. CASE Expire
  <2>1. token' \in [user : People, valid : BOOLEAN] /\ token'.user = token.user
    <3>1. token.valid /\ token' = [token EXCEPT !.valid = FALSE]
      BY <1>8 DEF Expire
    <3>2. token \in [user : People, valid : BOOLEAN]
      BY <3>1 DEF SessionTyped, NoToken
    <3> QED
      BY <3>1, <3>2
  <2> QED
    BY <1>8, <2>1 DEF Expire, SessionInv, SessionTyped, SessionIsOne, NobodyShown
<1>9. ASSUME NEW u \in People, Login(u) PROVE SessionInv'
  BY <1>9 DEF Login, SessionInv, SessionTyped, SessionIsOne, NobodyShown
<1>10. ASSUME NEW u \in People \cup {NoOne}, OtherTab(u) PROVE SessionInv'
  <2>1. token' \in {NoToken} \cup [user : People, valid : BOOLEAN]
    BY <1>10 DEF OtherTab
  <2> QED
    BY <1>10, <2>1 DEF OtherTab, SessionInv, SessionTyped
<1>11. ASSUME NEW q \in Fetching, AnswerMe(q) PROVE SessionInv'
  <2>1. CASE inFlight[q].old
    BY <1>11, <2>1, FreedIsTyped DEF AnswerMe, SessionInv, SessionTyped
  <2>2. CASE ~inFlight[q].old
    <3>1. /\ SessionTyped' /\ UNCHANGED <<token, page, redirecting, foreign>>
          /\ \A p \in Fetching : inFlight'[p] = inFlight[p] \/ inFlight'[p].kind = "none"
      BY <1>11, FreedIsTyped DEF AnswerMe, SessionTyped
    <3>2. inFlight[q].kind = "me" /\ currentUser' = inFlight[q].user /\ (overtaken => overtaken')
      BY <1>11 DEF AnswerMe
    <3>3. CASE SessionIsOne
      <4>1. currentUser' = token.user /\ page # "login" /\ ~redirecting
        BY <2>2, <3>2, <3>3 DEF SessionIsOne, NobodyShown
      <4>2. SessionIsOne'
        BY <3>1, <3>3, <4>1 DEF SessionIsOne
      <4> QED
        BY <3>1, <4>2 DEF SessionInv
    <3> QED
      BY <3>1, <3>2, <3>3 DEF SessionInv
  <2> QED
    BY <2>1, <2>2
<1>12. ASSUME NEW q \in Fetching, Answer(q) PROVE SessionInv'
  BY <1>12, FreedIsTyped DEF Answer, SessionInv, SessionTyped, SessionIsOne, NobodyShown
<1>13. ASSUME NEW q \in Fetching, Unauthorized(q) PROVE SessionInv'
  BY <1>13, RedirectInv DEF Unauthorized
<1> QED
  BY <1>1, <1>2, <1>3, <1>4, <1>5, <1>6, <1>7, <1>8, <1>9, <1>10, <1>11, <1>12, <1>13 DEF SessionNext

\* The user that a tab shows is the one whose token its requests carry.
THEOREM ShownUserOwnsToken == SessionSpec => []ShownUserIsSession
<1>1. SessionInv => ShownUserIsSession
  BY DEF SessionInv, SessionIsOne, ShownUserIsSession
<1> QED
  BY <1>1, SessionInitInv, SessionNextInv, PTL DEF SessionSpec

-----------------------------------------------------------------------------
(* The push subscription of a browser.                                     *)

DoingType == {Idle} \cup [at : Stages, endpoint : {0} \cup Endpoints]

\* The endpoints of today are older than the next one.
SubscriptionTyped ==
  /\ bell \in [Tabs -> BOOLEAN] /\ excused \in [Tabs -> BOOLEAN] /\ doing \in [Tabs -> DoingType]
  /\ issued \in Nat /\ issued <= MaxEndpoints /\ subscription \in 0 .. issued
  /\ endpoints \subseteq 1 .. issued /\ sends \subseteq 1 .. issued /\ deadIds \subseteq 1 .. issued
  /\ \A t \in Tabs : doing[t].endpoint <= issued

\* Unless it is excused, a tab that works on the subscription is the last to have changed it.
TabKnows(t) ==
  /\ doing[t].at \in {"post", "stored"} => subscription # 0
  /\ doing[t].at = "drop" => subscription = doing[t].endpoint
  /\ doing[t].at \in {"delete", "deleted"} => subscription = 0
  /\ doing[t] = Idle /\ t \notin unchecked => (bell[t] <=> subscription # 0)

TabsKnow == \A t \in Tabs : ~excused[t] => TabKnows(t)

\* A live endpoint is neither deleted nor pruned.
LiveIsKept ==
  /\ subscription # 0 => subscription \notin deadIds
  /\ \A t \in Tabs : /\ doing[t].at \in {"post", "drop", "delete"} => doing[t].endpoint # 0
                     /\ doing[t].at = "delete" => doing[t].endpoint # subscription

\* It is stored, on the way to be stored, or its request has failed.
LiveIsStored ==
  subscription # 0 =>
    \/ subscription \in endpoints \cup lost
    \/ \E t \in Tabs : doing[t].at = "post" /\ doing[t].endpoint = subscription

SubscriptionInv == SubscriptionTyped /\ TabsKnow /\ LiveIsKept /\ LiveIsStored

LEMMA SubscriptionInitInv == SubscriptionInit => SubscriptionInv
BY PushSubscriptionAssumption DEF SubscriptionInit, SubscriptionInv, SubscriptionTyped, TabsKnow, TabKnows,
   LiveIsKept, LiveIsStored, DoingType, Idle

LEMMA DoLemma ==
  ASSUME doing \in [Tabs -> DoingType], NEW t \in Tabs, NEW stage \in Stages,
         NEW e \in {0} \cup Endpoints, Do(t, stage, e)
  PROVE  /\ doing' \in [Tabs -> DoingType]
         /\ doing'[t].at = stage /\ doing'[t].endpoint = e /\ doing'[t] # Idle
         /\ \A u \in Tabs : u # t => doing'[u] = doing[u]
BY DEF Do, DoingType, Idle, Stages

LEMMA FinishLemma ==
  ASSUME doing \in [Tabs -> DoingType], NEW t \in Tabs, Finish(t)
  PROVE  /\ doing' \in [Tabs -> DoingType]
         /\ doing'[t] = Idle /\ doing'[t].at = "idle" /\ doing'[t].endpoint = 0
         /\ \A u \in Tabs : u # t => doing'[u] = doing[u]
BY DEF Finish, DoingType, Idle

LEMMA ExcuseLemma ==
  ASSUME excused \in [Tabs -> BOOLEAN], NEW T, Excuse(T)
  PROVE  /\ excused' \in [Tabs -> BOOLEAN]
         /\ \A u \in Tabs : ~excused'[u] => u \notin T /\ ~excused[u]
BY DEF Excuse

LEMMA RingLemma ==
  ASSUME bell \in [Tabs -> BOOLEAN], NEW t \in Tabs, NEW on \in BOOLEAN, Ring(t, on)
  PROVE  /\ bell' \in [Tabs -> BOOLEAN] /\ (bell'[t] <=> on)
         /\ \A u \in Tabs : u # t => bell'[u] = bell[u]
BY DEF Ring

LEMMA SubscriptionTypes ==
  ASSUME SubscriptionTyped, NEW t \in Tabs
  PROVE  /\ doing[t].endpoint \in {0} \cup Endpoints /\ doing[t].endpoint <= issued
         /\ doing[t] = Idle <=> doing[t].at = "idle"
         /\ doing[t].at \in {"idle"} \cup Stages
         /\ 0 .. issued \subseteq {0} \cup Endpoints /\ subscription \in 0 .. issued /\ issued \in Nat
<1>1. doing[t] \in DoingType
  BY DEF SubscriptionTyped
<1>2. /\ doing[t].endpoint \in {0} \cup Endpoints
      /\ doing[t] = Idle <=> doing[t].at = "idle"
      /\ doing[t].at \in {"idle"} \cup Stages
  BY <1>1 DEF DoingType, Idle, Stages
<1> QED
  BY <1>2, PushSubscriptionAssumption DEF SubscriptionTyped, Endpoints

\* The tabs that a step leaves alone go on knowing, or are excused.
LEMMA OthersKnow ==
  ASSUME TabsKnow, NEW u \in Tabs, ~excused'[u] => ~excused[u],
         excused'[u] \/ subscription' = subscription,
         doing'[u] = doing[u], bell'[u] = bell[u], u \in unchecked' <=> u \in unchecked
  PROVE  ~excused'[u] => TabKnows(u)'
BY DEF TabsKnow, TabKnows

\* Nothing about a live endpoint changes when the rows, the push and the subscription stay.
LEMMA LiveStays ==
  ASSUME SubscriptionInv, UNCHANGED <<subscription, endpoints, lost, deadIds>>,
         \A u \in Tabs :
           \/ doing'[u] = doing[u]
           \/ /\ doing[u].at # "post" /\ (doing'[u].at \in {"drop", "post"} => doing'[u].endpoint # 0)
              /\ doing'[u].at # "delete"
  PROVE  LiveIsKept' /\ LiveIsStored'
BY DEF SubscriptionInv, LiveIsKept, LiveIsStored

LEMMA TabStep ==
  ASSUME SubscriptionInv, NEW t \in Tabs,
         \/ CheckSubscription(t) \/ Toggle(t) \/ Subscribe(t) \/ UpsertPushSubscription(t)
         \/ Subscribed(t) \/ GetSubscription(t) \/ Drop(t) \/ DeletePushSubscription(t)
         \/ Unsubscribed(t) \/ OperationFails(t) \/ ReloadTab(t)
  PROVE  SubscriptionInv'
<1>0. /\ SubscriptionTyped /\ TabsKnow /\ LiveIsKept /\ LiveIsStored
      /\ doing \in [Tabs -> DoingType] /\ bell \in [Tabs -> BOOLEAN] /\ excused \in [Tabs -> BOOLEAN]
  BY DEF SubscriptionInv, SubscriptionTyped
<1>a. ~excused[t] => TabKnows(t)
  BY <1>0 DEF TabsKnow
<1>b. /\ doing[t].endpoint \in {0} \cup Endpoints /\ doing[t].endpoint <= issued
      /\ doing[t] = Idle <=> doing[t].at = "idle"
      /\ 0 .. issued \subseteq {0} \cup Endpoints /\ subscription \in 0 .. issued /\ issued \in Nat
  BY <1>0, SubscriptionTypes
<1>s. {"key", "post", "stored", "get", "drop", "delete", "deleted"} \subseteq Stages
  BY DEF Stages
<1> USE DEF pushRunVars
<1>1. CASE CheckSubscription(t)
  <2>1. /\ bell' \in [Tabs -> BOOLEAN] /\ (bell'[t] <=> subscription # 0)
        /\ \A u \in Tabs : u # t => bell'[u] = bell[u]
    BY <1>0, <1>1, RingLemma DEF CheckSubscription
  <2>2. /\ excused' \in [Tabs -> BOOLEAN] /\ (excused[t] /\ doing[t] # Idle => excused'[t])
        /\ \A u \in Tabs : u # t => excused'[u] = excused[u]
    BY <1>0, <1>1 DEF CheckSubscription
  <2>3. UNCHANGED <<doing, subscription, issued, endpoints, lost, pushRunVars>>
        /\ \A u \in Tabs : u # t => (u \in unchecked' <=> u \in unchecked)
    BY <1>1 DEF CheckSubscription
  <2>4. SubscriptionTyped'
    BY <1>0, <2>1, <2>2, <2>3 DEF SubscriptionTyped
  <2>5. ~excused'[t] => TabKnows(t)'
    BY <1>a, <1>b, <2>1, <2>2, <2>3 DEF TabKnows
  <2>6. TabsKnow'
    BY <1>0, <2>1, <2>2, <2>3, <2>5, OthersKnow DEF TabsKnow
  <2>7. LiveIsKept' /\ LiveIsStored'
    BY <2>3, LiveStays
  <2> QED
    BY <2>4, <2>6, <2>7 DEF SubscriptionInv
<1>2. CASE Toggle(t)
  <2>1. PICK stage \in {"get", "key"} : Do(t, stage, 0)
    BY <1>2 DEF Toggle
  <2>2. /\ doing' \in [Tabs -> DoingType]
        /\ doing'[t].at = stage /\ doing'[t].endpoint = 0 /\ doing'[t] # Idle
        /\ \A u \in Tabs : u # t => doing'[u] = doing[u]
    BY <1>0, <1>s, <2>1, DoLemma
  <2>3. /\ UNCHANGED <<bell, unchecked, subscription, issued, endpoints, lost, pushRunVars>>
        /\ excused' \in [Tabs -> BOOLEAN] /\ \A u \in Tabs : u # t => excused'[u] = excused[u]
        /\ doing[t].at = "idle"
    BY <1>0, <1>2 DEF Toggle, Idle
  <2>4. SubscriptionTyped'
    BY <1>0, <1>b, <2>2, <2>3 DEF SubscriptionTyped
  <2>5. TabKnows(t)'
    BY <2>2, <2>1 DEF TabKnows
  <2>6. TabsKnow'
    BY <1>0, <2>2, <2>3, <2>5, OthersKnow DEF TabsKnow
  <2>7. LiveIsKept' /\ LiveIsStored'
    BY <2>1, <2>2, <2>3, LiveStays
  <2> QED
    BY <2>4, <2>6, <2>7 DEF SubscriptionInv
<1>3. CASE Subscribe(t)
  <2>1. CASE subscription # 0
    <3>1. /\ Do(t, "post", subscription) /\ doing[t].at = "key"
          /\ UNCHANGED <<bell, unchecked, excused, subscription, issued, endpoints, lost, pushRunVars>>
      BY <1>3, <2>1 DEF Subscribe
    <3>2. /\ doing' \in [Tabs -> DoingType]
          /\ doing'[t].at = "post" /\ doing'[t].endpoint = subscription /\ doing'[t] # Idle
          /\ \A u \in Tabs : u # t => doing'[u] = doing[u]
      BY <1>0, <1>b, <1>s, <3>1, DoLemma
    <3>3. SubscriptionTyped'
      BY <1>0, <1>b, <3>1, <3>2 DEF SubscriptionTyped
    <3>4. TabKnows(t)'
      BY <2>1, <3>1, <3>2 DEF TabKnows
    <3>5. TabsKnow'
      BY <1>0, <3>1, <3>2, <3>4, OthersKnow DEF TabsKnow
    <3>6. LiveIsKept' /\ LiveIsStored'
      BY <2>1, <3>1, <3>2, LiveStays
    <3> QED
      BY <3>3, <3>5, <3>6 DEF SubscriptionInv
  <2>2. CASE subscription = 0
    <3>1. /\ Do(t, "post", subscription') /\ doing[t].at = "key" /\ Excuse(Tabs \ {t})
          /\ issued < MaxEndpoints /\ issued' = issued + 1 /\ subscription' = issued + 1
          /\ UNCHANGED <<bell, unchecked, endpoints, lost, pushRunVars>>
      BY <1>3, <2>2 DEF Subscribe
    <3>2. issued' \in Nat /\ issued' <= MaxEndpoints /\ subscription' \in {0} \cup Endpoints
          /\ subscription' # 0 /\ subscription' \in 0 .. issued' /\ 1 .. issued \subseteq 1 .. issued'
      BY <1>b, <3>1, PushSubscriptionAssumption DEF Endpoints
    <3>3. /\ doing' \in [Tabs -> DoingType]
          /\ doing'[t].at = "post" /\ doing'[t].endpoint = subscription' /\ doing'[t] # Idle
          /\ \A u \in Tabs : u # t => doing'[u] = doing[u]
      BY <1>0, <1>s, <3>1, <3>2, DoLemma
    <3>4. excused' \in [Tabs -> BOOLEAN] /\ \A u \in Tabs : ~excused'[u] => u = t /\ ~excused[u]
      BY <1>0, <3>1, ExcuseLemma
    <3>5. \A u \in Tabs : doing[u].endpoint <= issued /\ doing[u].endpoint \in Nat
      BY <1>0, SubscriptionTypes DEF Endpoints
    <3>6. SubscriptionTyped'
      <4>1. \A u \in Tabs : doing'[u].endpoint <= issued'
        BY <1>b, <3>1, <3>2, <3>3, <3>5
      <4> QED
        BY <1>0, <3>1, <3>2, <3>3, <3>4, <4>1 DEF SubscriptionTyped
    <3>7. TabKnows(t)'
      BY <3>2, <3>3 DEF TabKnows
    <3>8. TabsKnow'
      BY <3>4, <3>7 DEF TabsKnow
    <3>9. LiveIsKept'
      <4>1. subscription' \notin deadIds
        BY <1>0, <1>b, <3>1 DEF SubscriptionTyped
      <4>2. \A u \in Tabs : doing[u].endpoint # subscription'
        BY <1>b, <3>1, <3>5
      <4> QED
        BY <1>0, <3>1, <3>2, <3>3, <4>1, <4>2 DEF LiveIsKept
    <3>10. LiveIsStored'
      BY <3>3 DEF LiveIsStored
    <3> QED
      BY <3>6, <3>8, <3>9, <3>10 DEF SubscriptionInv
  <2> QED
    BY <2>1, <2>2
<1>4. CASE UpsertPushSubscription(t)
  <2>1. /\ Do(t, "stored", doing[t].endpoint) /\ doing[t].at = "post"
        /\ endpoints' = endpoints \cup {doing[t].endpoint} /\ lost' = lost \ {doing[t].endpoint}
        /\ UNCHANGED <<bell, unchecked, excused, subscription, issued, pushRunVars>>
    BY <1>4 DEF UpsertPushSubscription, StoreRow
  <2>2. /\ doing' \in [Tabs -> DoingType]
        /\ doing'[t].at = "stored" /\ doing'[t].endpoint = doing[t].endpoint /\ doing'[t] # Idle
        /\ \A u \in Tabs : u # t => doing'[u] = doing[u]
    BY <1>0, <1>b, <1>s, <2>1, DoLemma
  <2>3. CASE doing[t].endpoint # 0
    <3>0. doing[t].endpoint \in 1 .. issued
      BY <1>b, <2>3 DEF Endpoints
    <3>1. SubscriptionTyped'
      BY <1>0, <1>b, <2>1, <2>2, <3>0 DEF SubscriptionTyped
    <3>2. ~excused'[t] => TabKnows(t)'
      BY <1>a, <2>1, <2>2 DEF TabKnows
    <3>3. TabsKnow'
      BY <1>0, <2>1, <2>2, <3>2, OthersKnow DEF TabsKnow
    <3>4. LiveIsKept'
      BY <1>0, <2>1, <2>2 DEF LiveIsKept
    <3>5. LiveIsStored'
      BY <1>0, <2>1, <2>2 DEF LiveIsStored
    <3> QED
      BY <3>1, <3>3, <3>4, <3>5 DEF SubscriptionInv
  <2> QED
    BY <2>1, <2>3, <1>0 DEF LiveIsKept
<1>5. CASE Subscribed(t)
  <2>1. /\ Finish(t) /\ Ring(t, TRUE) /\ doing[t].at = "stored"
        /\ UNCHANGED <<unchecked, excused, subscription, issued, endpoints, lost, pushRunVars>>
    BY <1>5 DEF Subscribed
  <2>2. /\ doing' \in [Tabs -> DoingType]
        /\ doing'[t] = Idle /\ doing'[t].at = "idle" /\ doing'[t].endpoint = 0
        /\ \A u \in Tabs : u # t => doing'[u] = doing[u]
    BY <1>0, <2>1, FinishLemma
  <2>3. bell' \in [Tabs -> BOOLEAN] /\ bell'[t] /\ \A u \in Tabs : u # t => bell'[u] = bell[u]
    BY <1>0, <2>1, RingLemma
  <2>4. SubscriptionTyped'
    BY <1>0, <1>b, <2>1, <2>2, <2>3 DEF SubscriptionTyped
  <2>5. ~excused'[t] => TabKnows(t)'
    BY <1>a, <2>1, <2>2, <2>3 DEF TabKnows
  <2>6. TabsKnow'
    BY <1>0, <2>1, <2>2, <2>3, <2>5, OthersKnow DEF TabsKnow
  <2>7. LiveIsKept' /\ LiveIsStored'
    BY <2>1, <2>2, LiveStays
  <2> QED
    BY <2>4, <2>6, <2>7 DEF SubscriptionInv
<1>6. CASE GetSubscription(t)
  <2>1. CASE subscription = 0
    <3>1. /\ Finish(t) /\ Ring(t, FALSE) /\ doing[t].at = "get"
          /\ UNCHANGED <<unchecked, excused, subscription, issued, endpoints, lost, pushRunVars>>
      BY <1>6, <2>1 DEF GetSubscription
    <3>2. /\ doing' \in [Tabs -> DoingType]
          /\ doing'[t] = Idle /\ doing'[t].at = "idle" /\ doing'[t].endpoint = 0
          /\ \A u \in Tabs : u # t => doing'[u] = doing[u]
      BY <1>0, <3>1, FinishLemma
    <3>3. bell' \in [Tabs -> BOOLEAN] /\ ~bell'[t] /\ \A u \in Tabs : u # t => bell'[u] = bell[u]
      BY <1>0, <3>1, RingLemma
    <3>4. SubscriptionTyped'
      BY <1>0, <1>b, <3>1, <3>2, <3>3 DEF SubscriptionTyped
    <3>5. TabKnows(t)'
      BY <2>1, <3>1, <3>2, <3>3 DEF TabKnows
    <3>6. TabsKnow'
      BY <1>0, <3>1, <3>2, <3>3, <3>5, OthersKnow DEF TabsKnow
    <3>7. LiveIsKept' /\ LiveIsStored'
      BY <3>1, <3>2, LiveStays
    <3> QED
      BY <3>4, <3>6, <3>7 DEF SubscriptionInv
  <2>2. CASE subscription # 0
    <3>1. /\ Do(t, "drop", subscription) /\ doing[t].at = "get"
          /\ UNCHANGED <<bell, unchecked, excused, subscription, issued, endpoints, lost, pushRunVars>>
      BY <1>6, <2>2 DEF GetSubscription
    <3>2. /\ doing' \in [Tabs -> DoingType]
          /\ doing'[t].at = "drop" /\ doing'[t].endpoint = subscription /\ doing'[t] # Idle
          /\ \A u \in Tabs : u # t => doing'[u] = doing[u]
      BY <1>0, <1>b, <1>s, <3>1, DoLemma
    <3>3. SubscriptionTyped'
      BY <1>0, <1>b, <3>1, <3>2 DEF SubscriptionTyped
    <3>4. TabKnows(t)'
      BY <3>1, <3>2 DEF TabKnows
    <3>5. TabsKnow'
      BY <1>0, <3>1, <3>2, <3>4, OthersKnow DEF TabsKnow
    <3>6. LiveIsKept' /\ LiveIsStored'
      BY <2>2, <3>1, <3>2, LiveStays
    <3> QED
      BY <3>3, <3>5, <3>6 DEF SubscriptionInv
  <2> QED
    BY <2>1, <2>2
<1>7. CASE Drop(t)
  <2>1. /\ Do(t, "delete", doing[t].endpoint) /\ doing[t].at = "drop" /\ doing[t].endpoint # 0
        /\ UNCHANGED <<bell, unchecked, issued, endpoints, lost, pushRunVars>>
    BY <1>0, <1>7 DEF Drop, LiveIsKept
  <2>2. /\ doing' \in [Tabs -> DoingType]
        /\ doing'[t].at = "delete" /\ doing'[t].endpoint = doing[t].endpoint /\ doing'[t] # Idle
        /\ \A u \in Tabs : u # t => doing'[u] = doing[u]
    BY <1>0, <1>b, <1>s, <2>1, DoLemma
  <2>3. CASE subscription = doing[t].endpoint
    <3>1. subscription' = 0 /\ Excuse(Tabs \ {t})
      BY <1>7, <2>3 DEF Drop
    <3>2. excused' \in [Tabs -> BOOLEAN] /\ \A u \in Tabs : ~excused'[u] => u = t /\ ~excused[u]
      BY <1>0, <3>1, ExcuseLemma
    <3>3. SubscriptionTyped'
      BY <1>0, <1>b, <2>1, <2>2, <3>1, <3>2 DEF SubscriptionTyped
    <3>4. TabKnows(t)'
      BY <2>2, <3>1 DEF TabKnows
    <3>5. TabsKnow'
      BY <3>2, <3>4 DEF TabsKnow
    <3>6. LiveIsKept' /\ LiveIsStored'
      BY <1>0, <2>1, <2>2, <3>1 DEF LiveIsKept, LiveIsStored
    <3> QED
      BY <3>3, <3>5, <3>6 DEF SubscriptionInv
  <2>4. CASE subscription # doing[t].endpoint
    <3>1. UNCHANGED <<subscription, excused>>
      BY <1>7, <2>4 DEF Drop
    <3>2. SubscriptionTyped'
      BY <1>0, <1>b, <2>1, <2>2, <3>1 DEF SubscriptionTyped
    <3>3. ~excused'[t] => TabKnows(t)'
      BY <1>a, <2>1, <2>4, <3>1 DEF TabKnows
    <3>4. TabsKnow'
      BY <1>0, <2>1, <2>2, <3>1, <3>3, OthersKnow DEF TabsKnow
    <3>5. LiveIsKept'
      BY <1>0, <2>1, <2>2, <2>4, <3>1 DEF LiveIsKept
    <3>6. LiveIsStored'
      BY <1>0, <2>1, <2>2, <3>1 DEF LiveIsStored
    <3> QED
      BY <3>2, <3>4, <3>5, <3>6 DEF SubscriptionInv
  <2> QED
    BY <2>3, <2>4
<1>8. CASE DeletePushSubscription(t)
  <2>1. /\ Do(t, "deleted", doing[t].endpoint) /\ doing[t].at = "delete"
        /\ endpoints' = endpoints \ {doing[t].endpoint} /\ deadIds' = deadIds \ {doing[t].endpoint}
        /\ UNCHANGED <<bell, unchecked, excused, subscription, issued, lost, sends, pushing>>
    BY <1>8 DEF DeletePushSubscription, DeleteRow
  <2>2. /\ doing' \in [Tabs -> DoingType]
        /\ doing'[t].at = "deleted" /\ doing'[t].endpoint = doing[t].endpoint /\ doing'[t] # Idle
        /\ \A u \in Tabs : u # t => doing'[u] = doing[u]
    BY <1>0, <1>b, <1>s, <2>1, DoLemma
  <2>3. SubscriptionTyped'
    BY <1>0, <1>b, <2>1, <2>2 DEF SubscriptionTyped
  <2>4. ~excused'[t] => TabKnows(t)'
    BY <1>a, <2>1, <2>2 DEF TabKnows
  <2>5. TabsKnow'
    BY <1>0, <2>1, <2>2, <2>4, OthersKnow DEF TabsKnow
  <2>6. LiveIsKept' /\ LiveIsStored'
    BY <1>0, <2>1, <2>2 DEF LiveIsKept, LiveIsStored
  <2> QED
    BY <2>3, <2>5, <2>6 DEF SubscriptionInv
<1>9. CASE Unsubscribed(t)
  <2>1. /\ Finish(t) /\ Ring(t, FALSE) /\ doing[t].at \in {"delete", "deleted"}
        /\ UNCHANGED <<unchecked, excused, subscription, issued, endpoints, lost, pushRunVars>>
    BY <1>9 DEF Unsubscribed
  <2>2. /\ doing' \in [Tabs -> DoingType]
        /\ doing'[t] = Idle /\ doing'[t].at = "idle" /\ doing'[t].endpoint = 0
        /\ \A u \in Tabs : u # t => doing'[u] = doing[u]
    BY <1>0, <2>1, FinishLemma
  <2>3. bell' \in [Tabs -> BOOLEAN] /\ ~bell'[t] /\ \A u \in Tabs : u # t => bell'[u] = bell[u]
    BY <1>0, <2>1, RingLemma
  <2>4. SubscriptionTyped'
    BY <1>0, <1>b, <2>1, <2>2, <2>3 DEF SubscriptionTyped
  <2>5. ~excused'[t] => TabKnows(t)'
    BY <1>a, <2>1, <2>2, <2>3 DEF TabKnows
  <2>6. TabsKnow'
    BY <1>0, <2>1, <2>2, <2>3, <2>5, OthersKnow DEF TabsKnow
  <2>7. LiveIsKept' /\ LiveIsStored'
    BY <2>1, <2>2, LiveStays
  <2> QED
    BY <2>4, <2>6, <2>7 DEF SubscriptionInv
<1>10. CASE OperationFails(t) \/ ReloadTab(t)
  <2>1. /\ Finish(t) /\ lost' = lost \cup Unstored(t)
        /\ UNCHANGED <<subscription, issued, endpoints, pushRunVars>>
    BY <1>10 DEF OperationFails, ReloadTab, Abandon
  <2>2. /\ doing' \in [Tabs -> DoingType]
        /\ doing'[t] = Idle /\ doing'[t].at = "idle" /\ doing'[t].endpoint = 0
        /\ \A u \in Tabs : u # t => doing'[u] = doing[u]
    BY <1>0, <2>1, FinishLemma
  <2>3. /\ bell' \in [Tabs -> BOOLEAN] /\ excused' \in [Tabs -> BOOLEAN]
        /\ excused'[t] \/ t \in unchecked'
        /\ \A u \in Tabs : u # t =>
             bell'[u] = bell[u] /\ (~excused'[u] => ~excused[u]) /\ (u \in unchecked' <=> u \in unchecked)
    <3>1. CASE OperationFails(t)
      BY <1>0, <3>1, ExcuseLemma DEF OperationFails, Excuse
    <3>2. CASE ReloadTab(t)
      BY <1>0, <3>2, RingLemma DEF ReloadTab
    <3> QED
      BY <1>10, <3>1, <3>2
  <2>4. SubscriptionTyped'
    BY <1>0, <1>b, <2>1, <2>2, <2>3 DEF SubscriptionTyped
  <2>5. ~excused'[t] => TabKnows(t)'
    BY <2>2, <2>3 DEF TabKnows
  <2>6. TabsKnow'
    BY <1>0, <2>1, <2>2, <2>3, <2>5, OthersKnow DEF TabsKnow
  <2>7. LiveIsKept'
    BY <1>0, <2>1, <2>2 DEF LiveIsKept
  <2>8. LiveIsStored'
    BY <1>0, <2>1, <2>2 DEF LiveIsStored, Unstored
  <2> QED
    BY <2>4, <2>6, <2>7, <2>8 DEF SubscriptionInv
<1> QED
  BY <1>1, <1>2, <1>3, <1>4, <1>5, <1>6, <1>7, <1>8, <1>9, <1>10

LEMMA SubscriptionNextInv == SubscriptionInv /\ [SubscriptionNext]_subscriptionVars => SubscriptionInv'
<1> SUFFICES ASSUME SubscriptionInv, [SubscriptionNext]_subscriptionVars PROVE SubscriptionInv'
  OBVIOUS
<1>0. /\ SubscriptionTyped /\ TabsKnow /\ LiveIsKept /\ LiveIsStored
      /\ excused \in [Tabs -> BOOLEAN] /\ subscription \in 0 .. issued /\ issued \in Nat
  BY DEF SubscriptionInv, SubscriptionTyped
<1> USE DEF pushTabVars, pushRunVars
<1>1. CASE UNCHANGED subscriptionVars
  BY <1>0, <1>1 DEF subscriptionVars, SubscriptionInv, SubscriptionTyped, TabsKnow, TabKnows, LiveIsKept,
    LiveIsStored
<1>2. CASE Vanish
  <2>1. /\ subscription' = 0 /\ Excuse(Tabs)
        /\ UNCHANGED <<bell, unchecked, doing, issued, endpoints, lost, pushRunVars>>
    BY <1>2 DEF Vanish
  <2>2. excused' \in [Tabs -> BOOLEAN] /\ \A u \in Tabs : excused'[u]
    BY <1>0, <2>1, ExcuseLemma DEF Excuse
  <2> QED
    BY <1>0, <2>1, <2>2 DEF SubscriptionInv, SubscriptionTyped, TabsKnow, LiveIsKept, LiveIsStored
<1>3. CASE ListPushSubscriptions
  BY <1>0, <1>3 DEF ListPushSubscriptions, SubscriptionInv, SubscriptionTyped, TabsKnow, TabKnows,
    LiveIsKept, LiveIsStored
<1>4. CASE DeleteDead
  BY <1>0, <1>4 DEF DeleteDead, SubscriptionInv, SubscriptionTyped, TabsKnow, TabKnows,
    LiveIsKept, LiveIsStored
<1>5. ASSUME NEW e \in Endpoints, SendNotification(e) PROVE SubscriptionInv'
  <2>1. deadIds' \subseteq 1 .. issued /\ (subscription # 0 => subscription \notin deadIds')
    BY <1>0, <1>5 DEF SendNotification, IsGone, SubscriptionTyped, LiveIsKept
  <2> QED
    BY <1>0, <1>5, <2>1 DEF SendNotification, SubscriptionInv, SubscriptionTyped, TabsKnow, TabKnows,
      LiveIsKept, LiveIsStored
<1> QED
  BY <1>1, <1>2, <1>3, <1>4, <1>5, TabStep DEF SubscriptionNext

\* Whoever sees a lit bell is sent the pushes.
THEOREM LitBellsArePushed == SubscriptionSpec => []BellMeansPush
<1>1. SubscriptionInv => BellIsTrue
  BY DEF SubscriptionInv, TabsKnow, TabKnows, BellIsTrue
<1>2. SubscriptionInv => SubscriptionIsStored
  BY DEF SubscriptionInv, LiveIsStored, SubscriptionIsStored, Idle
<1> QED
  BY <1>1, <1>2, SubscriptionInitInv, SubscriptionNextInv, PTL DEF SubscriptionSpec, BellMeansPush

-----------------------------------------------------------------------------
(* The pages that follow commands.                                         *)

Counted == fetching \in [Lists \cup {"asked"} -> Nat] /\ orphans \in Nat

Pressed == pressed \in [Buttons -> {"no", "asked", "done"}]

\* Before the agent is there its page has asked for nothing; without a list there is no timer.
NothingYet ==
  /\ ~ready => view = "agent" /\ jobsShown = "nothing" /\ InFlight = 0
               /\ \A b \in Buttons : pressed[b] = "no"
  /\ jobsShown = "nothing" => ~pollTimer /\ orphans = 0 /\ ~polling
  /\ Watched /\ jobsShown = "nothing" => InFlight > 0 \/ failed
  /\ jobsShown \in Lists \cup {"nothing"}

\* Lists that never overlapped: one request or timer, which follows an open list.
InTurn ==
  ~crossed =>
    /\ orphans = 0 /\ (pollTimer => InFlight = 0 /\ jobsShown = "open")
    /\ InFlight <= 1
    /\ fetching["closed"] > 0 => "own" \notin unfinished
    /\ "own" \in unfinished /\ jobsShown = "closed" /\ (\A b \in Buttons : pressed[b] # "done")
         => InFlight > 0 \/ failed

\* A page that was left with nothing on its way stays quiet.
LeftIsQuiet ==
  ~mounted /\ ~trailing => ~Coming /\ ready /\ \A b \in Buttons : pressed[b] = "no"

ViewIsKnown == view \in {"agent", "batch"} /\ (view = "batch" => tab = "jobs") /\ (tab = "other" => ~pollTimer)

PagesInv ==
  /\ Counted
  /\ ViewIsKnown
  /\ NothingYet
  /\ InTurn
  /\ NothingOpenIsForgotten
  /\ IndicatorIsTrue
  /\ LeftIsQuiet

LEMMA PagesInitInv == JobPagesInit => PagesInv
<1> SUFFICES ASSUME JobPagesInit PROVE PagesInv
  OBVIOUS
<1> USE DEF JobPagesInit, Lists, Buttons
<1>1. Counted /\ InFlight = (IF view = "batch" THEN 1 ELSE 0)
  BY DEF Counted, InFlight
<1>2. ViewIsKnown /\ NothingOpenIsForgotten /\ IndicatorIsTrue /\ LeftIsQuiet
  BY DEF ViewIsKnown, NothingOpenIsForgotten, IndicatorIsTrue, LeftIsQuiet
<1>3. fetching["closed"] = 0
  OBVIOUS
<1>4. NothingYet
  BY <1>1 DEF NothingYet, Watched
<1>5. InTurn
  BY <1>1, <1>3 DEF InTurn
<1> QED
  BY <1>1, <1>2, <1>4, <1>5 DEF PagesInv

-----------------------------------------------------------------------------

\* What a request does to the numbers.
LEMMA InFlightIsNat ==
  ASSUME Counted
  PROVE  /\ InFlight \in Nat /\ fetching["asked"] \in Nat /\ fetching["open"] \in Nat /\ fetching["closed"] \in Nat
         /\ \A l \in Lists : fetching[l] \in Nat /\ fetching[l] <= InFlight
         /\ \A l \in DOMAIN fetching : fetching[l] \in Nat /\ fetching[l] <= InFlight
<1>1. fetching["asked"] \in Nat /\ fetching["open"] \in Nat /\ fetching["closed"] \in Nat
  BY DEF Counted, Lists
<1> QED
  BY <1>1 DEF Counted, InFlight, Lists

LEMMA AskedLemma ==
  ASSUME Counted, fetching' = [fetching EXCEPT !["asked"] = fetching["asked"] + 1]
  PROVE  /\ fetching' \in [Lists \cup {"asked"} -> Nat]
         /\ InFlight' = InFlight + 1 /\ fetching'["closed"] = fetching["closed"]
BY InFlightIsNat DEF Counted, InFlight, Lists

LEMMA LoadAsks ==
  ASSUME Counted, NEW running, Load(running)
  PROVE  /\ fetching' \in [Lists \cup {"asked"} -> Nat]
         /\ InFlight' = InFlight + 1 /\ InFlight \in Nat /\ fetching'["closed"] = fetching["closed"]
         /\ ~failed'
         /\ view = "agent" => ~pollTimer' /\ ~polling'
         /\ view # "agent" => pollTimer' = running /\ polling' = polling
         /\ ~crossed' => ~crossed /\ InFlight = 0 /\ ~pollTimer'
<1>1. fetching' = [fetching EXCEPT !["asked"] = fetching["asked"] + 1]
  BY DEF Load
<1>2. InFlight \in Nat
  BY InFlightIsNat
<1>3. /\ ~failed' /\ (view = "agent" => ~pollTimer' /\ ~polling')
      /\ view # "agent" => pollTimer' = running /\ polling' = polling
  BY DEF Load, StopJobsPolling
<1>4. ~crossed' => ~crossed /\ ~(InFlight > 0) /\ ~pollTimer'
  BY Zenon DEF Load
<1> QED
  BY <1>1, <1>2, <1>3, <1>4, AskedLemma

LEMMA AnsweredLemma ==
  ASSUME Counted, NEW l \in DOMAIN fetching, fetching[l] > 0,
         fetching' = [fetching EXCEPT ![l] = fetching[l] - 1]
  PROVE  /\ fetching' \in [Lists \cup {"asked"} -> Nat]
         /\ InFlight' = InFlight - 1 /\ InFlight > 0 /\ InFlight \in Nat
         /\ fetching'["closed"] <= fetching["closed"]
<1>1. l \in {"open", "closed", "asked"}
  BY DEF Counted, Lists
<1> QED
  BY <1>1, InFlightIsNat DEF Counted, InFlight, Lists

LEMMA ServedLemma ==
  ASSUME Counted, fetching["asked"] > 0, NEW read \in Lists,
         fetching' = [fetching EXCEPT !["asked"] = fetching["asked"] - 1, ![read] = fetching[read] + 1]
  PROVE  /\ fetching' \in [Lists \cup {"asked"} -> Nat]
         /\ InFlight' = InFlight
         /\ read = "open" => fetching'["closed"] = fetching["closed"]
BY InFlightIsNat DEF Counted, InFlight, Lists

\* The text is true and an open list is followed after any request.
LEMMA AfterLoad ==
  ASSUME PagesInv, NEW running, Load(running), UNCHANGED <<view, mounted>>,
         orphans' \in Nat, orphans' <= orphans, ready',
         tab' = "other" => tab = "other" \/ ~pollTimer',
         view = "batch" => tab' = "jobs" /\ (running => pollTimer),
         jobsShown' = jobsShown, trailing' = trailing,
         unfinished' = unfinished,
         mounted \/ trailing
  PROVE  PagesInv'
<1>0. /\ fetching' \in [Lists \cup {"asked"} -> Nat]
      /\ InFlight' = InFlight + 1 /\ InFlight \in Nat /\ fetching'["closed"] = fetching["closed"]
      /\ ~failed'
      /\ view = "agent" => ~pollTimer' /\ ~polling'
      /\ view # "agent" => pollTimer' = running /\ polling' = polling
      /\ ~crossed' => ~crossed /\ InFlight = 0 /\ ~pollTimer'
  BY LoadAsks DEF PagesInv
<1>1. InFlight' > 0 /\ InFlight' \in Nat
  BY <1>0
<1> USE <1>0, <1>1 DEF PagesInv
<1>2. Counted'
  BY DEF Counted
<1>3. ViewIsKnown'
  BY DEF ViewIsKnown
<1>4. NothingYet'
  BY DEF NothingYet, ViewIsKnown
<1>5. InTurn'
  BY DEF InTurn, Counted
<1>6. NothingOpenIsForgotten' /\ IndicatorIsTrue'
  BY DEF NothingOpenIsForgotten, IndicatorIsTrue, Coming
<1>7. LeftIsQuiet'
  BY DEF LeftIsQuiet
<1> QED
  BY <1>2, <1>3, <1>4, <1>5, <1>6, <1>7

LEMMA PagesNextInv == Pressed /\ PagesInv /\ [JobPagesNext]_jobPagesVars => PagesInv'
<1> SUFFICES ASSUME Pressed, PagesInv, [JobPagesNext]_jobPagesVars PROVE PagesInv'
  OBVIOUS
<1>0. /\ Counted /\ ViewIsKnown /\ NothingYet /\ InTurn
      /\ NothingOpenIsForgotten /\ IndicatorIsTrue /\ LeftIsQuiet
  BY DEF PagesInv
<1>n. /\ InFlight \in Nat /\ orphans \in Nat /\ view \in {"agent", "batch"}
      /\ \A l \in Lists : fetching[l] \in Nat /\ fetching[l] <= InFlight
      /\ \A l \in DOMAIN fetching : fetching[l] \in Nat
      /\ Lists \subseteq DOMAIN fetching
  BY <1>0, InFlightIsNat DEF Counted, ViewIsKnown
<1> USE <1>n DEF requestVars, pageVars
<1>1. CASE UNCHANGED jobPagesVars
  BY <1>1 DEF jobPagesVars, PagesInv, Counted, InFlight, ViewIsKnown, NothingYet, InTurn,
    NothingOpenIsForgotten, IndicatorIsTrue, LeftIsQuiet, Watched, Coming
<1>2. CASE Fire
  <2>1. /\ pollTimer /\ Load(FALSE) /\ UNCHANGED <<orphans, pageVars>>
    BY <1>2 DEF Fire
  <2>2. ready /\ (mounted \/ trailing) /\ (view = "batch" => tab = "jobs")
    BY <1>0, <2>1 DEF NothingYet, LeftIsQuiet, Coming, ViewIsKnown
  <2>3. /\ orphans' \in Nat /\ orphans' <= orphans /\ ready'
        /\ UNCHANGED <<view, mounted, tab, jobsShown, trailing, unfinished>>
    BY <2>1, <2>2
  <2> QED
    BY <2>1, <2>2, <2>3, AfterLoad
<1>3. CASE FireOrphan
  <2>1. /\ orphans > 0 /\ orphans' = orphans - 1 /\ Load(pollTimer) /\ UNCHANGED pageVars
    BY <1>3 DEF FireOrphan
  <2>2. ready /\ (mounted \/ trailing) /\ (view = "batch" => tab = "jobs")
    BY <1>0, <2>1 DEF NothingYet, LeftIsQuiet, Coming, ViewIsKnown
  <2> QED
    BY <2>1, <2>2, AfterLoad
<1>4. CASE ServeList
  <2> DEFINE read == IF unfinished = {} THEN "closed" ELSE "open"
  <2>1. /\ fetching["asked"] > 0
        /\ fetching' = [fetching EXCEPT !["asked"] = fetching["asked"] - 1, ![read] = fetching[read] + 1]
        /\ UNCHANGED <<pollTimer, orphans, polling, failed, crossed, pageVars>>
    BY <1>4 DEF ServeList, Lists
  <2>2. read \in Lists /\ (read = "closed" => unfinished = {})
    BY DEF Lists
  <2>3. /\ fetching' \in [Lists \cup {"asked"} -> Nat] /\ InFlight' = InFlight
        /\ read = "open" => fetching'["closed"] = fetching["closed"]
    <3> HIDE DEF read
    <3> QED
      BY <1>0, <2>1, <2>2, ServedLemma
  <2>4. read \in {"open", "closed"}
    OBVIOUS
  <2> HIDE DEF read
  <2> QED
    BY <1>0, <2>1, <2>2, <2>3, <2>4 DEF PagesInv, Counted, ViewIsKnown, NothingYet, InTurn,
      NothingOpenIsForgotten, IndicatorIsTrue, LeftIsQuiet, Watched, Coming
<1>5. ASSUME NEW list \in Lists, ListAnswered(list) PROVE PagesInv'
  <2>1. /\ fetching[list] > 0 /\ fetching' = [fetching EXCEPT ![list] = fetching[list] - 1]
        /\ jobsShown' = list /\ ~failed'
        /\ UNCHANGED <<crossed, view, mounted, ready, tab, pressed, presses, unfinished, trailing>>
    BY <1>5 DEF ListAnswered
  <2>2. /\ fetching' \in [Lists \cup {"asked"} -> Nat]
        /\ InFlight' = InFlight - 1 /\ InFlight > 0
        /\ fetching'["closed"] <= fetching["closed"]
    BY <1>0, <2>1, AnsweredLemma
  <2>3. ready /\ (mounted \/ trailing) /\ list \in {"open", "closed"}
    BY <1>0, <2>2 DEF NothingYet, LeftIsQuiet, Coming, Lists
  <2>4. fetching["closed"] \in Nat /\ fetching'["closed"] \in Nat
    BY <2>2 DEF Lists
  <2>5. CASE list = "open" /\ tab = "jobs"
    <3>1. pollTimer' /\ polling' /\ orphans' = (IF pollTimer THEN orphans + 1 ELSE orphans)
      BY <1>5, <2>5 DEF ListAnswered, GoesOn, SetTimer
    <3>2. Counted' /\ ViewIsKnown'
      BY <1>0, <2>1, <2>2, <2>5, <3>1 DEF Counted, ViewIsKnown
    <3>3. NothingYet' /\ LeftIsQuiet'
      BY <2>1, <2>3 DEF NothingYet, LeftIsQuiet
    <3>4. InTurn'
      BY <1>0, <2>1, <2>2, <2>4, <2>5, <3>1 DEF InTurn
    <3> QED
      BY <2>1, <3>1, <3>2, <3>3, <3>4 DEF PagesInv, NothingOpenIsForgotten, IndicatorIsTrue, Coming
  <2>6. CASE ~(list = "open" /\ tab = "jobs")
    <3>1. ~polling' /\ UNCHANGED <<pollTimer, orphans>>
      BY <1>5, <2>6 DEF ListAnswered, GoesOn
    <3>2. Counted' /\ ViewIsKnown'
      BY <1>0, <2>1, <2>2, <3>1 DEF Counted, ViewIsKnown
    <3>3. NothingYet' /\ LeftIsQuiet'
      BY <2>1, <2>3 DEF NothingYet, LeftIsQuiet
    <3>4. InTurn'
      BY <1>0, <2>1, <2>2, <2>3, <2>4, <2>6, <3>1 DEF InTurn
    <3>5. NothingOpenIsForgotten' /\ IndicatorIsTrue'
      BY <2>1, <2>6, <3>1 DEF NothingOpenIsForgotten, IndicatorIsTrue, Watched
    <3> QED
      BY <3>2, <3>3, <3>4, <3>5 DEF PagesInv
  <2> QED
    BY <2>5, <2>6
<1>6. CASE ListIsLost
  <2>1. PICK l \in DOMAIN fetching : fetching[l] > 0 /\ fetching' = [fetching EXCEPT ![l] = fetching[l] - 1]
    BY <1>6 DEF ListIsLost
  <2>2. /\ failed' /\ (polling' => polling /\ view = "agent")
        /\ UNCHANGED <<pollTimer, orphans, crossed, pageVars>>
    BY <1>6 DEF ListIsLost
  <2>3. /\ fetching' \in [Lists \cup {"asked"} -> Nat]
        /\ InFlight' = InFlight - 1 /\ InFlight > 0
        /\ fetching'["closed"] <= fetching["closed"]
    BY <1>0, <2>1, AnsweredLemma
  <2>4. fetching["closed"] \in Nat /\ fetching'["closed"] \in Nat
    BY <2>3 DEF Lists
  <2>5. ready /\ (mounted \/ trailing)
    BY <1>0, <2>3 DEF NothingYet, LeftIsQuiet, Coming
  <2>6. Counted' /\ ViewIsKnown' /\ NothingYet' /\ LeftIsQuiet'
    BY <1>0, <2>2, <2>3, <2>5 DEF Counted, ViewIsKnown, NothingYet, LeftIsQuiet
  <2>7. InTurn'
    BY <1>0, <2>2, <2>3, <2>4 DEF InTurn
  <2>8. NothingOpenIsForgotten' /\ IndicatorIsTrue'
    BY <1>0, <2>2 DEF NothingOpenIsForgotten, IndicatorIsTrue
  <2> QED
    BY <2>6, <2>7, <2>8 DEF PagesInv
<1>7. CASE Ready
  <2>1. /\ ~ready /\ ready' /\ view = "agent" /\ ~pollTimer /\ orphans = 0 /\ ~polling
        /\ (mounted \/ trailing) /\ jobsShown = "nothing" /\ InFlight = 0 /\ \A b \in Buttons : pressed[b] = "no"
        /\ UNCHANGED <<orphans, view, mounted, tab, jobsShown, pressed, presses, unfinished, trailing>>
    BY <1>0, <1>7 DEF Ready, NothingYet, LeftIsQuiet
  <2>2. CASE tab = "jobs"
    <3>1. Load(FALSE)
      BY <1>7, <2>2 DEF Ready
    <3>2. orphans' \in Nat /\ orphans' <= orphans
      BY <2>1
    <3> QED
      BY <2>1, <2>2, <3>1, <3>2, AfterLoad
  <2>4. CASE tab # "jobs"
    <3>1. UNCHANGED <<fetching, pollTimer, polling, failed, crossed>>
      BY <1>7, <2>4 DEF Ready
    <3>2. InFlight' = InFlight
      BY <3>1 DEF InFlight
    <3> QED
      BY <1>0, <2>1, <2>4, <3>1, <3>2 DEF PagesInv, Counted, ViewIsKnown, NothingYet, InTurn,
        NothingOpenIsForgotten, IndicatorIsTrue, LeftIsQuiet, Watched, Coming
  <2> QED
    BY <2>2, <2>4
<1>8. ASSUME NEW name \in {"jobs", "other"}, SelectTab(name) PROVE PagesInv'
  <2>1. /\ view = "agent" /\ mounted /\ ready /\ tab' = name
        /\ UNCHANGED <<view, mounted, ready, jobsShown, pressed, unfinished, trailing>>
    BY <1>8 DEF SelectTab
  <2>2. CASE name = "jobs" /\ jobsShown = "nothing"
    <3>1. Load(FALSE) /\ orphans' = orphans
      BY <1>8, <2>2 DEF SelectTab
    <3>2. orphans' \in Nat /\ orphans' <= orphans
      BY <3>1
    <3> QED
      BY <2>1, <2>2, <3>1, <3>2, AfterLoad
  <2>3. CASE name = "jobs" /\ jobsShown # "nothing" /\ Resumes
    <3>1. /\ ~pollTimer /\ jobsShown = "open" /\ pollTimer' /\ polling' /\ orphans' = orphans
          /\ UNCHANGED <<fetching, failed>>
      BY <1>8, <2>3 DEF SelectTab, Resumes, SetTimer
    <3>a. ~crossed' => ~crossed /\ ~(InFlight > 0)
      BY <1>8, <2>3, Zenon DEF SelectTab, Resumes
    <3>2. InFlight' = InFlight
      BY <3>1 DEF InFlight
    <3>3. Counted' /\ ViewIsKnown' /\ NothingYet' /\ LeftIsQuiet'
      BY <1>0, <2>1, <2>3, <3>1, <3>2 DEF Counted, ViewIsKnown, NothingYet, LeftIsQuiet
    <3>4. InTurn'
      BY <1>0, <2>1, <3>1, <3>2, <3>a DEF InTurn
    <3> QED
      BY <2>1, <3>1, <3>3, <3>4 DEF PagesInv, NothingOpenIsForgotten, IndicatorIsTrue, Coming
  <2>4. CASE name = "jobs" /\ jobsShown # "nothing" /\ ~Resumes
    <3>1. UNCHANGED <<pollTimer, orphans, polling, crossed, fetching, failed>>
      BY <1>8, <2>4 DEF SelectTab
    <3>2. InFlight' = InFlight
      BY <3>1 DEF InFlight
    <3>3. Counted' /\ ViewIsKnown' /\ NothingYet' /\ LeftIsQuiet'
      BY <1>0, <2>1, <2>4, <3>1, <3>2 DEF Counted, ViewIsKnown, NothingYet, LeftIsQuiet
    <3>4. InTurn'
      BY <1>0, <2>1, <3>1, <3>2 DEF InTurn
    <3>5. NothingOpenIsForgotten' /\ IndicatorIsTrue'
      BY <1>0, <2>1, <2>4, <3>1, <3>2 DEF NothingOpenIsForgotten, IndicatorIsTrue, Resumes, Coming
    <3> QED
      BY <3>3, <3>4, <3>5 DEF PagesInv
  <2>5. CASE name = "other"
    <3>1. ~pollTimer' /\ ~polling' /\ UNCHANGED <<fetching, orphans, failed, crossed>>
      BY <1>8, <2>5 DEF SelectTab, StopJobsPolling
    <3>2. InFlight' = InFlight
      BY <3>1 DEF InFlight
    <3>3. Counted' /\ ViewIsKnown' /\ NothingYet' /\ LeftIsQuiet'
      BY <1>0, <2>1, <2>5, <3>1, <3>2 DEF Counted, ViewIsKnown, NothingYet, LeftIsQuiet, Watched
    <3>4. InTurn'
      BY <1>0, <2>1, <3>1, <3>2 DEF InTurn
    <3> QED
      BY <2>1, <2>5, <3>1, <3>3, <3>4 DEF PagesInv, NothingOpenIsForgotten, IndicatorIsTrue, Watched
  <2> QED
    BY <2>2, <2>3, <2>4, <2>5
<1>9. ASSUME NEW button \in Buttons, Press(button) PROVE PagesInv'
  <2>1. /\ mounted /\ ready /\ pressed' = [pressed EXCEPT ![button] = "asked"]
        /\ UNCHANGED <<requestVars, view, mounted, ready, tab, jobsShown, unfinished, trailing>>
    BY <1>9 DEF Press
  <2>2. InFlight' = InFlight
    BY <2>1 DEF InFlight
  <2>3. (\A b \in Buttons : pressed'[b] # "done") => \A b \in Buttons : pressed[b] # "done" \/ b = button
    BY <2>1
  <2>4. pressed[button] = "no"
    BY <1>9 DEF Press
  <2>5. Counted' /\ ViewIsKnown' /\ NothingYet' /\ LeftIsQuiet'
    BY <1>0, <2>1, <2>2 DEF Counted, ViewIsKnown, NothingYet, LeftIsQuiet, Watched
  <2>6. InTurn'
    BY <1>0, <2>1, <2>2, <2>3, <2>4 DEF InTurn
  <2>7. NothingOpenIsForgotten' /\ IndicatorIsTrue'
    BY <1>0, <2>1, <2>2 DEF NothingOpenIsForgotten, IndicatorIsTrue, Watched, Coming
  <2> QED
    BY <2>5, <2>6, <2>7 DEF PagesInv
<1>10. ASSUME NEW button \in Buttons, ServePress(button) PROVE PagesInv'
  <2>1. /\ pressed[button] = "asked" /\ pressed' = [pressed EXCEPT ![button] = "done"]
        /\ UNCHANGED <<fetching, pollTimer, orphans, polling, failed,
                       view, mounted, ready, tab, jobsShown, presses, trailing>>
        /\ \/ unfinished' \subseteq unfinished /\ UNCHANGED crossed
           \/ ~crossed' => ~crossed /\ ~(InFlight > 0)
    BY <1>10 DEF ServePress
  <2>2. InFlight' = InFlight
    BY <2>1 DEF InFlight
  <2>3. ready /\ (mounted \/ trailing)
    BY <1>0, <2>1 DEF NothingYet, LeftIsQuiet
  <2>4. Counted' /\ ViewIsKnown' /\ NothingYet' /\ LeftIsQuiet'
    BY <1>0, <2>1, <2>2, <2>3 DEF Counted, ViewIsKnown, NothingYet, LeftIsQuiet, Watched
  <2>5. pressed'[button] = "done"
    BY <2>1 DEF Pressed
  <2>6. InTurn'
    <3>1. CASE unfinished' \subseteq unfinished /\ UNCHANGED crossed
      BY <1>0, <2>1, <2>2, <2>5, <3>1 DEF InTurn
    <3>2. CASE ~crossed' => ~crossed /\ ~(InFlight > 0)
      <4>1. ~crossed' => fetching'["closed"] = 0 /\ InFlight = 0
        BY <2>1, <3>2 DEF Lists
      <4> QED
        BY <1>0, <2>1, <2>2, <2>5, <3>2, <4>1 DEF InTurn
    <3> QED
      BY <2>1, <3>1, <3>2
  <2>7. NothingOpenIsForgotten' /\ IndicatorIsTrue'
    BY <1>0, <2>1, <2>2 DEF NothingOpenIsForgotten, IndicatorIsTrue, Watched, Coming
  <2> QED
    BY <2>4, <2>6, <2>7 DEF PagesInv
<1>11. ASSUME NEW button \in Buttons, PressAnswered(button) PROVE PagesInv'
  <2>1. /\ pressed[button] = "done" /\ pressed' = [pressed EXCEPT ![button] = "no"]
        /\ UNCHANGED <<orphans, view, mounted, ready, tab, jobsShown, presses, unfinished, trailing>>
    BY <1>11 DEF PressAnswered
  <2>2. ready /\ (mounted \/ trailing) /\ (view = "batch" => tab = "jobs")
    BY <1>0, <2>1 DEF NothingYet, LeftIsQuiet, ViewIsKnown
  <2>3. CASE button = "fix" /\ jobsShown = "nothing"
    <3>1. UNCHANGED <<fetching, pollTimer, polling, failed, crossed>>
      BY <1>11, <2>3 DEF PressAnswered
    <3>2. InFlight' = InFlight
      BY <3>1 DEF InFlight
    <3>3. Counted' /\ ViewIsKnown' /\ NothingYet' /\ LeftIsQuiet'
      BY <1>0, <2>1, <2>2, <3>1, <3>2 DEF Counted, ViewIsKnown, NothingYet, LeftIsQuiet, Watched
    <3>4. InTurn'
      BY <1>0, <2>1, <2>3, <3>1, <3>2 DEF InTurn
    <3>5. NothingOpenIsForgotten' /\ IndicatorIsTrue'
      BY <1>0, <2>1, <3>1, <3>2 DEF NothingOpenIsForgotten, IndicatorIsTrue, Watched, Coming
    <3> QED
      BY <3>3, <3>4, <3>5 DEF PagesInv
  <2>4. CASE ~(button = "fix" /\ jobsShown = "nothing")
    <3>1. Load(pollTimer) /\ orphans' \in Nat /\ orphans' <= orphans
      BY <1>11, <2>4 DEF PressAnswered
    <3>2. tab' = "other" => tab = "other"
      BY <2>1
    <3> QED
      BY <2>1, <2>2, <3>1, <3>2, AfterLoad
  <2> QED
    BY <2>3, <2>4
<1>12. ASSUME NEW button \in Buttons, PressFails(button) PROVE PagesInv'
  <2>1. /\ pressed[button] # "no" /\ pressed' = [pressed EXCEPT ![button] = "no"] /\ failed'
        /\ UNCHANGED <<fetching, pollTimer, orphans, polling, crossed,
                       view, mounted, ready, tab, jobsShown, presses, unfinished, trailing>>
    BY <1>12 DEF PressFails
  <2>2. InFlight' = InFlight
    BY <2>1 DEF InFlight
  <2>3. ready /\ (mounted \/ trailing)
    BY <1>0, <2>1 DEF NothingYet, LeftIsQuiet
  <2>4. Counted' /\ ViewIsKnown' /\ NothingYet' /\ LeftIsQuiet'
    BY <1>0, <2>1, <2>2, <2>3 DEF Counted, ViewIsKnown, NothingYet, LeftIsQuiet, Watched
  <2>5. InTurn'
    BY <1>0, <2>1, <2>2 DEF InTurn
  <2>6. NothingOpenIsForgotten' /\ IndicatorIsTrue'
    BY <1>0, <2>1, <2>2 DEF NothingOpenIsForgotten, IndicatorIsTrue, Watched, Coming
  <2> QED
    BY <2>4, <2>5, <2>6 DEF PagesInv
<1>13. CASE Leave
  <2>1. /\ ~mounted' /\ ~pollTimer' /\ mounted
        /\ trailing' = \/ InFlight > 0 \/ orphans > 0 \/ ~ready \/ \E b \in Buttons : pressed[b] # "no"
        /\ UNCHANGED <<fetching, orphans, failed, crossed, view, ready, tab, jobsShown, pressed, presses, unfinished>>
    BY <1>13 DEF Leave
  <2>2. InFlight' = InFlight
    BY <2>1 DEF InFlight
  <2>a. polling' => polling
    BY <1>13 DEF Leave
  <2>3. ~trailing' => InFlight = 0 /\ orphans = 0 /\ ready /\ \A b \in Buttons : pressed[b] = "no"
    BY <2>1
  <2>5. InTurn' /\ NothingOpenIsForgotten' /\ IndicatorIsTrue'
    BY <1>0, <2>1, <2>2 DEF InTurn, NothingOpenIsForgotten, IndicatorIsTrue, Watched
  <2>6. LeftIsQuiet'
    BY <2>1, <2>2, <2>3 DEF LeftIsQuiet, Coming
  <2>7. Counted' /\ ViewIsKnown'
    BY <1>0, <2>1 DEF Counted, ViewIsKnown
  <2>8. NothingYet'
    BY <1>0, <2>1, <2>2, <2>a DEF NothingYet, Watched
  <2> QED
    BY <2>5, <2>6, <2>7, <2>8 DEF PagesInv
<1>14. CASE OthersChange
  <2>1. /\ "own" \in unfinished' => "own" \in unfinished
        /\ UNCHANGED <<requestVars, view, mounted, ready, tab, jobsShown, pressed, presses, trailing>>
    BY <1>14 DEF OthersChange
  <2>2. InFlight' = InFlight
    BY <2>1 DEF InFlight
  <2>3. Counted' /\ ViewIsKnown' /\ NothingYet' /\ LeftIsQuiet'
    BY <1>0, <2>1, <2>2 DEF Counted, ViewIsKnown, NothingYet, LeftIsQuiet, Watched, Coming
  <2>4. InTurn'
    BY <1>0, <2>1, <2>2 DEF InTurn
  <2>5. NothingOpenIsForgotten' /\ IndicatorIsTrue'
    BY <1>0, <2>1, <2>2 DEF NothingOpenIsForgotten, IndicatorIsTrue, Watched, Coming
  <2> QED
    BY <2>3, <2>4, <2>5 DEF PagesInv
<1> QED
  BY <1>1, <1>2, <1>3, <1>4, <1>5, <1>6, <1>7, <1>8, <1>9, <1>10, <1>11, <1>12, <1>13, <1>14
     DEF JobPagesNext

LEMMA PressedNext == Pressed /\ [JobPagesNext]_jobPagesVars => Pressed'
BY DEF Pressed, jobPagesVars, requestVars, pageVars, JobPagesNext, Fire, FireOrphan, ServeList, ListIsLost,
  Ready, Leave, OthersChange, ListAnswered, SelectTab, Press, ServePress, PressAnswered, PressFails

\* A page refreshes its list as long as a command in it is unfinished and somebody looks at it, once
\* per period and no longer.
THEOREM PagesPollWhileWatched == JobPagesSpec => []PollsWhileWatched
<1>1. JobPagesInit => Pressed
  BY DEF JobPagesInit, Pressed
<1>2. PagesInv => PollsWhileWatched
  <2> SUFFICES ASSUME PagesInv PROVE PollsWhileWatched
    OBVIOUS
  <2>1. InFlight \in Nat /\ orphans \in Nat
    BY InFlightIsNat DEF PagesInv, Counted
  <2>2. OwnJobIsFollowed
    BY <2>1 DEF PagesInv, OwnJobIsFollowed, InTurn, NothingYet, NothingOpenIsForgotten, Coming, Watched, Lists
  <2>3. OneRefresh
    BY <2>1 DEF PagesInv, InTurn, OneRefresh
  <2>4. QuietWhenUnwatched
    BY DEF PagesInv, LeftIsQuiet, ViewIsKnown, QuietWhenUnwatched
  <2> QED
    BY <2>2, <2>3, <2>4 DEF PagesInv, PollsWhileWatched
<1> QED
  BY <1>1, <1>2, PagesInitInv, PagesNextInv, PressedNext, PTL DEF JobPagesSpec

-----------------------------------------------------------------------------
(* The list of agents.                                                     *)

\* A place of the list, whether a page has that number or not.
AnyPlace == [filter : Filters, page : Nat]
Answers == [for : AnyPlace \cup {Nothing}, items : SUBSET Nat, total : Nat]

Placed ==
  /\ refs \in AnyPlace /\ query \in AnyPlace /\ going \in AnyPlace \cup {Nothing}
  /\ shown \in Answers

\* A query that differs from the refs is being corrected, and only what is set is asked for.
InStep ==
  /\ going # Nothing \/ query = refs
  /\ listed \subseteq {refs}
  /\ listed = {} => shown.for \in {refs, Nothing}

ListInv == Placed /\ InStep

LEMMA HomeIsAPlace == Home \in AnyPlace
BY ListAssumption DEF Home, AnyPlace

\* The page that an answer brings the list to is a number.
LEMMA SafePageIsNat ==
  ASSUME NEW f \in Filters, NEW p \in Nat
  PROVE  /\ SafePage(f, p) \in Nat /\ Cardinality(Matching(f)) \in Nat
         /\ OnPage(f, p) \in SUBSET Nat
<1>1. Matching(f) \subseteq Matches[f] /\ Matches[f] \in SUBSET Nat /\ IsFiniteSet(Matches[f])
  BY ListAssumption DEF Matching
<1>2. Cardinality(Matching(f)) \in Nat
  BY <1>1, FS_Subset, FS_CardinalityType
<1>3. SafePage(f, p) \in Nat
  BY <1>2 DEF SafePage
<1> QED
  BY <1>1, <1>2, <1>3 DEF OnPage

\* What every change of the refs does: it asks for the new place and has the query follow.
LEMMA ChangeKeepsStep ==
  ASSUME ListInv, NEW place \in AnyPlace, refs' = place, Synchronize(place),
         listed' = {place}, UNCHANGED query, shown' \in Answers
  PROVE  ListInv'
<1>1. /\ refs \in AnyPlace /\ query \in AnyPlace /\ going \in AnyPlace \cup {Nothing}
      /\ Nothing \notin AnyPlace
      /\ going # Nothing \/ query = refs
  BY ListAssumption DEF ListInv, Placed, InStep, AnyPlace
<1>2. Placed'
  BY <1>1 DEF Placed, Synchronize
<1>3. InStep'
  BY <1>1 DEF InStep, Synchronize
<1> QED
  BY <1>2, <1>3 DEF ListInv

LEMMA FetchAsks ==
  ASSUME NEW place, FetchData(place)
  PROVE  listed' = {place}
BY DEF FetchData, AfterAbort

LEMMA ListInvInit == ListInit => ListInv
<1> SUFFICES ASSUME ListInit PROVE ListInv
  OBVIOUS
<1>1. shown \in Answers /\ refs = Home /\ query = Home /\ listed = {Home} /\ going \in {Home, Nothing}
  BY DEF ListInit, Answers
<1> QED
  BY <1>1, HomeIsAPlace DEF ListInv, Placed, InStep

LEMMA ListInvNext == ListInv /\ [ListNext]_listVars => ListInv'
<1> SUFFICES ASSUME ListInv, [ListNext]_listVars PROVE ListInv'
  OBVIOUS
<1>0. /\ refs \in AnyPlace /\ query \in AnyPlace /\ going \in AnyPlace \cup {Nothing}
      /\ shown \in Answers
      /\ going # Nothing \/ query = refs
      /\ listed \subseteq {refs}
      /\ listed = {} => shown.for \in {refs, Nothing}
      /\ Nothing \notin AnyPlace /\ Home \in AnyPlace
  BY ListAssumption, HomeIsAPlace DEF ListInv, Placed, InStep, AnyPlace
<1>u. ASSUME UNCHANGED <<refs, query, going, listed, shown>> PROVE ListInv'
  BY <1>u DEF ListInv, Placed, InStep
<1>s. ASSUME NEW S, Select(S) PROVE ListInv'
  BY <1>s, <1>u DEF Select
<1>1. CASE UNCHANGED listVars
  BY <1>1, <1>u DEF listVars
<1>2. ASSUME NEW f \in Filters, SetFilter(f) PROVE ListInv'
  <2> DEFINE place == [filter |-> f, page |-> 1]
  <2>1. place \in AnyPlace
    BY DEF AnyPlace
  <2>2. /\ refs' = place /\ Synchronize(place) /\ FetchData(place) /\ UNCHANGED <<query, shown>>
    BY <1>2 DEF SetFilter, ChangeRefs
  <2> HIDE DEF place
  <2> QED
    BY <1>0, <2>1, <2>2, FetchAsks, ChangeKeepsStep
<1>3. CASE NextPage
  <2> DEFINE place == [refs EXCEPT !.page = @ + 1]
  <2>1. place \in AnyPlace
    BY <1>0 DEF AnyPlace
  <2>2. /\ refs' = place /\ Synchronize(place) /\ FetchData(place) /\ UNCHANGED <<query, shown>>
    BY <1>3 DEF NextPage, ChangeRefs
  <2> HIDE DEF place
  <2> QED
    BY <1>0, <2>1, <2>2, FetchAsks, ChangeKeepsStep
<1>4. CASE PrevPage
  <2> DEFINE place == [refs EXCEPT !.page = @ - 1]
  <2>1. place \in AnyPlace
    BY <1>0, <1>4 DEF AnyPlace, PrevPage
  <2>2. /\ refs' = place /\ Synchronize(place) /\ FetchData(place) /\ UNCHANGED <<query, shown>>
    BY <1>4 DEF PrevPage, ChangeRefs
  <2> HIDE DEF place
  <2> QED
    BY <1>0, <2>1, <2>2, FetchAsks, ChangeKeepsStep
<1>5. CASE FollowLink
  BY <1>0, <1>5 DEF FollowLink, ListInv, Placed, InStep
<1>6. CASE Arrive
  <2>1. going # Nothing /\ going' = Nothing /\ query' = going /\ refs' = going /\ shown' = shown
    BY <1>6 DEF Arrive
  <2>2. CASE refs = going /\ UNCHANGED <<listed, loading>>
    BY <1>0, <2>1, <2>2 DEF ListInv, Placed, InStep
  <2>3. CASE FetchData(going)
    <3>1. listed' = {going}
      BY <2>3, FetchAsks
    <3> QED
      BY <1>0, <2>1, <3>1 DEF ListInv, Placed, InStep
  <2> QED
    BY <1>6, <2>2, <2>3 DEF Arrive
<1>7. ASSUME NEW place \in listed, AnswerList(place) PROVE ListInv'
  <2>1. place = refs /\ place \in AnyPlace
    BY <1>0
  <2>2. place.filter \in Filters /\ place.page \in Nat
    BY <2>1 DEF AnyPlace
  <2> DEFINE safe == SafePage(place.filter, place.page)
             items == OnPage(place.filter, place.page)
             total == Cardinality(Matching(place.filter))
  <2>3. safe \in Nat /\ items \in SUBSET Nat /\ total \in Nat
    BY <2>2, SafePageIsNat
  <2>4. /\ shown' = [for |-> place, items |-> items, total |-> total]
        /\ UNCHANGED query
        /\ \/ safe = refs.page /\ listed' = listed \ {place} /\ UNCHANGED <<refs, going>>
           \/ /\ refs' = [refs EXCEPT !.page = safe] /\ Synchronize(refs')
              /\ listed' = (AfterAbort \ {place}) \cup {refs'}
    BY <1>7 DEF AnswerList
  <2> HIDE DEF safe, items, total
  <2>5. shown' \in Answers /\ shown'.for = place
    BY <2>1, <2>3, <2>4 DEF Answers
  <2>6. CASE listed' = listed \ {place} /\ UNCHANGED <<refs, going>>
    BY <1>0, <2>1, <2>4, <2>5, <2>6 DEF ListInv, Placed, InStep
  <2>7. CASE /\ refs' = [refs EXCEPT !.page = safe] /\ Synchronize(refs')
             /\ listed' = (AfterAbort \ {place}) \cup {refs'}
    <3>1. refs' \in AnyPlace
      BY <1>0, <2>3, <2>7 DEF AnyPlace
    <3>2. listed' = {refs'}
      BY <2>7 DEF AfterAbort
    <3> QED
      BY <2>4, <2>5, <2>7, <3>1, <3>2, ChangeKeepsStep
  <2> QED
    BY <2>4, <2>6, <2>7
<1>8. ASSUME NEW place \in listed, ListFails(place) PROVE ListInv'
  <2>1. /\ listed' = listed \ {place} /\ shown' = [shown EXCEPT !.for = Nothing]
        /\ UNCHANGED <<refs, query, going>>
    BY <1>8 DEF ListFails
  <2>2. shown' \in Answers /\ shown'.for = Nothing
    BY <1>0, <2>1 DEF Answers
  <2> QED
    BY <1>0, <2>1, <2>2 DEF ListInv, Placed, InStep
<1>9. ASSUME NEW a \in Agents, Disappear(a) \/ ToggleSelect(a) PROVE ListInv'
  BY <1>9, <1>s, <1>u DEF Disappear, ToggleSelect
<1>10. CASE ToggleSelectAllVisible \/ ClearSelection \/ SelectAllMatching \/ AnswerMatching \/ Cancel \/ Confirm
  BY <1>10, <1>s DEF ToggleSelectAllVisible, ClearSelection, SelectAllMatching, AnswerMatching, Cancel, Confirm
<1>11. ASSUME NEW S \in SUBSET Agents, AnswerRepeat(S) PROVE ListInv'
  <2>1. going' = query /\ UNCHANGED <<refs, query, listed, shown>>
    BY <1>11 DEF AnswerRepeat
  <2> QED
    BY <1>0, <2>1 DEF ListInv, Placed, InStep
<1>12. ASSUME NEW purpose \in Purposes, Ask(purpose) PROVE ListInv'
  BY <1>12, <1>s DEF Ask
<1>13. ASSUME NEW purpose \in Purposes, Sent(purpose) PROVE ListInv'
  <2>1. UNCHANGED <<refs, query, going, shown>> /\ (FetchData(refs) \/ UNCHANGED listed)
    BY <1>13 DEF Sent
  <2>2. listed' = {refs} \/ UNCHANGED listed
    BY <2>1, FetchAsks
  <2> QED
    BY <1>0, <2>1, <2>2 DEF ListInv, Placed, InStep
<1> QED
  BY <1>1, <1>2, <1>3, <1>4, <1>5, <1>6, <1>7, <1>8, <1>9, <1>10, <1>11, <1>12, <1>13 DEF ListNext

\* Once nothing is on its way the list on the screen is the one of the filters and the page that are
\* set, and of the query of the route.
THEOREM ListAgreesWithRoute == ListSpec => []ListIsInStep
<1>1. ListInv => ListIsInStep
  BY DEF ListInv, InStep, ListIsInStep
<1> QED
  BY <1>1, ListInvInit, ListInvNext, PTL DEF ListSpec

-----------------------------------------------------------------------------
(* What is sent for the selection.                                         *)

\* The dialog's agents are the selection, unless an earlier request slipped in.
Dialogs == [for : Purposes, agents : SUBSET Nat, slipped : BOOLEAN]
DialogInv ==
  /\ selected \in SUBSET Nat /\ shown.items \in SUBSET Nat /\ matching \in Filters \cup {Nothing}
  /\ dialog # Nothing => dialog \in Dialogs /\ (dialog.slipped \/ selected = dialog.agents)
  /\ ~unconfirmed

LEMMA SlipLemma ==
  ASSUME dialog # Nothing => dialog \in Dialogs, Slip
  PROVE  dialog' # Nothing => dialog' \in Dialogs /\ dialog'.slipped
BY DEF Slip, Dialogs

LEMMA DialogInvNext == ListInv /\ ListInv' /\ DialogInv /\ [ListNext]_listVars => DialogInv'
<1> SUFFICES ASSUME ListInv, ListInv', DialogInv, [ListNext]_listVars PROVE DialogInv'
  OBVIOUS
<1>0. /\ selected \in SUBSET Nat /\ shown.items \in SUBSET Nat /\ matching \in Filters \cup {Nothing}
      /\ dialog # Nothing => dialog \in Dialogs /\ (dialog.slipped \/ selected = dialog.agents)
      /\ ~unconfirmed
      /\ shown'.items \in SUBSET Nat /\ refs.filter \in Filters
      /\ Agents \in SUBSET Nat
  BY ListAssumption DEF DialogInv, ListInv, Placed, Answers, AnyPlace, Agents
<1>u. ASSUME UNCHANGED <<selected, matching, dialog, unconfirmed>> PROVE DialogInv'
  BY <1>0, <1>u DEF DialogInv
<1>1. CASE UNCHANGED listVars
  BY <1>1, <1>u DEF listVars, choice
<1>2. CASE \/ NextPage \/ PrevPage \/ FollowLink \/ Arrive
           \/ (\E f \in Filters : SetFilter(f)) \/ \E place \in listed : ListFails(place)
  BY <1>2, <1>u DEF NextPage, PrevPage, FollowLink, Arrive, SetFilter, ListFails, choice
<1>3. ASSUME NEW place \in listed, AnswerList(place) PROVE DialogInv'
  BY <1>3, <1>u DEF AnswerList, SelectedAfter
<1>4. ASSUME NEW a \in Agents, Disappear(a) PROVE DialogInv'
  BY <1>4, <1>u DEF Disappear, choice
<1>5. ASSUME NEW a \in Agents, ToggleSelect(a) PROVE DialogInv'
  BY <1>0, <1>5 DEF ToggleSelect, Select, DialogInv
<1>6. CASE ToggleSelectAllVisible \/ ClearSelection
  BY <1>0, <1>6 DEF ToggleSelectAllVisible, ClearSelection, Select, DialogInv
<1>7. CASE SelectAllMatching
  BY <1>0, <1>7 DEF SelectAllMatching, Select, DialogInv
<1>8. CASE AnswerMatching
  <2>1. matching # Nothing /\ matching' = Nothing /\ UNCHANGED <<unconfirmed>>
    BY <1>8 DEF AnswerMatching
  <2>2. CASE Select(Matching(matching)) /\ Slip
    <3>1. selected' \in SUBSET Nat
      BY <1>0, <2>1, <2>2, ListAssumption DEF Select, Matching
    <3>2. dialog' # Nothing => dialog' \in Dialogs /\ dialog'.slipped
      BY <1>0, <2>2, SlipLemma
    <3> QED
      BY <1>0, <2>1, <3>1, <3>2 DEF DialogInv
  <2>3. CASE Select(selected) /\ UNCHANGED dialog
    BY <1>0, <2>1, <2>3 DEF Select, DialogInv
  <2> QED
    BY <1>8, <2>2, <2>3 DEF AnswerMatching
<1>9. ASSUME NEW S \in SUBSET Agents, AnswerRepeat(S) PROVE DialogInv'
  <2>1. UNCHANGED <<matching, unconfirmed>>
    BY <1>9 DEF AnswerRepeat
  <2>2. CASE selected' = S /\ Slip
    <3>1. dialog' # Nothing => dialog' \in Dialogs /\ dialog'.slipped
      BY <1>0, <2>2, SlipLemma
    <3> QED
      BY <1>0, <2>1, <2>2, <3>1 DEF DialogInv
  <2>3. CASE UNCHANGED <<selected, dialog>>
    BY <1>0, <2>1, <2>3, <1>u
  <2> QED
    BY <1>9, <2>2, <2>3 DEF AnswerRepeat
<1>10. ASSUME NEW purpose \in Purposes, Ask(purpose) PROVE DialogInv'
  <2>1. /\ dialog' = [for |-> purpose, agents |-> selected, slipped |-> FALSE]
        /\ selected' = selected /\ UNCHANGED <<matching, unconfirmed>>
    BY <1>10 DEF Ask, Select
  <2>2. dialog' \in Dialogs /\ selected' = dialog'.agents
    BY <1>0, <2>1 DEF Dialogs
  <2> QED
    BY <1>0, <2>1, <2>2 DEF DialogInv
<1>11. CASE Cancel
  BY <1>0, <1>11 DEF Cancel, Select, DialogInv
<1>12. CASE Confirm
  <2>1. /\ dialog # Nothing /\ dialog' = Nothing
        /\ unconfirmed' = (unconfirmed \/ (selected # dialog.agents /\ ~dialog.slipped))
        /\ selected' = selected /\ UNCHANGED matching
    BY <1>12 DEF Confirm, Select
  <2>2. ~unconfirmed'
    BY <1>0, <2>1
  <2> QED
    BY <1>0, <2>1, <2>2 DEF DialogInv
<1>13. ASSUME NEW purpose \in Purposes, Sent(purpose) PROVE DialogInv'
  <2>1. UNCHANGED <<matching, unconfirmed>>
    BY <1>13 DEF Sent
  <2>2. CASE selected' = {} /\ Slip
    <3>1. dialog' # Nothing => dialog' \in Dialogs /\ dialog'.slipped
      BY <1>0, <2>2, SlipLemma
    <3> QED
      BY <1>0, <2>1, <2>2, <3>1 DEF DialogInv
  <2>3. CASE UNCHANGED <<selected, dialog>>
    BY <2>1, <2>3, <1>u
  <2> QED
    BY <1>13, <2>2, <2>3 DEF Sent
<1> QED
  BY <1>1, <1>2, <1>3, <1>4, <1>5, <1>6, <1>7, <1>8, <1>9, <1>10, <1>11, <1>12, <1>13 DEF ListNext

\* A command or a group goes to the agents that were selected when the dialog asked, unless an
\* earlier request of the view replaced or cleared the selection meanwhile.
THEOREM ConfirmedAgentsAreSent == ListSpec => []SentAsConfirmed
<1>1. ListInit => DialogInv
  <2> SUFFICES ASSUME ListInit PROVE DialogInv
    OBVIOUS
  <2>1. selected \in SUBSET Nat
    BY ListAssumption DEF ListInit, Agents
  <2> QED
    BY <2>1 DEF ListInit, DialogInv
<1>2. DialogInv => SentAsConfirmed
  BY DEF DialogInv, SentAsConfirmed
<1> QED
  BY <1>1, <1>2, ListInvInit, ListInvNext, DialogInvNext, PTL DEF ListSpec

-----------------------------------------------------------------------------
(* The pages of the console.                                               *)

\* What a step asks for afterwards: no chain has more than four requests.
Reaches(s, p) ==
  \E t \in s.then : t.of = p \/ \E u \in t.then : u.of = p \/ \E w \in u.then : w.of = p
Covers(S, p) == \E s \in S : s.affects = {} /\ (s.of = p \/ Reaches(s, p))

\* A step of a view fetches, or changes parts that it fetches afterwards or repeats the change on.
FetchIsSound(s) ==
  /\ s.affects = {} /\ s.of \in PartNames /\ \A p \in s.aborts : p = s.of \/ Reaches(s, p)
ChangeIsSound(s) ==
  /\ s.affects # {} /\ s.aborts = {} /\ s.takes = {}
  /\ \/ s.keeps = "nothing" /\ s.of = "change" /\ \A p \in s.affects : Reaches(s, p)
     \/ /\ s.keeps \in {"change", "answer"} /\ s.of \in PartNames /\ s.affects = {s.of}
        /\ s.then = {} /\ s.throws

Together(S) == /\ \A s \in S : s.affects = {}
               /\ \A s, t \in S : s.of = t.of => s = t

\* What the watches ask for again.
SiteCovers(v, s) ==
  /\ "site" \in s.takes =>
       \E t \in v.onSite : /\ "report" \notin t.takes /\ t.affects = {}
                           /\ t.of = s.of \/ Reaches(t, s.of)
  /\ "report" \in s.takes => Covers(v.onSite, s.of)
SearchCovers(v, s) == s.takes \ {"site"} # {} => Covers(v.onSearch, s.of)

ViewIsSound(v, T) ==
  /\ v.opens \cup v.onSite \cup v.onSearch \cup v.later \cup v.polls \cup v.changes \subseteq T
  /\ \A s \in T : FetchIsSound(s) \/ ChangeIsSound(s)
  /\ \A s, t \in T : s.throws => s.of \notin t.aborts
  /\ \A s \in T : s.then \subseteq T /\ Together(s.then)
  /\ \A S \in {v.opens, v.onSite, v.onSearch, v.later, v.polls} : Together(S)
  /\ \A s \in v.changes : s.affects # {}
  /\ \A s \in T : s.of = "results" => s \in v.later
  /\ \A s \in v.later : s.of = "results"
  /\ \A s \in T : s.affects = {} /\ s.of # "results" => SiteCovers(v, s) /\ SearchCovers(v, s)

-----------------------------------------------------------------------------
\* The fields of a step and of a view.
Is(s, of, takes, aborts, throws, then, affects, keeps) ==
  /\ s.of = of /\ s.takes = takes /\ s.aborts = aborts /\ s.throws = throws
  /\ s.then = then /\ s.affects = affects /\ s.keeps = keeps
HasSteps(v, opens, onSite, onSearch, later, polls, acts) ==
  /\ v.opens = opens /\ v.onSite = onSite /\ v.onSearch = onSearch /\ v.later = later
  /\ v.polls = polls /\ v.changes = acts

\* Each view by its table.
LEMMA DetectionsIsSound == \E T : ViewIsSound(ProcessDetectionsView, T)
<1> DEFINE list == Abortable("list", Listed)
<1>1. Is(list, "list", Listed, {"list"}, FALSE, {}, {}, "nothing")
  BY DEF Is, Request, Abortable, Change, Local, Answered
<1>2. HasSteps(ProcessDetectionsView, {list}, {list}, {list}, {}, {}, {})
  BY DEF ProcessDetectionsView, View, HasSteps
<1> HIDE DEF list
<1> DEFINE T == {list}
<1>3. ViewIsSound(ProcessDetectionsView, T)
  BY <1>1, <1>2, SMT DEF Is, HasSteps, ViewIsSound, FetchIsSound, ChangeIsSound, Together, SiteCovers,
     SearchCovers, Covers, Reaches, Listed, PartNames
<1> QED
  BY <1>3

LEMMA RepackIsSound == \E T : ViewIsSound(ComputersForRepackView, T)
<1> DEFINE list == Abortable("list", Listed)
           change == Change({"list"}, {list})
<1>1. /\ Is(list, "list", Listed, {"list"}, FALSE, {}, {}, "nothing")
      /\ Is(change, "change", {}, {}, TRUE, {list}, {"list"}, "nothing")
  BY DEF Is, Request, Abortable, Change, Local, Answered
<1>2. HasSteps(ComputersForRepackView, {list}, {list}, {list}, {}, {}, {change})
  BY DEF ComputersForRepackView, View, HasSteps
<1> HIDE DEF list, change
<1> DEFINE T == {list, change}
<1>3. ViewIsSound(ComputersForRepackView, T)
  BY <1>1, <1>2, SMT DEF Is, HasSteps, ViewIsSound, FetchIsSound, ChangeIsSound, Together, SiteCovers,
     SearchCovers, Covers, Reaches, Listed, PartNames
<1> QED
  BY <1>3

LEMMA DnsIsSound == \E T : ViewIsSound(DnsLogsView, T)
<1> DEFINE list == Abortable("list", Listed)
           blacklist == Request("blacklist", {})
           change == Change({"list", "blacklist"}, {list, blacklist})
<1>1. /\ Is(list, "list", Listed, {"list"}, FALSE, {}, {}, "nothing")
      /\ Is(blacklist, "blacklist", {}, {}, FALSE, {}, {}, "nothing")
      /\ Is(change, "change", {}, {}, TRUE, {list, blacklist}, {"list", "blacklist"}, "nothing")
  BY DEF Is, Request, Abortable, Change, Local, Answered
<1>2. HasSteps(DnsLogsView, {list, blacklist}, {list}, {list}, {}, {}, {change})
  BY DEF DnsLogsView, View, HasSteps
<1> HIDE DEF list, blacklist, change
<1> DEFINE T == {list, blacklist, change}
<1>3. ViewIsSound(DnsLogsView, T)
  BY <1>1, <1>2, SMT DEF Is, HasSteps, ViewIsSound, FetchIsSound, ChangeIsSound, Together, SiteCovers,
     SearchCovers, Covers, Reaches, Listed, PartNames
<1> QED
  BY <1>3

LEMMA PrintersIsSound == \E T : ViewIsSound(PrintersView, T)
<1> DEFINE list == Abortable("list", Listed)
           details == Request("details", {})
           both == [list EXCEPT !.then = {details}]
           edit == Change({"list"}, {list})
           connect == Change({"list", "details"}, {both})
<1>1. /\ Is(list, "list", Listed, {"list"}, FALSE, {}, {}, "nothing")
      /\ Is(details, "details", {}, {}, FALSE, {}, {}, "nothing")
      /\ Is(both, "list", Listed, {"list"}, FALSE, {details}, {}, "nothing")
      /\ Is(edit, "change", {}, {}, TRUE, {list}, {"list"}, "nothing")
      /\ Is(connect, "change", {}, {}, TRUE, {both}, {"list", "details"}, "nothing")
  BY DEF Is, Request, Abortable, Change, Local, Answered
<1>2. HasSteps(PrintersView, {list, details}, {list}, {list}, {}, {}, {edit, connect})
  BY DEF PrintersView, View, HasSteps
<1> HIDE DEF list, details, both, edit, connect
<1> DEFINE T == {list, details, both, edit, connect}
<1>3. ViewIsSound(PrintersView, T)
  BY <1>1, <1>2, SMT DEF Is, HasSteps, ViewIsSound, FetchIsSound, ChangeIsSound, Together, SiteCovers,
     SearchCovers, Covers, Reaches, Listed, PartNames
<1> QED
  BY <1>3

LEMMA InventoryIsSound == \E T : ViewIsSound(InventoryView, T)
<1> DEFINE list == Request("list", Listed)
           change == Change({"list"}, {list})
<1>1. /\ Is(list, "list", Listed, {}, FALSE, {}, {}, "nothing")
      /\ Is(change, "change", {}, {}, TRUE, {list}, {"list"}, "nothing")
  BY DEF Is, Request, Abortable, Change, Local, Answered
<1>2. HasSteps(InventoryView, {list}, {list}, {list}, {}, {}, {change})
  BY DEF InventoryView, View, HasSteps
<1> HIDE DEF list, change
<1> DEFINE T == {list, change}
<1>3. ViewIsSound(InventoryView, T)
  BY <1>1, <1>2, SMT DEF Is, HasSteps, ViewIsSound, FetchIsSound, ChangeIsSound, Together, SiteCovers,
     SearchCovers, Covers, Reaches, Listed, PartNames
<1> QED
  BY <1>3

LEMMA HomeIsSound == \E T : ViewIsSound(HomeView, T)
<1> DEFINE list == Request("list", Listed)
           duplicates == Request("duplicates", {"site"})
           options == Request("options", {"site"})
           mark == Local("list")
           change == Change({"list"}, {list})
<1>1. /\ Is(list, "list", Listed, {}, FALSE, {}, {}, "nothing")
      /\ Is(duplicates, "duplicates", {"site"}, {}, FALSE, {}, {}, "nothing")
      /\ Is(options, "options", {"site"}, {}, FALSE, {}, {}, "nothing")
      /\ Is(mark, "list", {}, {}, TRUE, {}, {"list"}, "change")
      /\ Is(change, "change", {}, {}, TRUE, {list}, {"list"}, "nothing")
  BY DEF Is, Request, Abortable, Change, Local, Answered
<1>2. HasSteps(HomeView, {list, duplicates, options}, {list, duplicates, options}, {list}, {},
                {list}, {mark, change})
  BY DEF HomeView, View, HasSteps
<1> HIDE DEF list, duplicates, options, mark, change
<1> DEFINE T == {list, duplicates, options, mark, change}
<1>3. ViewIsSound(HomeView, T)
  BY <1>1, <1>2, SMT DEF Is, HasSteps, ViewIsSound, FetchIsSound, ChangeIsSound, Together, SiteCovers,
     SearchCovers, Covers, Reaches, Listed, PartNames
<1> QED
  BY <1>3

LEMMA RecommendationsIsSound == \E T : ViewIsSound(RepackRecommendationsView, T)
<1> DEFINE list == Request("list", {"site"})
           mark == Local("list")
<1>1. /\ Is(list, "list", {"site"}, {}, FALSE, {}, {}, "nothing")
      /\ Is(mark, "list", {}, {}, TRUE, {}, {"list"}, "change")
  BY DEF Is, Request, Abortable, Change, Local, Answered
<1>2. HasSteps(RepackRecommendationsView, {list}, {list}, {}, {}, {}, {mark})
  BY DEF RepackRecommendationsView, View, HasSteps
<1> HIDE DEF list, mark
<1> DEFINE T == {list, mark}
<1>3. ViewIsSound(RepackRecommendationsView, T)
  BY <1>1, <1>2, SMT DEF Is, HasSteps, ViewIsSound, FetchIsSound, ChangeIsSound, Together, SiteCovers,
     SearchCovers, Covers, Reaches, Listed, PartNames
<1> QED
  BY <1>3

LEMMA FreeIsSound == \E T : ViewIsSound(FreeIpAddressesView, T)
<1> DEFINE list == Request("list", {"site"})
<1>1. Is(list, "list", {"site"}, {}, FALSE, {}, {}, "nothing")
  BY DEF Is, Request, Abortable, Change, Local, Answered
<1>2. HasSteps(FreeIpAddressesView, {list}, {list}, {}, {}, {}, {})
  BY DEF FreeIpAddressesView, View, HasSteps
<1> HIDE DEF list
<1> DEFINE T == {list}
<1>3. ViewIsSound(FreeIpAddressesView, T)
  BY <1>1, <1>2, SMT DEF Is, HasSteps, ViewIsSound, FetchIsSound, ChangeIsSound, Together, SiteCovers,
     SearchCovers, Covers, Reaches, Listed, PartNames
<1> QED
  BY <1>3

LEMMA ReportsIsSound == \E T : ViewIsSound(ReportsView, T)
<1> DEFINE latest == Request("report", {"report"})
           history == Request("history", {"site"})
<1>1. /\ Is(latest, "report", {"report"}, {}, FALSE, {}, {}, "nothing")
      /\ Is(history, "history", {"site"}, {}, FALSE, {}, {}, "nothing")
  BY DEF Is, Request, Abortable, Change, Local, Answered
<1>2. HasSteps(ReportsView, {latest, history}, {latest, history}, {latest}, {}, {}, {})
  BY DEF ReportsView, View, HasSteps
<1> HIDE DEF latest, history
<1> DEFINE T == {latest, history}
<1>3. ViewIsSound(ReportsView, T)
  BY <1>1, <1>2, SMT DEF Is, HasSteps, ViewIsSound, FetchIsSound, ChangeIsSound, Together, SiteCovers,
     SearchCovers, Covers, Reaches, Listed, PartNames
<1> QED
  BY <1>3

LEMMA AnalyticsIsSound == \E T : ViewIsSound(PDSUAnalyticsView, T)
<1> DEFINE withoutManager == Request("withoutManager", {"site"})
           ultravnc == [Request("withoutUltravnc", {"site"}) EXCEPT !.then = {withoutManager}]
           missing == [Request("missing", {"site"}) EXCEPT !.then = {ultravnc}]
           stats == [Request("stats", {"site"}) EXCEPT !.then = {missing}, !.throws = TRUE]
           flags == Request("flagged", {})
           results == Abortable("results", Listed)
           change == Change({"flagged"}, {flags})
<1>1. /\ Is(withoutManager, "withoutManager", {"site"}, {}, FALSE, {}, {}, "nothing")
      /\ Is(ultravnc, "withoutUltravnc", {"site"}, {}, FALSE, {withoutManager}, {}, "nothing")
      /\ Is(missing, "missing", {"site"}, {}, FALSE, {ultravnc}, {}, "nothing")
      /\ Is(stats, "stats", {"site"}, {}, TRUE, {missing}, {}, "nothing")
      /\ Is(flags, "flagged", {}, {}, FALSE, {}, {}, "nothing")
      /\ Is(results, "results", Listed, {"results"}, FALSE, {}, {}, "nothing")
      /\ Is(change, "change", {}, {}, TRUE, {flags}, {"flagged"}, "nothing")
  BY DEF Is, Request, Abortable, Change, Local, Answered
<1>2. HasSteps(PDSUAnalyticsView, {stats, flags}, {stats}, {}, {results}, {}, {change})
  BY DEF PDSUAnalyticsView, View, HasSteps
<1> HIDE DEF withoutManager, ultravnc, missing, stats, flags, results, change
<1> DEFINE T == {withoutManager, ultravnc, missing, stats, flags, results, change}
<1>3. ViewIsSound(PDSUAnalyticsView, T)
  BY <1>1, <1>2, SMT DEF Is, HasSteps, ViewIsSound, FetchIsSound, ChangeIsSound, Together, SiteCovers,
     SearchCovers, Covers, Reaches, Listed, PartNames
<1> QED
  BY <1>3

LEMMA MetadataIsSound == \E T : ViewIsSound(MetadataView, T)
<1> DEFINE pages == Abortable("pages", {"site"})
           stats == [Request("stats", {"site"}) EXCEPT !.aborts = {"pages"}, !.then = {pages}]
           missing == Request("missing", {"site"})
           results == Abortable("results", Listed)
<1>1. /\ Is(pages, "pages", {"site"}, {"pages"}, FALSE, {}, {}, "nothing")
      /\ Is(stats, "stats", {"site"}, {"pages"}, FALSE, {pages}, {}, "nothing")
      /\ Is(missing, "missing", {"site"}, {}, FALSE, {}, {}, "nothing")
      /\ Is(results, "results", Listed, {"results"}, FALSE, {}, {}, "nothing")
  BY DEF Is, Request, Abortable, Change, Local, Answered
<1>2. HasSteps(MetadataView, {stats, missing}, {stats, missing}, {}, {results}, {}, {})
  BY DEF MetadataView, View, HasSteps
<1> HIDE DEF pages, stats, missing, results
<1> DEFINE T == {pages, stats, missing, results}
<1>3. ViewIsSound(MetadataView, T)
  BY <1>1, <1>2, SMT DEF Is, HasSteps, ViewIsSound, FetchIsSound, ChangeIsSound, Together, SiteCovers,
     SearchCovers, Covers, Reaches, Listed, PartNames
<1> QED
  BY <1>3

LEMMA HealthIsSound == \E T : ViewIsSound(ServerHealthView, T)
<1> DEFINE live == Request("live", {})
           past == Request("history", {"search"})
           audit == Request("audit", {})
           change == Change({"audit"}, {audit})
<1>1. /\ Is(live, "live", {}, {}, FALSE, {}, {}, "nothing")
      /\ Is(past, "history", {"search"}, {}, FALSE, {}, {}, "nothing")
      /\ Is(audit, "audit", {}, {}, FALSE, {}, {}, "nothing")
      /\ Is(change, "change", {}, {}, TRUE, {audit}, {"audit"}, "nothing")
  BY DEF Is, Request, Abortable, Change, Local, Answered
<1>2. HasSteps(ServerHealthView, {live, past, audit}, {}, {past}, {}, {live}, {change})
  BY DEF ServerHealthView, View, HasSteps
<1> HIDE DEF live, past, audit, change
<1> DEFINE T == {live, past, audit, change}
<1>3. ViewIsSound(ServerHealthView, T)
  BY <1>1, <1>2, SMT DEF Is, HasSteps, ViewIsSound, FetchIsSound, ChangeIsSound, Together, SiteCovers,
     SearchCovers, Covers, Reaches, Listed, PartNames
<1> QED
  BY <1>3

LEMMA ReleasesIsSound == \E T : ViewIsSound(AgentReleasesView, T)
<1> DEFINE list == Request("list", {})
           options == Request("options", {})
           disk == Request("disk", {})
           change == Change({"list"}, {list})
<1>1. /\ Is(list, "list", {}, {}, FALSE, {}, {}, "nothing")
      /\ Is(options, "options", {}, {}, FALSE, {}, {}, "nothing")
      /\ Is(disk, "disk", {}, {}, FALSE, {}, {}, "nothing")
      /\ Is(change, "change", {}, {}, TRUE, {list}, {"list"}, "nothing")
  BY DEF Is, Request, Abortable, Change, Local, Answered
<1>2. HasSteps(AgentReleasesView, {list, options, disk}, {}, {}, {}, {}, {change})
  BY DEF AgentReleasesView, View, HasSteps
<1> HIDE DEF list, options, disk, change
<1> DEFINE T == {list, options, disk, change}
<1>3. ViewIsSound(AgentReleasesView, T)
  BY <1>1, <1>2, SMT DEF Is, HasSteps, ViewIsSound, FetchIsSound, ChangeIsSound, Together, SiteCovers,
     SearchCovers, Covers, Reaches, Listed, PartNames
<1> QED
  BY <1>3

LEMMA UsersIsSound == \E T : ViewIsSound(UsersView, T)
<1> DEFINE list == Request("list", {})
           change == Change({"list"}, {list})
           refused == [Change({"list"}, {list}) EXCEPT !.throws = FALSE]
<1>1. /\ Is(list, "list", {}, {}, FALSE, {}, {}, "nothing")
      /\ Is(change, "change", {}, {}, TRUE, {list}, {"list"}, "nothing")
      /\ Is(refused, "change", {}, {}, FALSE, {list}, {"list"}, "nothing")
  BY DEF Is, Request, Abortable, Change, Local, Answered
<1>2. HasSteps(UsersView, {list}, {}, {}, {}, {}, {change, refused})
  BY DEF UsersView, View, HasSteps
<1> HIDE DEF list, change, refused
<1> DEFINE T == {list, change, refused}
<1>3. ViewIsSound(UsersView, T)
  BY <1>1, <1>2, SMT DEF Is, HasSteps, ViewIsSound, FetchIsSound, ChangeIsSound, Together, SiteCovers,
     SearchCovers, Covers, Reaches, Listed, PartNames
<1> QED
  BY <1>3

LEMMA GroupsIsSound == \E T : ViewIsSound(GroupsView, T)
<1> DEFINE list == Request("list", {})
           change == Change({"list"}, {list})
<1>1. /\ Is(list, "list", {}, {}, FALSE, {}, {}, "nothing")
      /\ Is(change, "change", {}, {}, TRUE, {list}, {"list"}, "nothing")
  BY DEF Is, Request, Abortable, Change, Local, Answered
<1>2. HasSteps(GroupsView, {list}, {}, {}, {}, {}, {change})
  BY DEF GroupsView, View, HasSteps
<1> HIDE DEF list, change
<1> DEFINE T == {list, change}
<1>3. ViewIsSound(GroupsView, T)
  BY <1>1, <1>2, SMT DEF Is, HasSteps, ViewIsSound, FetchIsSound, ChangeIsSound, Together, SiteCovers,
     SearchCovers, Covers, Reaches, Listed, PartNames
<1> QED
  BY <1>3

LEMMA ConfigIsSound == \E T : ViewIsSound(ConfigView, T)
<1> DEFINE settings == Request("settings", {})
           toggle == Answered("settings")
<1>1. /\ Is(settings, "settings", {}, {}, FALSE, {}, {}, "nothing")
      /\ Is(toggle, "settings", {}, {}, TRUE, {}, {"settings"}, "answer")
  BY DEF Is, Request, Abortable, Change, Local, Answered
<1>2. HasSteps(ConfigView, {settings}, {}, {}, {}, {}, {toggle})
  BY DEF ConfigView, View, HasSteps
<1> HIDE DEF settings, toggle
<1> DEFINE T == {settings, toggle}
<1>3. ViewIsSound(ConfigView, T)
  BY <1>1, <1>2, SMT DEF Is, HasSteps, ViewIsSound, FetchIsSound, ChangeIsSound, Together, SiteCovers,
     SearchCovers, Covers, Reaches, Listed, PartNames
<1> QED
  BY <1>3

LEMMA LogsIsSound == \E T : ViewIsSound(LogsView, T)
<1> DEFINE list == Request("list", {"search"})
<1>1. Is(list, "list", {"search"}, {}, FALSE, {}, {}, "nothing")
  BY DEF Is, Request, Abortable, Change, Local, Answered
<1>2. HasSteps(LogsView, {list}, {}, {list}, {}, {}, {})
  BY DEF LogsView, View, HasSteps
<1> HIDE DEF list
<1> DEFINE T == {list}
<1>3. ViewIsSound(LogsView, T)
  BY <1>1, <1>2, SMT DEF Is, HasSteps, ViewIsSound, FetchIsSound, ChangeIsSound, Together, SiteCovers,
     SearchCovers, Covers, Reaches, Listed, PartNames
<1> QED
  BY <1>3

LEMMA IpMetaIsSound == \E T : ViewIsSound(IpMetaView, T)
<1> DEFINE meta == Request("meta", {})
           uptime == Request("uptime", {})
           entry == [Request("entry", {}) EXCEPT !.throws = TRUE, !.then = {meta, uptime}]
           mark == Local("meta")
<1>1. /\ Is(meta, "meta", {}, {}, FALSE, {}, {}, "nothing")
      /\ Is(uptime, "uptime", {}, {}, FALSE, {}, {}, "nothing")
      /\ Is(entry, "entry", {}, {}, TRUE, {meta, uptime}, {}, "nothing")
      /\ Is(mark, "meta", {}, {}, TRUE, {}, {"meta"}, "change")
  BY DEF Is, Request, Abortable, Change, Local, Answered
<1>2. HasSteps(IpMetaView, {entry}, {}, {}, {}, {}, {mark})
  BY DEF IpMetaView, View, HasSteps
<1> HIDE DEF meta, uptime, entry, mark
<1> DEFINE T == {meta, uptime, entry, mark}
<1>3. ViewIsSound(IpMetaView, T)
  BY <1>1, <1>2, SMT DEF Is, HasSteps, ViewIsSound, FetchIsSound, ChangeIsSound, Together, SiteCovers,
     SearchCovers, Covers, Reaches, Listed, PartNames
<1> QED
  BY <1>3

LEMMA IpPdsuIsSound == \E T : ViewIsSound(IpPdsuView, T)
<1> DEFINE items == Request("items", {})
           ignored == Request("exceptions", {})
           entry == [Request("entry", {}) EXCEPT !.throws = TRUE, !.then = {items, ignored}]
           itemsFirst == [items EXCEPT !.then = {ignored}]
           ignoredFirst == [ignored EXCEPT !.then = {items}]
           add == Change({"items", "exceptions"}, {itemsFirst})
           remove == Change({"items", "exceptions"}, {ignoredFirst})
           clear == Answered("items")
<1>1. /\ Is(items, "items", {}, {}, FALSE, {}, {}, "nothing")
      /\ Is(ignored, "exceptions", {}, {}, FALSE, {}, {}, "nothing")
      /\ Is(entry, "entry", {}, {}, TRUE, {items, ignored}, {}, "nothing")
      /\ Is(itemsFirst, "items", {}, {}, FALSE, {ignored}, {}, "nothing")
      /\ Is(ignoredFirst, "exceptions", {}, {}, FALSE, {items}, {}, "nothing")
      /\ Is(add, "change", {}, {}, TRUE, {itemsFirst}, {"items", "exceptions"}, "nothing")
      /\ Is(remove, "change", {}, {}, TRUE, {ignoredFirst}, {"items", "exceptions"}, "nothing")
      /\ Is(clear, "items", {}, {}, TRUE, {}, {"items"}, "answer")
  BY DEF Is, Request, Abortable, Change, Local, Answered
<1>2. HasSteps(IpPdsuView, {entry}, {}, {}, {}, {}, {add, remove, clear})
  BY DEF IpPdsuView, View, HasSteps
<1> HIDE DEF items, ignored, entry, itemsFirst, ignoredFirst, add, remove, clear
<1> DEFINE T == {items, ignored, entry, itemsFirst, ignoredFirst, add, remove, clear}
<1>3. ViewIsSound(IpPdsuView, T)
  BY <1>1, <1>2, SMT DEF Is, HasSteps, ViewIsSound, FetchIsSound, ChangeIsSound, Together, SiteCovers,
     SearchCovers, Covers, Reaches, Listed, PartNames
<1> QED
  BY <1>3

\* Every view is sound.
LEMMA ViewsAreSound == ASSUME opened \in DOMAIN Views PROVE \E T : ViewIsSound(Shown, T)
<1>1. /\ ComputersWithoutAgentView = ProcessDetectionsView
      /\ DuplicateNamesView = FreeIpAddressesView
      /\ DeploymentGroupsView = GroupsView
      /\ DownloadsFolderView = GroupsView
      /\ BatchJobsView = LogsView
  BY DEF BatchJobsView, ComputersWithoutAgentView, DeploymentGroupsView, DownloadsFolderView,
     DuplicateNamesView, FreeIpAddressesView, GroupsView, LogsView, ProcessDetectionsView
<1>2. Shown \in {ProcessDetectionsView, ComputersWithoutAgentView, ComputersForRepackView,
                 DnsLogsView, PrintersView, InventoryView, HomeView, RepackRecommendationsView,
                 FreeIpAddressesView, DuplicateNamesView, ReportsView, PDSUAnalyticsView,
                 MetadataView, ServerHealthView, AgentReleasesView, UsersView, GroupsView,
                 DeploymentGroupsView, DownloadsFolderView, ConfigView, LogsView, BatchJobsView,
                 IpMetaView, IpPdsuView}
  BY DEF Shown, Views
<1> QED
  BY <1>1, <1>2, DetectionsIsSound, RepackIsSound, DnsIsSound, PrintersIsSound, InventoryIsSound,
     HomeIsSound, RecommendationsIsSound, FreeIsSound, ReportsIsSound, AnalyticsIsSound,
     MetadataIsSound, HealthIsSound, ReleasesIsSound, UsersIsSound, GroupsIsSound, ConfigIsSound,
     LogsIsSound, IpMetaIsSound, IpPdsuIsSound

-----------------------------------------------------------------------------
\* A request is sent by a step.
SameStep(x, y) ==
  /\ x.of = y.of /\ x.takes = y.takes /\ x.aborts = y.aborts /\ x.throws = y.throws
  /\ x.then = y.then /\ x.affects = y.affects /\ x.keeps = y.keeps
RequestFields ==
  {"of", "takes", "aborts", "throws", "then", "affects", "keeps", "number", "asked", "served",
   "seen", "aborted"}
IsRequest(r) ==
  r = [f \in RequestFields |-> r[f]] /\ r.served \in BOOLEAN /\ r.aborted \in BOOLEAN
RequestsAreSteps(rs, T) ==
  \A r \in rs : /\ IsRequest(r) /\ DOMAIN r.asked = r.takes /\ (r.throws => ~r.aborted)
                /\ \E s \in T : SameStep(r, s)

ForChoice(asked, q) == \A f \in DOMAIN asked : asked[f] = Ref(f, q)

\* The requests rs will bring part p up to date, or it is.
OneLive(rs, p) ==
  \A r, q \in rs : r.of = p /\ q.of = p /\ ~r.aborted /\ ~q.aborted => r = q
IsAsked(rs, h, q, p) ==
  \E r \in rs : /\ r.of = p /\ r.affects = {} /\ ~r.aborted /\ ForChoice(r.asked, q)
                /\ r.served /\ p \in DOMAIN h => r.seen = h[p]
WillBeAsked(rs, p) ==
  \E r \in rs : Reaches(r, p) /\ (r.affects = {} \/ (r.served /\ p \in r.affects))
Changing(rs, p) == {r \in rs : r.of = p /\ r.affects # {} /\ r.served}
IsShown(rs, ps, h, q, p) ==
  /\ \A r \in rs : r.of = p => r.aborted \/ r.affects # {}
  /\ p \in DOMAIN h => \A r \in Changing(rs, p) : r.seen = h[p]
  /\ p \in DOMAIN ps =>
       /\ ForChoice(ps[p].asked, q)
       /\ p \in DOMAIN h =>
            IF Changing(rs, p) = {} THEN ps[p].has = h[p] ELSE ps[p].has + 1 = h[p]
NotSearched(q, waits, p) == p = "results" /\ (waits \/ q.search = NoSearch)
PartInStep(rs, ps, h, q, waits, p) ==
  \/ IsAsked(rs, h, q, p) \/ WillBeAsked(rs, p) \/ IsShown(rs, ps, h, q, p)
  \/ NotSearched(q, waits, p)

PartsAreSteps(ps, T) ==
  /\ DOMAIN ps \subseteq PartNames /\ ps = [p \in DOMAIN ps |-> ps[p]]
  /\ \A p \in DOMAIN ps : /\ ps[p] = [f \in {"asked", "has"} |-> ps[p][f]]
                          /\ \E s \in T : s.of = p /\ DOMAIN ps[p].asked = s.takes
ViewInv(T) ==
  /\ RequestsAreSteps(requests, T) /\ PartsAreSteps(parts, T) /\ DOMAIN has = Changeable
  /\ timer \in BOOLEAN /\ (timer => Shown.later # {})
  /\ \A p \in PartNames \ muddled :
       OneLive(requests, p) /\ PartInStep(requests, parts, has, Query, timer, p)

-----------------------------------------------------------------------------
(* What sending does.                                                      *)

Aborting(steps) == UNION {s.aborts : s \in steps}

LEMMA AbortedCopy ==
  ASSUME NEW r, IsRequest(r)
  PROVE  LET x == [r EXCEPT !.aborted = TRUE] IN
         /\ IsRequest(x) /\ SameStep(x, r) /\ x.asked = r.asked /\ x.served = r.served
         /\ x.seen = r.seen /\ x.aborted
  BY DEF IsRequest, RequestFields, SameStep

\* A request that is there before comes from one that is there afterwards, and the other way round.
Copy(x, r) ==
  /\ SameStep(x, r) /\ x.asked = r.asked /\ x.served = r.served /\ x.seen = r.seen
  /\ r.aborted => x.aborted

LEMMA AbortedAre ==
  ASSUME NEW rs, NEW T, RequestsAreSteps(rs, T), NEW steps
  PROVE  /\ \A x \in Aborted(rs, steps) :
              IsRequest(x) /\ \E r \in rs : /\ Copy(x, r) /\ (r.of \notin Aborting(steps) => x = r)
                                            /\ (r.of \in Aborting(steps) => x.aborted)
         /\ \A r \in rs : \E x \in Aborted(rs, steps) : Copy(x, r)
         /\ \A r \in rs : r.of \notin Aborting(steps) => r \in Aborted(rs, steps)
<1> DEFINE Ab(q) == IF q.of \in Aborting(steps) THEN [q EXCEPT !.aborted = TRUE] ELSE q
<1>1. Aborted(rs, steps) = {Ab(q) : q \in rs}
  BY DEF Aborted, Aborting
<1>2. ASSUME NEW r \in rs
      PROVE  /\ IsRequest(Ab(r)) /\ Copy(Ab(r), r) /\ (r.of \notin Aborting(steps) => Ab(r) = r)
             /\ (r.of \in Aborting(steps) => Ab(r).aborted)
  <2>1. IsRequest(r)
    BY DEF RequestsAreSteps
  <2>2. CASE r.of \in Aborting(steps)
    BY <2>1, <2>2, AbortedCopy DEF Copy
  <2>3. CASE r.of \notin Aborting(steps)
    BY <2>1, <2>3 DEF Copy, SameStep
  <2> QED
    BY <2>2, <2>3
<1> HIDE DEF Ab
<1> QED
  BY <1>1, <1>2

LEMMA SentIs ==
  ASSUME NEW s, NEW q, NEW n
  PROVE  LET x == Sending(s, q, n) IN
         /\ IsRequest(x) /\ SameStep(x, s) /\ DOMAIN x.asked = x.takes /\ ForChoice(x.asked, q)
         /\ ~x.served /\ ~x.aborted
  BY DEF Sending, IsRequest, RequestFields, SameStep, Asked, ForChoice

\* Requests and those that are sent beside them.
WithSteps(rs, steps, q, n) == Aborted(rs, steps) \cup {Sending(s, q, n) : s \in steps}

LEMMA JoinedAre ==
  ASSUME NEW rs, NEW T, RequestsAreSteps(rs, T), NEW steps, NEW q, NEW n
  PROVE  /\ \A x \in WithSteps(rs, steps, q, n) :
              \/ IsRequest(x) /\ \E r \in rs : /\ Copy(x, r) /\ (r.of \notin Aborting(steps) => x = r)
                                               /\ (r.of \in Aborting(steps) => x.aborted)
              \/ \E s \in steps : x = Sending(s, q, n)
         /\ \A r \in rs : \E x \in WithSteps(rs, steps, q, n) : Copy(x, r)
         /\ \A r \in rs : r.of \notin Aborting(steps) => r \in WithSteps(rs, steps, q, n)
         /\ \A s \in steps : Sending(s, q, n) \in WithSteps(rs, steps, q, n)
<1> DEFINE A == Aborted(rs, steps)
           B == {Sending(s, q, n) : s \in steps}
<1>1. WithSteps(rs, steps, q, n) = A \cup B
  BY DEF WithSteps
<1>2. (\A x \in B : \E s \in steps : x = Sending(s, q, n)) /\ \A s \in steps : Sending(s, q, n) \in B
  OBVIOUS
<1>3. /\ \A x \in A : IsRequest(x) /\ \E r \in rs : /\ Copy(x, r) /\ (r.of \notin Aborting(steps) => x = r)
                                                    /\ (r.of \in Aborting(steps) => x.aborted)
      /\ \A r \in rs : \E x \in A : Copy(x, r)
      /\ \A r \in rs : r.of \notin Aborting(steps) => r \in A
  BY AbortedAre
<1> HIDE DEF A, B
<1> QED
  BY <1>1, <1>2, <1>3

\* Steps that one action takes.
Sendable(steps, T) == steps \subseteq T /\ \A s, t \in steps : s.of = t.of => s = t

LEMMA JoinedAreSteps ==
  ASSUME NEW v, NEW T, ViewIsSound(v, T), NEW rs, RequestsAreSteps(rs, T),
         NEW steps, steps \subseteq T, NEW q, NEW n
  PROVE  RequestsAreSteps(WithSteps(rs, steps, q, n), T)
<1> SUFFICES ASSUME NEW x \in WithSteps(rs, steps, q, n)
             PROVE  /\ IsRequest(x) /\ DOMAIN x.asked = x.takes /\ (x.throws => ~x.aborted)
                    /\ \E s \in T : SameStep(x, s)
  BY DEF RequestsAreSteps
<1>1. CASE \E s \in steps : x = Sending(s, q, n)
  BY <1>1, SentIs
<1>2. ASSUME IsRequest(x), NEW r \in rs, Copy(x, r), r.of \notin Aborting(steps) => x = r
      PROVE  /\ IsRequest(x) /\ DOMAIN x.asked = x.takes /\ (x.throws => ~x.aborted)
             /\ \E s \in T : SameStep(x, s)
  <2>1. PICK s \in T : SameStep(r, s)
    BY DEF RequestsAreSteps
  <2>2. SameStep(x, s) /\ DOMAIN x.asked = x.takes
    BY <1>2, <2>1 DEF RequestsAreSteps, SameStep, Copy
  <2>3. CASE r.of \in Aborting(steps)
    <3>1. PICK t \in steps : s.of \in t.aborts
      BY <2>1, <2>3 DEF Aborting, SameStep
    <3>2. ~s.throws
      BY <3>1 DEF ViewIsSound
    <3> QED
      BY <1>2, <2>2, <3>2 DEF SameStep
  <2>4. CASE r.of \notin Aborting(steps)
    BY <1>2, <2>2, <2>4 DEF RequestsAreSteps
  <2> QED
    BY <2>3, <2>4
<1> QED
  BY <1>1, <1>2, JoinedAre

\* A part that is fetched with nothing of it under way that goes on.
LEMMA FetchedIsInStep ==
  ASSUME NEW T, NEW rs, RequestsAreSteps(rs, T), NEW steps, Sendable(steps, T), NEW q, NEW n, NEW h,
         NEW s \in steps, s.affects = {}, s.of \in s.aborts \/ Live(rs, s.of) = {}
  PROVE  /\ OneLive(WithSteps(rs, steps, q, n), s.of)
         /\ IsAsked(WithSteps(rs, steps, q, n), h, q, s.of)
<1> DEFINE J == WithSteps(rs, steps, q, n)
<1>1. ASSUME NEW x \in J, x.of = s.of, ~x.aborted PROVE x = Sending(s, q, n)
  <2>1. CASE \E t \in steps : x = Sending(t, q, n)
    <3>1. PICK t \in steps : x = Sending(t, q, n)
      BY <2>1
    <3>2. t.of = s.of
      BY <1>1, <3>1, SentIs DEF SameStep
    <3> QED
      BY <3>1, <3>2 DEF Sendable
  <2>2. ASSUME NEW r \in rs, Copy(x, r), r.of \in Aborting(steps) => x.aborted PROVE FALSE
    <3>1. r.of = s.of /\ ~r.aborted
      BY <1>1, <2>2 DEF Copy, SameStep
    <3>2. Live(rs, s.of) # {}
      BY <3>1 DEF Live
    <3>3. r.of \in Aborting(steps)
      BY <3>1, <3>2 DEF Aborting
    <3> QED
      BY <1>1, <2>2, <3>3
  <2> QED
    BY <2>1, <2>2, JoinedAre
<1>2. Sending(s, q, n) \in J
  BY JoinedAre
<1>3. OneLive(J, s.of)
  BY <1>1 DEF OneLive
<1>4. IsAsked(J, h, q, s.of)
  BY <1>2, SentIs DEF IsAsked, SameStep
<1> QED
  BY <1>3, <1>4

\* A part that is not fetched, and on which a change is repeated only with nothing of it under way.
LEMMA OthersStayInStep ==
  ASSUME NEW v, NEW T, ViewIsSound(v, T), NEW rs, RequestsAreSteps(rs, T), NEW steps, Sendable(steps, T),
         NEW q, NEW n, NEW h, NEW ps, NEW waits, NEW p \in PartNames,
         \A s \in steps : s.of = p => s.affects # {} /\ Live(rs, p) = {},
         OneLive(rs, p), PartInStep(rs, ps, h, q, waits, p) \/ Covers(steps, p)
  PROVE  /\ OneLive(WithSteps(rs, steps, q, n), p)
         /\ PartInStep(WithSteps(rs, steps, q, n), ps, h, q, waits, p)
<1> DEFINE J == WithSteps(rs, steps, q, n)
<1>0. ASSUME NEW s \in steps PROVE s \in T /\ (FetchIsSound(s) \/ ChangeIsSound(s))
  BY DEF Sendable, ViewIsSound
<1>1. ASSUME NEW x \in J, NEW y \in J, x.of = p, y.of = p, ~x.aborted, ~y.aborted PROVE x = y
  <2>1. CASE \E s \in steps : s.of = p
    <3>1. ASSUME NEW z \in J, z.of = p, ~z.aborted PROVE \E s \in steps : z = Sending(s, q, n)
      <4>1. ASSUME NEW r \in rs, Copy(z, r) PROVE FALSE
        <5>1. r \in Live(rs, p)
          BY <3>1, <4>1 DEF Live, Copy, SameStep
        <5> QED
          BY <2>1, <5>1
      <4> QED
        BY <4>1, JoinedAre
    <3>2. PICK s \in steps, t \in steps : x = Sending(s, q, n) /\ y = Sending(t, q, n)
      BY <1>1, <3>1
    <3>3. s.of = p /\ t.of = p
      BY <1>1, <3>2, SentIs DEF SameStep
    <3> QED
      BY <3>2, <3>3 DEF Sendable
  <2>2. CASE \A s \in steps : s.of # p
    <3>1. ASSUME NEW z \in J, z.of = p, ~z.aborted PROVE z \in rs
      <4>1. ASSUME NEW s \in steps, z = Sending(s, q, n) PROVE FALSE
        BY <2>2, <3>1, <4>1, SentIs DEF SameStep
      <4>2. PICK r \in rs : /\ Copy(z, r) /\ (r.of \notin Aborting(steps) => z = r)
                            /\ (r.of \in Aborting(steps) => z.aborted)
        BY <4>1, JoinedAre
      <4> QED
        BY <3>1, <4>2
    <3> QED
      BY <1>1, <3>1 DEF OneLive
  <2> QED
    BY <2>1, <2>2
<1>2. OneLive(J, p)
  BY <1>1 DEF OneLive
\* An abort of the part comes with a request that leads to it.
<1>3. ASSUME NEW t \in steps, t.affects = {}, Reaches(t, p) PROVE WillBeAsked(J, p)
  <2>1. Sending(t, q, n) \in J
    BY JoinedAre
  <2>2. SameStep(Sending(t, q, n), t)
    BY SentIs
  <2> QED
    BY <1>3, <2>1, <2>2 DEF WillBeAsked, Reaches, SameStep
<1>4. CASE Covers(steps, p)
  BY <1>2, <1>3, <1>4 DEF Covers, PartInStep
<1>5. CASE p \in Aborting(steps)
  <2>1. PICK t \in steps : p \in t.aborts
    BY <1>5 DEF Aborting
  <2>2. FetchIsSound(t)
    BY <1>0, <2>1 DEF ChangeIsSound
  <2> QED
    BY <1>2, <1>3, <2>1, <2>2 DEF FetchIsSound, PartInStep
<1>6. CASE IsAsked(rs, h, q, p) /\ p \notin Aborting(steps)
  <2>1. PICK r \in rs : /\ r.of = p /\ r.affects = {} /\ ~r.aborted /\ ForChoice(r.asked, q)
                        /\ r.served /\ p \in DOMAIN h => r.seen = h[p]
    BY <1>6 DEF IsAsked
  <2>2. r \in J
    BY <1>6, <2>1, JoinedAre
  <2> QED
    BY <1>2, <2>1, <2>2 DEF IsAsked, PartInStep
<1>7. CASE WillBeAsked(rs, p)
  <2>1. PICK r \in rs : Reaches(r, p) /\ (r.affects = {} \/ (r.served /\ p \in r.affects))
    BY <1>7 DEF WillBeAsked
  <2>2. PICK x \in J : Copy(x, r)
    BY JoinedAre
  <2> QED
    BY <1>2, <2>1, <2>2 DEF WillBeAsked, PartInStep, Reaches, Copy, SameStep
<1>8. CASE IsShown(rs, ps, h, q, p) /\ p \notin Aborting(steps)
  <2>1. ASSUME NEW x \in J, x.of = p PROVE x.aborted \/ x.affects # {}
    <3>1. CASE \E s \in steps : x = Sending(s, q, n)
      <4>1. PICK s \in steps : x = Sending(s, q, n)
        BY <3>1
      <4>2. SameStep(x, s)
        BY <4>1, SentIs
      <4> QED
        BY <2>1, <4>2 DEF SameStep
    <3>2. ASSUME NEW r \in rs, Copy(x, r) PROVE x.aborted \/ x.affects # {}
      BY <1>8, <2>1, <3>2 DEF IsShown, Copy, SameStep
    <3> QED
      BY <3>1, <3>2, JoinedAre
  <2>2. Changing(J, p) = Changing(rs, p)
    <3>1. ASSUME NEW x \in J, x.of = p, x.served PROVE x \in rs
      <4>1. ASSUME NEW s \in steps, x = Sending(s, q, n) PROVE FALSE
        BY <3>1, <4>1, SentIs
      <4>2. PICK r \in rs : Copy(x, r) /\ (r.of \notin Aborting(steps) => x = r)
        BY <4>1, JoinedAre
      <4> QED
        BY <1>8, <3>1, <4>2 DEF Copy, SameStep
    <3>2. ASSUME NEW r \in rs, r.of = p PROVE r \in J
      BY <1>8, <3>2, JoinedAre
    <3> QED
      BY <3>1, <3>2 DEF Changing
  <2> QED
    BY <1>2, <1>8, <2>1, <2>2 DEF PartInStep, IsShown
<1>9. CASE NotSearched(q, waits, p)
  BY <1>2, <1>9 DEF PartInStep
<1> QED
  BY <1>2, <1>4, <1>5, <1>6, <1>7, <1>8, <1>9 DEF PartInStep

\* What SendAll keeps: the parts that were in step or are covered by what is sent.
LEMMA SendKeeps ==
  ASSUME NEW T, ViewIsSound(Shown, T), NEW rs, RequestsAreSteps(rs, T), NEW steps, Sendable(steps, T),
         NEW before, SendAll(rs, steps, before),
         \A p \in PartNames \ before :
            OneLive(rs, p) /\ (PartInStep(rs, parts', has', Query', timer', p) \/ Covers(steps, p))
  PROVE  /\ RequestsAreSteps(requests', T)
         /\ \A p \in PartNames \ muddled' :
              OneLive(requests', p) /\ PartInStep(requests', parts', has', Query', timer', p)
<1>1. PICK n : requests' = WithSteps(rs, steps, Query', n)
  BY DEF SendAll, Beside, WithSteps
<1>2. RequestsAreSteps(requests', T)
  BY <1>1, JoinedAreSteps DEF Sendable
<1>3. ASSUME NEW p \in PartNames, p \notin muddled'
      PROVE  OneLive(requests', p) /\ PartInStep(requests', parts', has', Query', timer', p)
  <2>0. /\ p \in before => \E s \in steps : s.affects = {} /\ s.of = p
        /\ \A s \in steps : s.of = p => s.of \in s.aborts \cup {"change"} \/ Live(rs, p) = {}
    BY <1>3 DEF SendAll
  <2>1. p # "change"
    BY DEF PartNames
  <2>2. CASE \E s \in steps : s.affects = {} /\ s.of = p
    <3>1. PICK s \in steps : s.affects = {} /\ s.of = p
      BY <2>2
    <3> QED
      BY <1>1, <2>0, <2>1, <3>1, FetchedIsInStep DEF PartInStep
  <2>3. CASE \A s \in steps : s.of = p => s.affects # {}
    <3>1. \A s \in steps : s.of = p => Live(rs, p) = {}
      BY <2>0, <2>1, <2>3 DEF Sendable, ViewIsSound, FetchIsSound, ChangeIsSound
    <3>2. OneLive(rs, p) /\ (PartInStep(rs, parts', has', Query', timer', p) \/ Covers(steps, p))
      BY <2>0, <2>3
    <3> QED
      BY <1>1, <2>3, <3>1, <3>2, OthersStayInStep
  <2> QED
    BY <2>2, <2>3
<1> QED
  BY <1>2, <1>3

-----------------------------------------------------------------------------
(* The actions.                                                            *)

\* What is the same before and after every step.
LEMMA SameView ==
  ASSUME NEW T, ViewIsSound(Shown, T), UNCHANGED opened
  PROVE  ViewIsSound(Shown, T)' /\ Shown' = Shown /\ Changeable' = Changeable
  BY DEF Shown, Changeable, Views

LEMMA FewerAreSteps ==
  ASSUME NEW T, NEW rs, RequestsAreSteps(rs, T), NEW r
  PROVE  RequestsAreSteps(rs \ {r}, T)
  BY DEF RequestsAreSteps

LEMMA ReachesOn ==
  ASSUME NEW T, NEW v, ViewIsSound(v, T), NEW s \in T, NEW p, Reaches(s, p)
  PROVE  Covers(s.then, p)
  BY DEF Reaches, Covers, ViewIsSound, Together

\* What a request is by its step.
LEMMA RequestIsSound ==
  ASSUME NEW v, NEW T, ViewIsSound(v, T), NEW rs, RequestsAreSteps(rs, T), NEW r \in rs
  PROVE  /\ Sendable(r.then, T) /\ Sendable({}, T)
         /\ r.affects = {} => r.of \in PartNames
         /\ r.affects # {} => \/ r.of \notin PartNames /\ r.keeps = "nothing" /\ \A p \in r.affects : Reaches(r, p)
                              \/ /\ r.of \in PartNames /\ r.keeps \in {"change", "answer"} /\ r.affects = {r.of}
                                 /\ r.then = {} /\ r.takes = {} /\ r.throws /\ ~r.aborted
         /\ \A p : Reaches(r, p) => Covers(r.then, p)
<1>1. PICK s \in T : SameStep(r, s)
  BY DEF RequestsAreSteps
<1>2. r.throws => ~r.aborted
  BY DEF RequestsAreSteps
<1>3. s.then \subseteq T /\ Together(s.then) /\ (FetchIsSound(s) \/ ChangeIsSound(s))
  BY DEF ViewIsSound
<1>4. Sendable(r.then, T) /\ Sendable({}, T)
  BY <1>1, <1>3 DEF SameStep, Sendable, Together
<1>5. r.affects = {} => r.of \in PartNames
  BY <1>1, <1>3 DEF SameStep, FetchIsSound, ChangeIsSound
<1>6. r.affects # {} => \/ r.of \notin PartNames /\ r.keeps = "nothing" /\ \A p \in r.affects : Reaches(r, p)
                        \/ /\ r.of \in PartNames /\ r.keeps \in {"change", "answer"} /\ r.affects = {r.of}
                           /\ r.then = {} /\ r.takes = {} /\ r.throws /\ ~r.aborted
  <2>1. "change" \notin PartNames
    BY DEF PartNames
  <2> QED
    BY <1>1, <1>2, <1>3, <2>1 DEF SameStep, FetchIsSound, ChangeIsSound, Reaches
<1>7. \A p : Reaches(r, p) => Covers(r.then, p)
  BY <1>1, <1>3 DEF SameStep, Reaches, Covers, Together
<1> QED
  BY <1>4, <1>5, <1>6, <1>7

\* A request that does not bring a part up to date may go.
LEMMA OneLess ==
  ASSUME NEW rs, NEW r \in rs, NEW ps, NEW h, NEW q, NEW waits, NEW p,
         OneLive(rs, p), PartInStep(rs, ps, h, q, waits, p),
         ~(r.of = p /\ r.affects = {} /\ ~r.aborted), r \notin Changing(rs, p),
         ~(Reaches(r, p) /\ (r.affects = {} \/ (r.served /\ p \in r.affects)))
  PROVE  OneLive(rs \ {r}, p) /\ PartInStep(rs \ {r}, ps, h, q, waits, p)
<1>1. OneLive(rs \ {r}, p)
  BY DEF OneLive
<1>2. CASE IsAsked(rs, h, q, p)
  BY <1>1, <1>2 DEF IsAsked, PartInStep
<1>3. CASE WillBeAsked(rs, p)
  BY <1>1, <1>3 DEF WillBeAsked, PartInStep
<1>4. CASE IsShown(rs, ps, h, q, p)
  <2>1. Changing(rs \ {r}, p) = Changing(rs, p)
    BY DEF Changing
  <2> QED
    BY <1>1, <1>4, <2>1 DEF IsShown, PartInStep
<1>5. CASE NotSearched(q, waits, p)
  BY <1>1, <1>5 DEF PartInStep
<1> QED
  BY <1>2, <1>3, <1>4, <1>5 DEF PartInStep

\* Steps that send.
LEMMA SendStep ==
  ASSUME NEW T, ViewIsSound(Shown, T), ViewInv(T), UNCHANGED <<opened, has>>, PartsAreSteps(parts', T),
         timer' \in BOOLEAN, timer' => Shown.later # {},
         NEW rs, RequestsAreSteps(rs, T), NEW steps, Sendable(steps, T), NEW before, SendAll(rs, steps, before),
         \A p \in PartNames \ before :
            OneLive(rs, p) /\ (PartInStep(rs, parts', has', Query', timer', p) \/ Covers(steps, p))
  PROVE  ViewInv(T)'
<1>1. /\ RequestsAreSteps(requests', T)
      /\ \A p \in PartNames \ muddled' :
           OneLive(requests', p) /\ PartInStep(requests', parts', has', Query', timer', p)
  BY SendKeeps
<1>2. Shown' = Shown /\ Changeable' = Changeable
  BY SameView
<1> QED
  BY <1>1, <1>2 DEF ViewInv

LEMMA PollStep == ASSUME NEW T, ViewIsSound(Shown, T), ViewInv(T), Poll PROVE ViewInv(T)'
<1>1. Sendable(Shown.polls, T)
  BY DEF ViewIsSound, Sendable, Together
<1>2. Query' = Query
  BY DEF Poll, Query
<1> QED
  BY <1>1, <1>2, SendStep DEF Poll, ViewInv

LEMMA ActStep ==
  ASSUME NEW T, ViewIsSound(Shown, T), ViewInv(T), NEW c \in Shown.changes, Act(c) PROVE ViewInv(T)'
<1>1. Sendable({c}, T)
  BY DEF ViewIsSound, Sendable
<1>2. Query' = Query
  BY DEF Act, Query
<1> QED
  BY <1>1, <1>2, SendStep DEF Act, ViewInv

LEMMA AbortErrorStep ==
  ASSUME NEW T, ViewIsSound(Shown, T), ViewInv(T), NEW r \in requests, AbortError(r) PROVE ViewInv(T)'
<1>1. RequestsAreSteps(requests, T) /\ ~r.throws /\ AfterFailure(r) = r.then /\ Query' = Query
  BY DEF ViewInv, AbortError, RequestsAreSteps, AfterFailure, Query
<1>2. Sendable(r.then, T) /\ RequestsAreSteps(requests \ {r}, T)
  BY <1>1, RequestIsSound, FewerAreSteps
<1>3. ASSUME NEW p \in PartNames \ muddled
      PROVE  /\ OneLive(requests \ {r}, p)
             /\ PartInStep(requests \ {r}, parts', has', Query', timer', p) \/ Covers(r.then, p)
  <2>1. OneLive(requests, p) /\ PartInStep(requests, parts, has, Query, timer, p)
    BY DEF ViewInv
  <2>2. CASE Reaches(r, p)
    BY <1>1, <2>1, <2>2, RequestIsSound DEF OneLive
  <2>3. CASE ~Reaches(r, p)
    <3>1. r \notin Changing(requests, p)
      BY <1>1, RequestIsSound DEF AbortError, Changing
    <3> QED
      BY <1>1, <2>1, <2>3, <3>1, OneLess DEF AbortError
  <2> QED
    BY <2>2, <2>3
<1> QED
  BY <1>1, <1>2, <1>3, SendStep DEF AbortError, ViewInv

LEMMA FailStep ==
  ASSUME NEW T, ViewIsSound(Shown, T), ViewInv(T), NEW r \in requests, Fail(r) PROVE ViewInv(T)'
<1> DEFINE before == muddled \cup (IF r.affects # {} THEN (IF r.served THEN r.affects ELSE {})
                                   ELSE IF r.throws THEN PartNames ELSE {r.of})
<1>1. RequestsAreSteps(requests, T) /\ ~r.aborted /\ Query' = Query
  BY DEF ViewInv, Fail, Query
<1>2. Sendable(AfterFailure(r), T) /\ RequestsAreSteps(requests \ {r}, T)
  BY <1>1, RequestIsSound, FewerAreSteps DEF AfterFailure
<1>3. ASSUME NEW p \in PartNames \ before
      PROVE  /\ OneLive(requests \ {r}, p)
             /\ PartInStep(requests \ {r}, parts', has', Query', timer', p) \/ Covers(AfterFailure(r), p)
  <2>1. OneLive(requests, p) /\ PartInStep(requests, parts, has, Query, timer, p)
    BY DEF ViewInv
  <2>2. CASE r.affects = {} /\ Reaches(r, p)
    <3>1. ~r.throws
      BY <2>2
    <3> QED
      BY <1>1, <2>1, <2>2, <3>1, RequestIsSound DEF OneLive, AfterFailure
  <2>3. CASE ~(r.affects = {} /\ Reaches(r, p))
    <3>1. r \notin Changing(requests, p)
      BY <1>1, RequestIsSound DEF Changing
    <3>2. ~(Reaches(r, p) /\ (r.affects = {} \/ (r.served /\ p \in r.affects)))
      BY <2>3
    <3>3. ~(r.of = p /\ r.affects = {} /\ ~r.aborted)
      OBVIOUS
    <3> QED
      BY <1>1, <2>1, <3>1, <3>2, <3>3, OneLess DEF Fail
  <2> QED
    BY <2>2, <2>3
<1>4. SendAll(requests \ {r}, AfterFailure(r), before)
  BY DEF Fail
<1> HIDE DEF before
<1> QED
  BY <1>1, <1>2, <1>3, <1>4, SendStep DEF Fail, ViewInv

\* A choice of the user: every part is asked for again unless what it was asked for is the same.
LEMMA ChoiceKeeps ==
  ASSUME NEW rs, NEW ps, NEW h, NEW q, NEW other, NEW waits, NEW later, NEW p, NEW steps,
         OneLive(rs, p), PartInStep(rs, ps, h, q, waits, p),
         ~NotSearched(q, waits, p) \/ NotSearched(other, later, p),
         \A asked : ~ForChoice(asked, q) \/ ForChoice(asked, other) \/ Covers(steps, p) \/ NotSearched(other, later, p)
                    \/ ~(\/ \E r \in rs : r.of = p /\ r.affects = {} /\ asked = r.asked
                         \/ p \in DOMAIN ps /\ asked = ps[p].asked)
  PROVE  OneLive(rs, p) /\ (PartInStep(rs, ps, h, other, later, p) \/ Covers(steps, p))
<1>1. CASE IsAsked(rs, h, q, p)
  BY <1>1 DEF IsAsked, PartInStep
<1>2. CASE WillBeAsked(rs, p)
  BY <1>2 DEF PartInStep
<1>3. CASE IsShown(rs, ps, h, q, p)
  BY <1>3 DEF IsShown, PartInStep
<1>4. CASE NotSearched(q, waits, p)
  BY <1>4 DEF PartInStep
<1> QED
  BY <1>1, <1>2, <1>3, <1>4 DEF PartInStep

\* What a part was asked for with.
LEMMA AskedBySteps ==
  ASSUME NEW T, ViewIsSound(Shown, T), ViewInv(T), NEW p, NEW asked,
         \/ \E r \in requests : r.of = p /\ r.affects = {} /\ asked = r.asked
         \/ p \in DOMAIN parts /\ asked = parts[p].asked
  PROVE  \/ DOMAIN asked = {}
         \/ p = "results" /\ Shown.later # {}
         \/ /\ "site" \in DOMAIN asked =>
                 \E t \in Shown.onSite : /\ "report" \notin t.takes /\ t.affects = {}
                                         /\ t.of = p \/ Reaches(t, p)
            /\ "report" \in DOMAIN asked => Covers(Shown.onSite, p)
            /\ DOMAIN asked \ {"site"} # {} => Covers(Shown.onSearch, p)
<1>1. PICK s \in T : s.of = p /\ DOMAIN asked = s.takes
  <2>1. CASE \E r \in requests : r.of = p /\ r.affects = {} /\ asked = r.asked
    BY <2>1 DEF ViewInv, RequestsAreSteps, SameStep
  <2>2. CASE p \in DOMAIN parts /\ asked = parts[p].asked
    BY <2>2 DEF ViewInv, PartsAreSteps
  <2> QED
    BY <2>1, <2>2
<1>2. CASE s.affects # {}
  BY <1>1, <1>2 DEF ViewIsSound, FetchIsSound, ChangeIsSound
<1>3. CASE s.affects = {} /\ p = "results"
  BY <1>1, <1>3 DEF ViewIsSound
<1>4. CASE s.affects = {} /\ p # "results"
  BY <1>1, <1>4 DEF ViewIsSound, SiteCovers, SearchCovers
<1> QED
  BY <1>2, <1>3, <1>4

LEMMA ChangeSiteStep ==
  ASSUME NEW T, ViewIsSound(Shown, T), ViewInv(T), NEW new, ChangeSite(new) PROVE ViewInv(T)'
<1>1. Sendable(OnSite, T)
  BY DEF OnSite, ViewIsSound, Sendable, Together
<1>2. Query'.search = search /\ Query.search = search /\ Query'.site = new
  BY DEF ChangeSite, Query
<1>3. timer' \in BOOLEAN /\ (timer => timer') /\ (timer' => Shown.later # {}) /\ (Shown.later # {} => timer')
  BY DEF ChangeSite, ViewInv
<1>4. ASSUME NEW p \in PartNames \ muddled
      PROVE  /\ OneLive(requests, p)
             /\ PartInStep(requests, parts', has', Query', timer', p) \/ Covers(OnSite, p)
  <2>1. OneLive(requests, p) /\ PartInStep(requests, parts, has, Query, timer, p)
    BY DEF ViewInv
  <2>2. ~NotSearched(Query, timer, p) \/ NotSearched(Query', timer', p)
    BY <1>2, <1>3 DEF NotSearched
  <2>3. ASSUME NEW asked, ForChoice(asked, Query),
               \/ \E r \in requests : r.of = p /\ r.affects = {} /\ asked = r.asked
               \/ p \in DOMAIN parts /\ asked = parts[p].asked
        PROVE  ForChoice(asked, Query') \/ Covers(OnSite, p) \/ NotSearched(Query', timer', p)
    <3>1. \A f : f # "site" /\ (f = "report" => search # NoSearch) => Ref(f, Query') = Ref(f, Query)
      BY <1>2 DEF Ref
    <3>2. CASE "site" \in DOMAIN asked \/ ("report" \in DOMAIN asked /\ search = NoSearch)
      <4>1. CASE p = "results" /\ Shown.later # {}
        BY <1>3, <4>1 DEF NotSearched
      <4>2. CASE /\ "site" \in DOMAIN asked =>
                      \E t \in Shown.onSite : /\ "report" \notin t.takes /\ t.affects = {}
                                              /\ t.of = p \/ Reaches(t, p)
                 /\ "report" \in DOMAIN asked => Covers(Shown.onSite, p)
        BY <3>2, <4>2 DEF OnSite, Covers
      <4> QED
        BY <2>3, <3>2, <4>1, <4>2, AskedBySteps
    <3>3. CASE ~("site" \in DOMAIN asked \/ ("report" \in DOMAIN asked /\ search = NoSearch))
      BY <2>3, <3>1, <3>3 DEF ForChoice
    <3> QED
      BY <3>2, <3>3
  <2> QED
    <3>1. PartInStep(requests, parts, has, Query', timer', p) \/ Covers(OnSite, p)
      BY <2>1, <2>2, <2>3, ChoiceKeeps
    <3> QED
      BY <2>1, <3>1 DEF ChangeSite
<1> QED
  BY <1>1, <1>3, <1>4, SendStep DEF ChangeSite, ViewInv

LEMMA ChangeSearchStep ==
  ASSUME NEW T, ViewIsSound(Shown, T), ViewInv(T), NEW new, ChangeSearch(new) PROVE ViewInv(T)'
<1>1. Sendable(Shown.onSearch, T)
  BY DEF ViewIsSound, Sendable, Together
<1>2. Query'.site = currentSite /\ Query.site = currentSite
  BY DEF ChangeSearch, Query
<1>3. timer' \in BOOLEAN /\ (timer => timer') /\ (timer' => Shown.later # {}) /\ (Shown.later # {} => timer')
  BY DEF ChangeSearch, ViewInv
<1>4. ASSUME NEW p \in PartNames \ muddled
      PROVE  /\ OneLive(requests, p)
             /\ PartInStep(requests, parts', has', Query', timer', p) \/ Covers(Shown.onSearch, p)
  <2>1. OneLive(requests, p) /\ PartInStep(requests, parts, has, Query, timer, p)
    BY DEF ViewInv
  <2>3. ASSUME NEW asked, ForChoice(asked, Query),
               \/ \E r \in requests : r.of = p /\ r.affects = {} /\ asked = r.asked
               \/ p \in DOMAIN parts /\ asked = parts[p].asked
        PROVE  ForChoice(asked, Query') \/ Covers(Shown.onSearch, p) \/ NotSearched(Query', timer', p)
    <3>1. Ref("site", Query') = Ref("site", Query)
      BY <1>2 DEF Ref
    <3>2. CASE DOMAIN asked \ {"site"} # {}
      <4>1. CASE p = "results" /\ Shown.later # {}
        BY <1>3, <4>1 DEF NotSearched
      <4> QED
        BY <2>3, <3>2, <4>1, AskedBySteps
    <3>3. CASE DOMAIN asked \ {"site"} = {}
      BY <2>3, <3>1, <3>3 DEF ForChoice
    <3> QED
      BY <3>2, <3>3
  \* Nothing has searched where there is no search.
  <2>4. CASE NotSearched(Query, timer, p) /\ Shown.later = {}
    <3>1. p = "results" /\ \A s \in T : s.of # p
      BY <2>4 DEF NotSearched, ViewIsSound
    <3>2. (\A r \in requests : r.of # p) /\ p \notin DOMAIN parts
      BY <3>1 DEF ViewInv, RequestsAreSteps, PartsAreSteps, SameStep
    <3>3. IsShown(requests, parts, has, Query', p)
      BY <3>2 DEF IsShown, Changing
    <3> QED
      BY <2>1, <3>3 DEF PartInStep, ChangeSearch
  <2>5. CASE ~(NotSearched(Query, timer, p) /\ Shown.later = {})
    <3>1. ~NotSearched(Query, timer, p) \/ NotSearched(Query', timer', p)
      BY <1>3, <2>5 DEF NotSearched
    <3> QED
      <4>1. PartInStep(requests, parts, has, Query', timer', p) \/ Covers(Shown.onSearch, p)
        BY <2>1, <2>3, <3>1, ChoiceKeeps
      <4> QED
        BY <2>1, <4>1 DEF ChangeSearch
  <2> QED
    BY <2>4, <2>5
<1> QED
  BY <1>1, <1>3, <1>4, SendStep DEF ChangeSearch, ViewInv

SamePart(ps, other, p) ==
  /\ p \in DOMAIN ps <=> p \in DOMAIN other
  /\ p \in DOMAIN ps => other[p] = ps[p]

LEMMA OtherPartsStay ==
  ASSUME NEW rs, NEW ps, NEW other, NEW h, NEW q, NEW waits, NEW p,
         PartInStep(rs, ps, h, q, waits, p), SamePart(ps, other, p)
  PROVE  PartInStep(rs, other, h, q, waits, p)
<1>1. CASE IsShown(rs, ps, h, q, p)
  BY <1>1 DEF IsShown, SamePart, PartInStep
<1> QED
  BY <1>1 DEF PartInStep

LEMMA RunSearchStep == ASSUME NEW T, ViewIsSound(Shown, T), ViewInv(T), RunSearch PROVE ViewInv(T)'
<1>1. Query' = Query /\ timer' = FALSE /\ timer /\ Shown.later # {}
  BY DEF RunSearch, Query, ViewInv
<1>2. ASSUME search = NoSearch PROVE ViewInv(T)'
  <2>1. UNCHANGED <<opened, has, requests, muddled>> /\ parts' = [p \in DOMAIN parts \ {"results"} |-> parts[p]]
    BY <1>2 DEF RunSearch
  <2>2. PartsAreSteps(parts', T)
    <3>1. PartsAreSteps(parts, T)
      BY DEF ViewInv
    <3>2. DOMAIN parts' = DOMAIN parts \ {"results"} /\ \A p \in DOMAIN parts' : parts'[p] = parts[p]
      BY <2>1
    <3>3. parts' = [p \in DOMAIN parts' |-> parts'[p]]
      BY <2>1
    <3> QED
      BY <3>1, <3>2, <3>3 DEF PartsAreSteps
  <2>3. ASSUME NEW p \in PartNames \ muddled
        PROVE  OneLive(requests, p) /\ PartInStep(requests, parts', has, Query, FALSE, p)
    <3>1. OneLive(requests, p) /\ PartInStep(requests, parts, has, Query, timer, p)
      BY DEF ViewInv
    <3>2. CASE p = "results"
      BY <1>2, <3>1, <3>2 DEF PartInStep, NotSearched, Query
    <3>3. CASE p # "results"
      <4>1. SamePart(parts, parts', p)
        BY <2>1, <3>3 DEF SamePart
      <4>2. PartInStep(requests, parts, has, Query, FALSE, p)
        BY <3>1, <3>3 DEF PartInStep, NotSearched
      <4> QED
        BY <3>1, <4>1, <4>2, OtherPartsStay
    <3> QED
      BY <3>2, <3>3
  <2>4. Shown' = Shown /\ Changeable' = Changeable
    BY <2>1, SameView
  <2> QED
    BY <1>1, <2>1, <2>2, <2>3, <2>4 DEF ViewInv
<1>3. ASSUME search # NoSearch PROVE ViewInv(T)'
  <2>1. SendAll(requests, Shown.later, muddled) /\ UNCHANGED <<opened, has, parts>>
    BY <1>3 DEF RunSearch
  <2>2. Sendable(Shown.later, T)
    BY DEF ViewIsSound, Sendable, Together
  <2>3. ASSUME NEW p \in PartNames \ muddled
        PROVE  /\ OneLive(requests, p)
               /\ PartInStep(requests, parts', has', Query', timer', p) \/ Covers(Shown.later, p)
    <3>1. OneLive(requests, p) /\ PartInStep(requests, parts, has, Query, timer, p)
      BY DEF ViewInv
    <3>2. CASE p = "results"
      BY <1>1, <3>1, <3>2 DEF ViewIsSound, Together, Covers
    <3>3. CASE p # "results"
      <4>1. PartInStep(requests, parts, has, Query, FALSE, p)
        BY <3>1, <3>3 DEF PartInStep, NotSearched
      <4> QED
        BY <1>1, <2>1, <3>1, <4>1
    <3> QED
      BY <3>2, <3>3
  <2>4. RequestsAreSteps(requests, T) /\ PartsAreSteps(parts', T)
    BY <2>1 DEF ViewInv
  <2> QED
    BY <1>1, <2>1, <2>2, <2>3, <2>4, SendStep
<1> QED
  BY <1>2, <1>3

-----------------------------------------------------------------------------
(* An answer.                                                              *)

LEMMA FilledIs ==
  ASSUME NEW T, ViewIsSound(Shown, T), ViewInv(T), NEW r \in requests
  PROVE  /\ PartsAreSteps(Filled(r), T)
         /\ \A p : p # r.of => SamePart(parts, Filled(r), p)
         /\ r.affects = {} \/ r.keeps = "answer" =>
              Filled(r)[r.of].asked = r.asked /\ Filled(r)[r.of].has = r.seen
         /\ r.affects # {} /\ r.keeps = "change" =>
              /\ r.of \in DOMAIN Filled(r) <=> r.of \in DOMAIN parts
              /\ r.of \in DOMAIN parts => /\ Filled(r)[r.of].asked = parts[r.of].asked
                                          /\ Filled(r)[r.of].has = parts[r.of].has + 1
<1>0. RequestsAreSteps(requests, T) /\ PartsAreSteps(parts, T)
  BY DEF ViewInv
<1>1. CASE r.affects = {} \/ r.keeps = "answer"
  <2> DEFINE new == [asked |-> r.asked, has |-> r.seen]
             F == [p \in DOMAIN parts \cup {r.of} |-> IF p = r.of THEN new ELSE parts[p]]
  <2>1. Filled(r) = F
    BY <1>1 DEF Filled, Shows
  <2>2. r.of \in PartNames
    BY <1>0, <1>1, RequestIsSound
  <2>3. PICK s \in T : s.of = r.of /\ DOMAIN r.asked = s.takes
    BY <1>0 DEF RequestsAreSteps, SameStep
  <2>4. new = [f \in {"asked", "has"} |-> new[f]] /\ new.asked = r.asked /\ new.has = r.seen
    OBVIOUS
  <2> HIDE DEF new
  <2>5. DOMAIN F = DOMAIN parts \cup {r.of} /\ F[r.of] = new /\ \A p \in DOMAIN parts : p # r.of => F[p] = parts[p]
    OBVIOUS
  <2>6. F = [p \in DOMAIN F |-> F[p]]
    OBVIOUS
  <2> HIDE DEF F
  <2>7. PartsAreSteps(F, T)
    BY <1>0, <2>2, <2>3, <2>4, <2>5, <2>6 DEF PartsAreSteps
  <2>8. \A p : p # r.of => SamePart(parts, F, p)
    BY <2>5 DEF SamePart
  <2>9. r.affects # {} => r.keeps # "change"
    BY <1>1
  <2> QED
    BY <2>1, <2>4, <2>5, <2>7, <2>8, <2>9
<1>2. CASE ~(r.affects = {} \/ r.keeps = "answer") /\ r.keeps = "change" /\ r.of \in DOMAIN parts
  <2> DEFINE F == [parts EXCEPT ![r.of].has = @ + 1]
  <2>1. Filled(r) = F
    BY <1>2 DEF Filled
  <2>2. /\ parts = [p \in DOMAIN parts |-> parts[p]]
        /\ parts[r.of] = [f \in {"asked", "has"} |-> parts[r.of][f]]
    BY <1>0, <1>2 DEF PartsAreSteps
  <2>3. DOMAIN F = DOMAIN parts /\ F = [p \in DOMAIN F |-> F[p]] /\ \A p \in DOMAIN parts : p # r.of => F[p] = parts[p]
    BY <1>2, <2>2
  <2>4. F[r.of] = [parts[r.of] EXCEPT !.has = @ + 1]
    BY <1>2, <2>2
  <2> HIDE DEF F
  <2>5. F[r.of].asked = parts[r.of].asked /\ F[r.of].has = parts[r.of].has + 1
    BY <2>2, <2>4
  <2>6. F[r.of] = [f \in {"asked", "has"} |-> F[r.of][f]]
    BY <2>2, <2>4
  <2>7. PartsAreSteps(F, T)
    <3>1. ASSUME NEW p \in DOMAIN F
          PROVE  /\ F[p] = [f \in {"asked", "has"} |-> F[p][f]]
                 /\ \E s \in T : s.of = p /\ DOMAIN F[p].asked = s.takes
      BY <1>0, <2>3, <2>5, <2>6, <3>1 DEF PartsAreSteps
    <3> QED
      BY <1>0, <2>3, <3>1 DEF PartsAreSteps
  <2>8. \A p : p # r.of => SamePart(parts, F, p)
    BY <2>3 DEF SamePart
  <2> QED
    BY <1>2, <2>1, <2>3, <2>5, <2>7, <2>8
<1>3. CASE ~(r.affects = {} \/ r.keeps = "answer") /\ ~(r.keeps = "change" /\ r.of \in DOMAIN parts)
  <2>1. Filled(r) = parts
    BY <1>3 DEF Filled
  <2>2. \A p : SamePart(parts, parts, p)
    BY DEF SamePart
  <2> QED
    BY <1>0, <1>3, <2>1, <2>2
<1> QED
  BY <1>1, <1>2, <1>3

LEMMA ShowAnswerStep ==
  ASSUME NEW T, ViewIsSound(Shown, T), ViewInv(T), NEW r \in requests, ShowAnswer(r) PROVE ViewInv(T)'
<1>1. /\ RequestsAreSteps(requests, T) /\ r.served /\ ~r.aborted /\ Query' = Query
      /\ parts' = Filled(r) /\ UNCHANGED <<opened, has, timer>>
  BY DEF ViewInv, ShowAnswer, Query
<1>2. Sendable(r.then, T) /\ RequestsAreSteps(requests \ {r}, T)
  BY <1>1, RequestIsSound, FewerAreSteps
<1>3. ASSUME NEW p \in PartNames \ muddled
      PROVE  /\ OneLive(requests \ {r}, p)
             /\ PartInStep(requests \ {r}, parts', has, Query, timer, p) \/ Covers(r.then, p)
  <2>1. OneLive(requests, p) /\ PartInStep(requests, parts, has, Query, timer, p)
    BY DEF ViewInv
  <2>2. OneLive(requests \ {r}, p)
    BY <2>1 DEF OneLive
  <2>3. CASE Reaches(r, p)
    BY <1>1, <2>2, <2>3, RequestIsSound
  <2>4. CASE ~Reaches(r, p) /\ r.of # p
    <3>1. SamePart(parts, parts', p)
      BY <1>1, <2>4, FilledIs
    <3>2. r \notin Changing(requests, p)
      BY <2>4 DEF Changing
    <3>3. PartInStep(requests \ {r}, parts, has, Query, timer, p)
      BY <2>1, <2>4, <3>2, OneLess
    <3> QED
      BY <2>2, <3>1, <3>3, OtherPartsStay
  <2>5. CASE ~Reaches(r, p) /\ r.of = p
    <3>1. \A w \in requests : w.of = p /\ ~w.aborted => w = r
      BY <1>1, <2>1, <2>5 DEF OneLive
    <3>2. Changing(requests \ {r}, p) = {}
      <4>1. ASSUME NEW w \in requests \ {r}, w.of = p, w.affects # {} PROVE FALSE
        BY <1>1, <3>1, <4>1, RequestIsSound
      <4> QED
        BY <4>1 DEF Changing
    <3>3. \A w \in requests \ {r} : w.of = p => w.aborted \/ w.affects # {}
      BY <3>1
    <3>4. CASE WillBeAsked(requests, p)
      BY <2>2, <2>5, <3>4 DEF WillBeAsked, PartInStep
    <3>5. CASE NotSearched(Query, timer, p)
      BY <2>2, <3>5 DEF PartInStep
    <3>6. CASE r.affects = {} /\ IsAsked(requests, has, Query, p)
      <4>1. ForChoice(r.asked, Query) /\ (p \in DOMAIN has => r.seen = has[p])
        BY <1>1, <3>1, <3>6 DEF IsAsked
      <4>2. parts'[p].asked = r.asked /\ parts'[p].has = r.seen
        BY <1>1, <2>5, <3>6, FilledIs
      <4>3. IsShown(requests \ {r}, parts', has, Query, p)
        BY <3>2, <3>3, <4>1, <4>2 DEF IsShown
      <4> QED
        BY <2>2, <4>3 DEF PartInStep
    <3>7. CASE r.affects # {} /\ IsShown(requests, parts, has, Query, p)
      <4>1. r \in Changing(requests, p)
        BY <1>1, <2>5, <3>7 DEF Changing
      <4>2. /\ p \in DOMAIN has => r.seen = has[p]
            /\ p \in DOMAIN parts => /\ ForChoice(parts[p].asked, Query)
                                     /\ p \in DOMAIN has => parts[p].has + 1 = has[p]
        BY <3>7, <4>1 DEF IsShown
      <4>3. r.takes = {} /\ r.keeps \in {"change", "answer"}
        BY <1>1, <2>5, <3>7, RequestIsSound
      <4>4. DOMAIN r.asked = {}
        BY <1>1, <4>3 DEF RequestsAreSteps
      <4>5. CASE r.keeps = "answer"
        <5>1. parts'[p].asked = r.asked /\ parts'[p].has = r.seen
          BY <1>1, <2>5, <4>5, FilledIs
        <5>2. IsShown(requests \ {r}, parts', has, Query, p)
          BY <3>2, <3>3, <4>2, <4>4, <5>1 DEF IsShown, ForChoice
        <5> QED
          BY <2>2, <5>2 DEF PartInStep
      <4>6. CASE r.keeps = "change"
        <5>1. /\ p \in DOMAIN parts' <=> p \in DOMAIN parts
              /\ p \in DOMAIN parts => parts'[p].asked = parts[p].asked /\ parts'[p].has = parts[p].has + 1
          BY <1>1, <2>5, <3>7, <4>6, FilledIs
        <5>2. IsShown(requests \ {r}, parts', has, Query, p)
          BY <3>2, <3>3, <4>2, <5>1 DEF IsShown
        <5> QED
          BY <2>2, <5>2 DEF PartInStep
      <4> QED
        BY <4>3, <4>5, <4>6
    <3>8. r.affects = {} => ~IsShown(requests, parts, has, Query, p)
      BY <1>1, <2>5 DEF IsShown
    <3>9. r.affects # {} => ~IsAsked(requests, has, Query, p)
      BY <3>1 DEF IsAsked
    <3> QED
      BY <2>1, <3>4, <3>5, <3>6, <3>7, <3>8, <3>9 DEF PartInStep
  <2> QED
    BY <2>3, <2>4, <2>5
<1>4. PartsAreSteps(parts', T) /\ SendAll(requests \ {r}, r.then, muddled)
  BY <1>1, FilledIs DEF ShowAnswer
<1>5. \A p \in PartNames \ muddled :
        /\ OneLive(requests \ {r}, p)
        /\ PartInStep(requests \ {r}, parts', has', Query', timer', p) \/ Covers(r.then, p)
  BY <1>1, <1>3
<1> QED
  BY <1>1, <1>2, <1>4, <1>5, SendStep DEF ViewInv

-----------------------------------------------------------------------------
(* The server.                                                             *)

LEMMA ServedCopy ==
  ASSUME NEW r, IsRequest(r), NEW e
  PROVE  LET x == [r EXCEPT !.served = TRUE, !.seen = e] IN
         /\ IsRequest(x) /\ SameStep(x, r) /\ x.asked = r.asked /\ x.served /\ x.seen = e
         /\ x.aborted = r.aborted
  BY DEF IsRequest, RequestFields, SameStep

LEMMA ServeStep ==
  ASSUME NEW T, ViewIsSound(Shown, T), ViewInv(T), NEW r \in requests, Serve(r) PROVE ViewInv(T)'
<1> DEFINE e == IF r.of \in Changeable THEN has'[r.of] ELSE 0
           x == [r EXCEPT !.served = TRUE, !.seen = e]
           J == (requests \ {r}) \cup {x}
<1>1. /\ RequestsAreSteps(requests, T) /\ ~r.served /\ ~r.aborted /\ Query' = Query /\ requests' = J
      /\ UNCHANGED <<opened, parts, timer, muddled>> /\ DOMAIN has = Changeable /\ DOMAIN has' = Changeable
  BY DEF ViewInv, Serve, Query
<1>2. \A p \in Changeable : has'[p] = IF p \in r.affects THEN has[p] + 1 ELSE has[p]
  BY DEF Serve
<1>3. /\ IsRequest(x) /\ SameStep(x, r) /\ x.asked = r.asked /\ x.served
      /\ (r.of \in Changeable => x.seen = has'[r.of]) /\ ~x.aborted
  <2>1. r.of \in Changeable => e = has'[r.of]
    OBVIOUS
  <2>2. IsRequest(r)
    BY <1>1 DEF RequestsAreSteps
  <2> HIDE DEF e
  <2>3. /\ IsRequest(x) /\ SameStep(x, r) /\ x.asked = r.asked /\ x.served /\ x.seen = e
        /\ x.aborted = r.aborted
    BY <2>2, ServedCopy
  <2> HIDE DEF x
  <2> QED
    BY <1>1, <2>1, <2>3
<1> HIDE DEF x
<1>4. RequestsAreSteps(J, T)
  BY <1>1, <1>3 DEF RequestsAreSteps, SameStep
<1>5. ASSUME NEW p \in PartNames \ muddled
      PROVE  OneLive(J, p) /\ PartInStep(J, parts, has', Query, timer, p)
  <2>1. OneLive(requests, p) /\ PartInStep(requests, parts, has, Query, timer, p)
    BY DEF ViewInv
  <2>2. OneLive(J, p)
    BY <1>1, <1>3, <2>1 DEF OneLive, SameStep
  <2>3. CASE NotSearched(Query, timer, p)
    BY <2>2, <2>3 DEF PartInStep
  <2>4. CASE WillBeAsked(requests, p)
    <3>1. PICK w \in requests : Reaches(w, p) /\ (w.affects = {} \/ (w.served /\ p \in w.affects))
      BY <2>4 DEF WillBeAsked
    <3>2. CASE w = r
      <4>1. Reaches(x, p) /\ x.affects = {}
        BY <1>1, <1>3, <3>1, <3>2 DEF Reaches, SameStep
      <4> QED
        BY <2>2, <4>1 DEF WillBeAsked, PartInStep
    <3>3. CASE w # r
      BY <2>2, <3>1, <3>3 DEF WillBeAsked, PartInStep
    <3> QED
      BY <3>2, <3>3
  <2>5. CASE r.of # p /\ p \in r.affects
    <3>1. Reaches(r, p)
      BY <1>1, <2>5, RequestIsSound
    <3>2. Reaches(x, p) /\ x.served /\ p \in x.affects
      BY <1>3, <2>5, <3>1 DEF Reaches, SameStep
    <3> QED
      BY <2>2, <3>2 DEF WillBeAsked, PartInStep
  <2>6. CASE r.of # p /\ p \notin r.affects
    <3>1. p \in DOMAIN has' => p \in DOMAIN has /\ has'[p] = has[p]
      BY <1>1, <1>2, <2>6
    <3>2. CASE IsAsked(requests, has, Query, p)
      <4>1. IsAsked(J, has', Query, p)
        BY <2>6, <3>1, <3>2 DEF IsAsked
      <4> QED
        BY <2>2, <4>1 DEF PartInStep
    <3>3. CASE IsShown(requests, parts, has, Query, p)
      <4>1. Changing(J, p) = Changing(requests, p)
        BY <1>3, <2>6 DEF Changing, SameStep
      <4>2. \A w \in J : w.of = p => w.aborted \/ w.affects # {}
        BY <1>3, <2>6, <3>3 DEF IsShown, SameStep
      <4>3. IsShown(J, parts, has', Query, p)
        BY <3>1, <3>3, <4>1, <4>2 DEF IsShown
      <4> QED
        BY <2>2, <4>3 DEF PartInStep
    <3> QED
      BY <2>1, <2>3, <2>4, <3>2, <3>3 DEF PartInStep
  <2>7. CASE r.of = p
    <3>1. \A w \in requests : w.of = p /\ ~w.aborted => w = r
      BY <1>1, <2>1, <2>7 DEF OneLive
    <3>2. CASE r.affects = {}
      <4>1. ~IsShown(requests, parts, has, Query, p)
        BY <1>1, <2>7, <3>2 DEF IsShown
      <4>2. CASE IsAsked(requests, has, Query, p)
        <5>1. ForChoice(r.asked, Query)
          BY <3>1, <4>2 DEF IsAsked
        <5>2. x.of = p /\ x.affects = {} /\ ForChoice(x.asked, Query) /\ (p \in DOMAIN has' => x.seen = has'[p])
          BY <1>1, <1>3, <2>7, <3>2, <5>1 DEF SameStep
        <5>3. IsAsked(J, has', Query, p)
          BY <1>3, <5>2 DEF IsAsked
        <5> QED
          BY <2>2, <5>3 DEF PartInStep
      <4> QED
        BY <2>1, <2>3, <2>4, <4>1, <4>2 DEF PartInStep
    <3>3. CASE r.affects # {}
      <4>1. ~IsAsked(requests, has, Query, p)
        BY <3>1, <3>3 DEF IsAsked
      <4>2. CASE IsShown(requests, parts, has, Query, p)
        <5>1. r.affects = {p}
          BY <1>1, <2>7, <3>3, RequestIsSound
        <5>2. ASSUME NEW w \in requests, w.of = p, w.affects # {} PROVE w = r
          BY <1>1, <3>1, <5>2, RequestIsSound
        <5>3. Changing(requests, p) = {}
          BY <1>1, <5>2 DEF Changing
        <5>4. Changing(J, p) = {x}
          BY <1>3, <2>7, <3>3, <5>2 DEF Changing, SameStep
        <5>5. p \in DOMAIN has' => x.seen = has'[p] /\ has'[p] = has[p] + 1 /\ p \in DOMAIN has
          BY <1>1, <1>2, <1>3, <2>7, <5>1
        <5>6. \A w \in J : w.of = p => w.aborted \/ w.affects # {}
          BY <1>3, <3>3, <4>2 DEF IsShown, SameStep
        <5>7. IsShown(J, parts, has', Query, p)
          BY <4>2, <5>3, <5>4, <5>5, <5>6 DEF IsShown
        <5> QED
          BY <2>2, <5>7 DEF PartInStep
      <4> QED
        BY <2>1, <2>3, <2>4, <4>1, <4>2 DEF PartInStep
    <3> QED
      BY <3>2, <3>3
  <2> QED
    BY <2>5, <2>6, <2>7
<1>6. Shown' = Shown /\ Changeable' = Changeable
  BY <1>1, SameView
<1>7. PartsAreSteps(parts, T) /\ timer \in BOOLEAN /\ (timer => Shown.later # {})
  BY DEF ViewInv
<1> HIDE DEF J
<1> QED
  BY <1>1, <1>4, <1>5, <1>6, <1>7 DEF ViewInv

LEMMA NextKeepsView ==
  ASSUME NEW T, ViewIsSound(Shown, T), ViewInv(T), [ViewsNext]_viewsVars
  PROVE  ViewIsSound(Shown, T)' /\ ViewInv(T)'
<1>1. UNCHANGED opened
  BY DEF ViewsNext, viewsVars, Serve, ShowAnswer, AbortError, Fail, ChangeSite, ChangeSearch, RunSearch,
         Poll, Act
<1>2. ViewIsSound(Shown, T)'
  BY <1>1, SameView
<1>3. CASE UNCHANGED viewsVars
  BY <1>2, <1>3 DEF viewsVars, ViewInv, Shown, Changeable, Query
<1>4. CASE \E r \in requests : Serve(r) \/ ShowAnswer(r) \/ AbortError(r) \/ Fail(r)
  BY <1>2, <1>4, ServeStep, ShowAnswerStep, AbortErrorStep, FailStep
<1>5. CASE (\E new \in SiteNames : ChangeSite(new)) \/ (\E new \in Searches : ChangeSearch(new))
  BY <1>2, <1>5, ChangeSiteStep, ChangeSearchStep
<1>6. CASE RunSearch \/ Poll \/ \E c \in Shown.changes : Act(c)
  BY <1>2, <1>6, RunSearchStep, PollStep, ActStep
<1> QED
  BY <1>2, <1>3, <1>4, <1>5, <1>6 DEF ViewsNext

LEMMA InitIsInStep ==
  ASSUME NEW T, ViewsInit, ViewIsSound(Shown, T) PROVE ViewInv(T)
<1>1. PICK n : requests = WithSteps({}, Shown.opens, Query, n)
  BY DEF ViewsInit, Beside, WithSteps
<1>2. Sendable(Shown.opens, T)
  BY DEF ViewIsSound, Sendable, Together
<1>3. RequestsAreSteps({}, T)
  BY DEF RequestsAreSteps
<1>4. RequestsAreSteps(requests, T)
  BY <1>1, <1>2, <1>3, JoinedAreSteps DEF Sendable
<1>5. parts = <<>> /\ DOMAIN parts = {} /\ DOMAIN has = Changeable /\ timer = (Shown.later # {})
  BY DEF ViewsInit
<1>6. PartsAreSteps(parts, T)
  BY <1>5 DEF PartsAreSteps
<1>7. ASSUME NEW p \in PartNames
      PROVE  OneLive(requests, p) /\ PartInStep(requests, parts, has, Query, timer, p)
  <2>1. CASE \E s \in Shown.opens : s.of = p
    <3>1. PICK s \in Shown.opens : s.of = p /\ s.affects = {}
      BY <2>1 DEF ViewIsSound, Together
    <3>2. Live({}, p) = {}
      BY DEF Live
    <3> QED
      BY <1>1, <1>2, <1>3, <3>1, <3>2, FetchedIsInStep DEF PartInStep
  <2>2. CASE \A s \in Shown.opens : s.of # p
    <3>1. OneLive({}, p)
      BY DEF OneLive
    <3>2. IsShown({}, parts, has, Query, p)
      BY <1>5 DEF IsShown, Changing
    <3> QED
      BY <1>1, <1>2, <1>3, <2>2, <3>1, <3>2, OthersStayInStep DEF PartInStep
  <2> QED
    BY <2>1, <2>2
<1> QED
  BY <1>4, <1>5, <1>6, <1>7 DEF ViewInv

LEMMA PageFollows == ASSUME NEW T, ViewInv(T) PROVE PageIsInStep
<1> SUFFICES ASSUME requests = {}, ~timer, NEW p \in DOMAIN parts \ muddled, ~(p = "results" /\ search = NoSearch)
             PROVE  /\ p \in Changeable => parts[p].has = has[p]
                    /\ \A f \in DOMAIN parts[p].asked : parts[p].asked[f] = Ref(f, Query)
  BY DEF PageIsInStep
<1>1. p \in PartNames /\ DOMAIN has = Changeable
  BY DEF ViewInv, PartsAreSteps
<1>2. PartInStep({}, parts, has, Query, timer, p)
  BY <1>1 DEF ViewInv
<1>3. ~IsAsked({}, has, Query, p) /\ ~WillBeAsked({}, p)
  BY DEF IsAsked, WillBeAsked
<1>4. ~NotSearched(Query, timer, p)
  BY DEF NotSearched, Query
<1>5. IsShown({}, parts, has, Query, p)
  BY <1>2, <1>3, <1>4 DEF PartInStep
<1>6. Changing({}, p) = {}
  BY DEF Changing
<1> QED
  BY <1>1, <1>5, <1>6 DEF IsShown, ForChoice

\* Some steps have the parts of every page in step.
ViewsInv == \E T : ViewIsSound(Shown, T) /\ ViewInv(T)

LEMMA ViewsInitInv == ViewsInit => ViewsInv
<1> SUFFICES ASSUME ViewsInit PROVE ViewsInv
  OBVIOUS
<1>1. PICK T : ViewIsSound(Shown, T)
  BY ViewsAreSound DEF ViewsInit
<1> QED
  BY <1>1, InitIsInStep DEF ViewsInv

LEMMA ViewsNextInv == ViewsInv /\ [ViewsNext]_viewsVars => ViewsInv'
<1> SUFFICES ASSUME ViewsInv, [ViewsNext]_viewsVars PROVE ViewsInv'
  OBVIOUS
<1>1. PICK T : ViewIsSound(Shown, T) /\ ViewInv(T)
  BY DEF ViewsInv
<1> QED
  BY <1>1, NextKeepsView DEF ViewsInv

\* Once nothing is under way, a page shows what the server has for the site and the search that are
\* chosen, for all twenty-four pages and any number of requests, failures, choices and changes,
\* with the exceptions PageIsInStep makes (useAbortableFetch.js:7-15 and the watches of the views).
THEOREM PageStaysInStep == ViewsSpec => []PageIsInStep
<1>1. ViewsInv => PageIsInStep
  BY PageFollows DEF ViewsInv
<1> QED
  BY <1>1, ViewsInitInv, ViewsNextInv, PTL DEF ViewsSpec

-----------------------------------------------------------------------------
(* What the pages keep is of its type: no part changes on the server more  *)
(* often than the user had it changed.                                     *)

\* Changes that are on their way to the server.
Unserved(rs) == {r \in rs : r.affects # {} /\ ~r.served}

ViewsTyped ==
  /\ currentSite \in SiteNames /\ search \in Searches /\ opened \in DOMAIN Views
  /\ muddled \subseteq PartNames /\ moves \in 0 .. MaxMoves
  /\ has \in [Changeable -> Nat] /\ IsFiniteSet(Unserved(requests))
  /\ \A p \in Changeable : has[p] + Cardinality(Unserved(requests)) <= moves
  /\ \A r \in requests : r.seen \in 0 .. MaxMoves

\* Requests that are aborted are as many at most, and steps that fetch are no changes.
LEMMA UnservedAfter ==
  ASSUME NEW T, NEW rs, RequestsAreSteps(rs, T), IsFiniteSet(Unserved(rs)), NEW steps, NEW q, NEW n,
         NEW new, IsFiniteSet(new), \A s \in steps : s.affects # {} => Sending(s, q, n) \in new
  PROVE  /\ IsFiniteSet(Unserved(WithSteps(rs, steps, q, n)))
         /\ Cardinality(Unserved(WithSteps(rs, steps, q, n))) <= Cardinality(Unserved(rs)) + Cardinality(new)
<1> DEFINE Ab(r) == IF r.of \in Aborting(steps) THEN [r EXCEPT !.aborted = TRUE] ELSE r
           old == {Ab(r) : r \in Unserved(rs)}
           W == WithSteps(rs, steps, q, n)
<1>1. IsFiniteSet(old) /\ Cardinality(old) <= Cardinality(Unserved(rs))
  <2> DEFINE abort == [r \in Unserved(rs) |-> Ab(r)]
  <2> HIDE DEF Ab
  <2>1. abort \in [Unserved(rs) -> old] /\ \A y \in old : \E r \in Unserved(rs) : abort[r] = y
    OBVIOUS
  <2> HIDE DEF abort, old
  <2> QED
    BY <2>1, ImagesAreSmaller
<1>2. ASSUME NEW x \in Unserved(W) PROVE x \in old \cup new
  <2>1. x.affects # {} /\ ~x.served /\ x \in W
    BY DEF Unserved
  <2>2. CASE \E r \in rs : x = Ab(r)
    <3>1. PICK r \in rs : x = Ab(r)
      BY <2>2
    <3>2. IsRequest(r)
      BY DEF RequestsAreSteps
    <3>3. x.affects = r.affects /\ x.served = r.served
      BY <3>1, <3>2, AbortedCopy DEF SameStep
    <3>4. r \in Unserved(rs)
      BY <2>1, <3>3 DEF Unserved
    <3> HIDE DEF Ab
    <3> QED
      BY <3>1, <3>4
  <2>3. CASE \E s \in steps : x = Sending(s, q, n)
    BY <2>1, <2>3, SentIs DEF SameStep
  <2>4. W = {Ab(r) : r \in rs} \cup {Sending(s, q, n) : s \in steps}
    BY DEF WithSteps, Aborted, Aborting
  <2> HIDE DEF Ab, W, old
  <2> QED
    BY <2>1, <2>2, <2>3, <2>4
<1> HIDE DEF old, W
<1>3. IsFiniteSet(old \cup new) /\ Cardinality(old \cup new) <= Cardinality(old) + Cardinality(new)
  <2>1. /\ IsFiniteSet(old \cup new)
        /\ Cardinality(old \cup new) = Cardinality(old) + Cardinality(new) - Cardinality(old \cap new)
    BY <1>1, FS_Union
  <2>2. IsFiniteSet(old \cap new)
    BY <1>1, FS_Intersection
  <2>3. Cardinality(old \cap new) \in Nat /\ Cardinality(old) \in Nat /\ Cardinality(new) \in Nat
    BY <1>1, <2>2, FS_CardinalityType
  <2> QED
    BY <2>1, <2>3
<1>4. Unserved(W) \in SUBSET (old \cup new)
  BY <1>2
<1>5. IsFiniteSet(Unserved(W)) /\ Cardinality(Unserved(W)) <= Cardinality(old \cup new)
  BY <1>3, <1>4, FS_Subset
<1>6. /\ Cardinality(Unserved(W)) \in Nat /\ Cardinality(old \cup new) \in Nat /\ Cardinality(old) \in Nat
      /\ Cardinality(new) \in Nat /\ Cardinality(Unserved(rs)) \in Nat
  BY <1>1, <1>3, <1>5, FS_CardinalityType
<1>7. Cardinality(Unserved(W)) <= Cardinality(Unserved(rs)) + Cardinality(new)
  BY <1>1, <1>3, <1>5, <1>6
<1> QED
  BY <1>5, <1>7 DEF W

\* What a step asks for, at once or in the end, is a part of the page.
LEMMA ReachedIsPart ==
  ASSUME NEW v, NEW T, ViewIsSound(v, T), NEW s \in T, NEW p, Reaches(s, p)
  PROVE  p \in PartNames
<1>1. ASSUME NEW t \in T, t.affects = {} PROVE t.of \in PartNames
  BY <1>1 DEF ViewIsSound, FetchIsSound, ChangeIsSound
<1>2. ASSUME NEW t \in T, NEW u \in t.then PROVE u \in T /\ u.affects = {}
  BY <1>2 DEF ViewIsSound, Together
<1>3. PICK t \in s.then : t.of = p \/ \E u \in t.then : u.of = p \/ \E w \in u.then : w.of = p
  BY DEF Reaches
<1> QED
  BY <1>1, <1>2, <1>3

LEMMA AffectedAreParts ==
  ASSUME NEW v, NEW T, ViewIsSound(v, T), NEW rs, RequestsAreSteps(rs, T), NEW r \in rs
  PROVE  r.affects \subseteq PartNames /\ r.of \in PartNames \cup {"change"}
<1>1. PICK s \in T : SameStep(r, s)
  BY DEF RequestsAreSteps
<1>2. FetchIsSound(s) \/ ChangeIsSound(s)
  BY DEF ViewIsSound
<1>3. \A p : Reaches(s, p) => p \in PartNames
  BY ReachedIsPart
<1> QED
  BY <1>1, <1>2, <1>3 DEF SameStep, FetchIsSound, ChangeIsSound


LEMMA SentBeside ==
  ASSUME NEW rs, NEW steps, NEW before, SendAll(rs, steps, before)
  PROVE  \E n : requests' = WithSteps(rs, steps, Query', n)
BY DEF SendAll, Beside, WithSteps

\* What a step sends is muddled only in parts of the page.
LEMMA SentTyped ==
  ASSUME NEW T, ViewIsSound(Shown, T), NEW rs, RequestsAreSteps(rs, T), NEW steps, Sendable(steps, T),
         NEW before, before \subseteq PartNames, SendAll(rs, steps, before),
         \A r \in rs : r.seen \in 0 .. MaxMoves
  PROVE  /\ muddled' \subseteq PartNames
         /\ \A r \in requests' : r.seen \in 0 .. MaxMoves
<1>1. PICK n : requests' = WithSteps(rs, steps, Query', n)
  BY SentBeside
<1>2. ASSUME NEW s \in steps, s.of \notin s.aborts \cup {"change"} PROVE s.of \in PartNames
  BY <1>2 DEF Sendable, ViewIsSound, FetchIsSound, ChangeIsSound
<1>3. muddled' \subseteq PartNames
  BY <1>2 DEF SendAll
<1>4. ASSUME NEW x \in requests' PROVE x.seen \in 0 .. MaxMoves
  <2>1. CASE \E s \in steps : x = Sending(s, Query', n)
    BY <2>1, SearchAssumption DEF Sending
  <2>2. CASE \E r \in rs : Copy(x, r)
    BY <2>2 DEF Copy
  <2> QED
    BY <1>1, <2>1, <2>2, JoinedAre
<1> QED
  BY <1>3, <1>4

\* A step that sends fetches only leaves no more changes on their way.
LEMMA FetchesKeepCount ==
  ASSUME NEW T, ViewsTyped, NEW rs, rs \subseteq requests, RequestsAreSteps(rs, T),
         NEW steps, \A s \in steps : s.affects = {}, NEW before, SendAll(rs, steps, before)
  PROVE  /\ IsFiniteSet(Unserved(requests'))
         /\ \A p \in Changeable : has[p] + Cardinality(Unserved(requests')) <= moves
<1>1. PICK n : requests' = WithSteps(rs, steps, Query', n)
  BY SentBeside
<1>2. Unserved(rs) \in SUBSET Unserved(requests) /\ IsFiniteSet(Unserved(requests))
  BY DEF Unserved, ViewsTyped
<1>3. IsFiniteSet(Unserved(rs)) /\ Cardinality(Unserved(rs)) <= Cardinality(Unserved(requests))
  BY <1>2, FS_Subset
<1>4. IsFiniteSet({}) /\ Cardinality({}) = 0
  BY FS_EmptySet
<1>5. /\ IsFiniteSet(Unserved(requests'))
      /\ Cardinality(Unserved(requests')) <= Cardinality(Unserved(rs)) + 0
  BY <1>1, <1>3, <1>4, UnservedAfter
<1>6. /\ Cardinality(Unserved(requests')) \in Nat /\ Cardinality(Unserved(rs)) \in Nat
      /\ Cardinality(Unserved(requests)) \in Nat
  BY <1>2, <1>3, <1>5, FS_CardinalityType
<1>7. ASSUME NEW p \in Changeable
      PROVE  has[p] \in Nat /\ moves \in Nat /\ has[p] + Cardinality(Unserved(requests)) <= moves
  BY SearchAssumption DEF ViewsTyped
<1> QED
  BY <1>3, <1>5, <1>6, <1>7

\* An answer to a change counts what was on its way.
LEMMA ServeTyped ==
  ASSUME NEW T, ViewIsSound(Shown, T), ViewInv(T), ViewsTyped, NEW r \in requests, Serve(r) PROVE ViewsTyped'
<1> DEFINE e == IF r.of \in Changeable THEN has'[r.of] ELSE 0
           x == [r EXCEPT !.served = TRUE, !.seen = e]
           before == Cardinality(Unserved(requests))
           after == Cardinality(Unserved(requests'))
<1>1. /\ IsRequest(r) /\ ~r.served /\ requests' = (requests \ {r}) \cup {x}
      /\ UNCHANGED <<opened, currentSite, search, muddled, moves>> /\ Changeable' = Changeable
  BY SameView DEF ViewInv, RequestsAreSteps, Serve
<1>2. x.served /\ x.seen = e
  <2> HIDE DEF e
  <2> QED
    BY <1>1, ServedCopy
<1> HIDE DEF x
<1>3. Unserved(requests') = Unserved(requests) \ {r}
  BY <1>1, <1>2 DEF Unserved
<1>4. IsFiniteSet(Unserved(requests)) /\ before \in Nat
  BY FS_CardinalityType DEF ViewsTyped
<1>5. /\ IsFiniteSet(Unserved(requests')) /\ after \in Nat
      /\ after = IF r \in Unserved(requests) THEN before - 1 ELSE before
  BY <1>3, <1>4, FS_RemoveElement, FS_CardinalityType
<1>6. r.affects # {} => r \in Unserved(requests)
  BY <1>1 DEF Unserved
<1> HIDE DEF before, after
<1>7. has' = [p \in Changeable |-> IF p \in r.affects THEN has[p] + 1 ELSE has[p]]
  BY DEF Serve
<1>8. ASSUME NEW p \in Changeable PROVE has'[p] \in Nat /\ has'[p] + after <= moves
  <2>1. has[p] \in Nat /\ moves \in Nat /\ has[p] + before <= moves
    BY SearchAssumption DEF ViewsTyped, before
  <2>2. CASE p \in r.affects
    <3>1. after = before - 1 /\ has'[p] = has[p] + 1
      BY <1>5, <1>6, <1>7, <2>2
    <3> QED
      BY <1>4, <1>5, <2>1, <3>1
  <2>3. CASE p \notin r.affects
    <3>1. after <= before /\ has'[p] = has[p]
      BY <1>4, <1>5, <1>7, <2>3
    <3> QED
      BY <1>4, <1>5, <2>1, <3>1
  <2> QED
    BY <2>2, <2>3
<1>9. e \in 0 .. MaxMoves
  <2>1. moves \in Nat /\ moves <= MaxMoves /\ MaxMoves \in Nat
    BY SearchAssumption DEF ViewsTyped
  <2>2. CASE r.of \in Changeable
    <3>1. e = has'[r.of] /\ has'[r.of] \in Nat /\ has'[r.of] + after <= moves
      BY <1>8, <2>2
    <3> QED
      BY <1>5, <2>1, <3>1
  <2>3. CASE r.of \notin Changeable
    BY <2>1, <2>3
  <2> QED
    BY <2>2, <2>3
<1>10. \A q \in requests' : q.seen \in 0 .. MaxMoves
  BY <1>1, <1>2, <1>9 DEF ViewsTyped
<1>11. has' \in [Changeable -> Nat]
  BY <1>7, <1>8
<1> QED
  BY <1>1, <1>5, <1>8, <1>10, <1>11 DEF ViewsTyped, after

\* The steps that ask for what is shown.
LEMMA AskTyped ==
  ASSUME NEW T, ViewIsSound(Shown, T), ViewInv(T), ViewsTyped, UNCHANGED <<opened, has>>,
         NEW rs, rs \subseteq requests, NEW steps, steps \subseteq T, Together(steps),
         NEW before, before \subseteq PartNames, SendAll(rs, steps, before),
         currentSite' \in SiteNames, search' \in Searches, moves' \in 0 .. MaxMoves, moves <= moves'
  PROVE  ViewsTyped'
<1>1. RequestsAreSteps(rs, T) /\ Sendable(steps, T) /\ (\A r \in rs : r.seen \in 0 .. MaxMoves)
  BY DEF ViewInv, RequestsAreSteps, Sendable, Together, ViewsTyped
<1>2. muddled' \subseteq PartNames /\ \A r \in requests' : r.seen \in 0 .. MaxMoves
  BY <1>1, SentTyped
<1>3. /\ IsFiniteSet(Unserved(requests'))
      /\ \A p \in Changeable : has[p] + Cardinality(Unserved(requests')) <= moves
  BY <1>1, FetchesKeepCount DEF Together
<1>4. Changeable' = Changeable
  BY SameView
<1>5. Cardinality(Unserved(requests')) \in Nat
  BY <1>3, FS_CardinalityType
<1>6. ASSUME NEW p \in Changeable PROVE has[p] + Cardinality(Unserved(requests')) <= moves'
  <2>1. has[p] \in Nat /\ moves \in Nat /\ moves' \in Nat
    BY SearchAssumption DEF ViewsTyped
  <2> QED
    BY <1>3, <1>5, <2>1
<1> QED
  BY <1>2, <1>3, <1>4, <1>6 DEF ViewsTyped

LEMMA ActTyped ==
  ASSUME NEW T, ViewIsSound(Shown, T), ViewInv(T), ViewsTyped, NEW c \in Shown.changes, Act(c)
  PROVE  ViewsTyped'
<1> DEFINE before == Cardinality(Unserved(requests))
           after == Cardinality(Unserved(requests'))
<1>1. /\ RequestsAreSteps(requests, T) /\ Sendable({c}, T) /\ \A r \in requests : r.seen \in 0 .. MaxMoves
  BY DEF ViewInv, Sendable, ViewIsSound, ViewsTyped
<1>2. /\ UNCHANGED <<opened, currentSite, search, has>> /\ SendAll(requests, {c}, muddled)
      /\ moves' = moves + 1 /\ moves < MaxMoves
  BY DEF Act
<1>3. muddled' \subseteq PartNames /\ \A r \in requests' : r.seen \in 0 .. MaxMoves
  BY <1>1, <1>2, SentTyped DEF ViewsTyped
<1>4. PICK n : requests' = WithSteps(requests, {c}, Query', n)
  BY <1>2, SentBeside
<1>5. IsFiniteSet({Sending(c, Query', n)}) /\ Cardinality({Sending(c, Query', n)}) = 1
  BY FS_Singleton
<1>6. IsFiniteSet(Unserved(requests)) /\ before \in Nat
  BY FS_CardinalityType DEF ViewsTyped
<1>7. IsFiniteSet(Unserved(requests')) /\ after <= before + 1
  <2> DEFINE new == {Sending(c, Query', n)}
  <2>1. \A s \in {c} : s.affects # {} => Sending(s, Query', n) \in new
    OBVIOUS
  <2> HIDE DEF new
  <2>2. IsFiniteSet(new) /\ Cardinality(new) = 1
    BY <1>5 DEF new
  <2> QED
    BY <1>1, <1>4, <1>6, <2>1, <2>2, UnservedAfter
<1>8. after \in Nat
  BY <1>7, FS_CardinalityType
<1> HIDE DEF before, after
<1>9. moves' \in 0 .. MaxMoves
  BY <1>2, SearchAssumption DEF ViewsTyped
<1>10. ASSUME NEW p \in Changeable PROVE has[p] + after <= moves'
  <2>1. has[p] \in Nat /\ moves \in Nat /\ has[p] + before <= moves
    BY SearchAssumption DEF ViewsTyped, before
  <2> QED
    BY <1>2, <1>6, <1>7, <1>8, <2>1
<1>11. Changeable' = Changeable
  BY <1>2, SameView
<1> QED
  BY <1>2, <1>3, <1>7, <1>9, <1>10, <1>11 DEF ViewsTyped, after

LEMMA ViewsNextTyped ==
  ASSUME NEW T, ViewIsSound(Shown, T), ViewInv(T), ViewsTyped, [ViewsNext]_viewsVars PROVE ViewsTyped'
<1>0. /\ currentSite \in SiteNames /\ search \in Searches /\ muddled \subseteq PartNames
      /\ moves \in 0 .. MaxMoves /\ MaxMoves \in Nat /\ RequestsAreSteps(requests, T)
  BY SearchAssumption DEF ViewsTyped, ViewInv
<1>1. /\ \A S \in {Shown.opens, Shown.onSite, Shown.onSearch, Shown.later, Shown.polls} : S \subseteq T /\ Together(S)
      /\ OnSite \subseteq T /\ Together(OnSite)
  BY DEF ViewIsSound, OnSite, Together
<1>2. ASSUME NEW r \in requests
      PROVE  r.then \subseteq T /\ Together(r.then) /\ AfterFailure(r) \subseteq T /\ Together(AfterFailure(r))
  <2>1. PICK s \in T : SameStep(r, s)
    BY <1>0 DEF RequestsAreSteps
  <2> QED
    BY <2>1 DEF SameStep, ViewIsSound, AfterFailure, Together
<1>3. CASE UNCHANGED viewsVars
  <2>1. Changeable' = Changeable
    BY <1>3, SameView DEF viewsVars
  <2> QED
    BY <1>3, <2>1 DEF viewsVars, ViewsTyped
<1>4. ASSUME NEW r \in requests, Serve(r) PROVE ViewsTyped'
  BY <1>4, ServeTyped
<1>5. ASSUME NEW r \in requests, ShowAnswer(r) PROVE ViewsTyped'
  <2>1. UNCHANGED <<opened, has, currentSite, search, moves>> /\ SendAll(requests \ {r}, r.then, muddled)
    BY <1>5 DEF ShowAnswer
  <2> QED
    BY <1>0, <1>2, <2>1, AskTyped
<1>6. ASSUME NEW r \in requests, AbortError(r) PROVE ViewsTyped'
  <2>1. UNCHANGED <<opened, has, currentSite, search, moves>> /\ SendAll(requests \ {r}, AfterFailure(r), muddled)
    BY <1>6 DEF AbortError
  <2> QED
    BY <1>0, <1>2, <2>1, AskTyped
<1>7. ASSUME NEW r \in requests, Fail(r) PROVE ViewsTyped'
  <2> DEFINE before == muddled \cup (IF r.affects # {} THEN (IF r.served THEN r.affects ELSE {})
                                     ELSE IF r.throws THEN PartNames ELSE {r.of})
  <2>1. UNCHANGED <<opened, has, currentSite, search, moves>> /\ SendAll(requests \ {r}, AfterFailure(r), before)
    BY <1>7 DEF Fail
  <2>2. before \subseteq PartNames
    BY <1>0, AffectedAreParts, RequestIsSound
  <2> HIDE DEF before
  <2> QED
    BY <1>0, <1>2, <2>1, <2>2, AskTyped
<1>8. ASSUME NEW new \in SiteNames, ChangeSite(new) PROVE ViewsTyped'
  <2>1. /\ UNCHANGED <<opened, has, search>> /\ SendAll(requests, OnSite, muddled)
        /\ currentSite' = new /\ moves' = moves + 1 /\ moves < MaxMoves
    BY <1>8 DEF ChangeSite
  <2>2. moves' \in 0 .. MaxMoves /\ moves <= moves'
    BY <1>0, <2>1
  <2> QED
    BY <1>0, <1>1, <1>8, <2>1, <2>2, AskTyped
<1>9. ASSUME NEW new \in Searches, ChangeSearch(new) PROVE ViewsTyped'
  <2>1. /\ UNCHANGED <<opened, has, currentSite>> /\ SendAll(requests, Shown.onSearch, muddled)
        /\ search' = new /\ moves' = moves + 1 /\ moves < MaxMoves
    BY <1>9 DEF ChangeSearch
  <2>2. moves' \in 0 .. MaxMoves /\ moves <= moves'
    BY <1>0, <2>1
  <2> QED
    BY <1>0, <1>1, <1>9, <2>1, <2>2, AskTyped
<1>10. CASE RunSearch
  <2>1. UNCHANGED <<opened, has, currentSite, search, moves>>
    BY <1>10 DEF RunSearch
  <2>2. CASE UNCHANGED <<requests, muddled>>
    <3>1. Changeable' = Changeable
      BY <2>1, SameView
    <3> QED
      BY <2>1, <2>2, <3>1 DEF ViewsTyped
  <2>3. CASE SendAll(requests, Shown.later, muddled)
    BY <1>0, <1>1, <2>1, <2>3, AskTyped
  <2> QED
    BY <1>10, <2>2, <2>3 DEF RunSearch
<1>11. CASE Poll
  <2>1. UNCHANGED <<opened, has, currentSite, search, moves>> /\ SendAll(requests, Shown.polls, muddled)
    BY <1>11 DEF Poll
  <2> QED
    BY <1>0, <1>1, <2>1, AskTyped
<1>12. ASSUME NEW c \in Shown.changes, Act(c) PROVE ViewsTyped'
  BY <1>12, ActTyped
<1> QED
  BY <1>3, <1>4, <1>5, <1>6, <1>7, <1>8, <1>9, <1>10, <1>11, <1>12 DEF ViewsNext

LEMMA ViewsInitTyped == ASSUME ViewsInit PROVE ViewsTyped
<1>1. PICK T : ViewIsSound(Shown, T)
  BY ViewsAreSound DEF ViewsInit
<1>2. PICK n : requests = WithSteps({}, Shown.opens, Query, n)
  BY DEF ViewsInit, Beside, WithSteps
<1>3. RequestsAreSteps({}, T) /\ \A s \in Shown.opens : s.affects = {}
  BY <1>1 DEF RequestsAreSteps, ViewIsSound, Together
<1>4. ASSUME NEW x \in requests PROVE x.affects = {} /\ x.seen = 0
  <2>1. PICK s \in Shown.opens : x = Sending(s, Query, n)
    BY <1>2, <1>3, JoinedAre
  <2>2. x.affects = s.affects /\ x.seen = 0
    BY <2>1 DEF Sending
  <2> QED
    BY <1>3, <2>2
<1>5. Unserved(requests) = {}
  BY <1>4 DEF Unserved
<1>6. IsFiniteSet({}) /\ Cardinality({}) = 0
  BY FS_EmptySet
<1>7. /\ currentSite \in SiteNames /\ search \in Searches /\ opened \in DOMAIN Views /\ muddled = {}
      /\ moves = 0 /\ has = [p \in Changeable |-> 0]
  BY SearchAssumption DEF ViewsInit
<1> QED
  BY <1>4, <1>5, <1>6, <1>7, SearchAssumption DEF ViewsTyped

\* What is typed by the steps of the page, and the numbers.
LEMMA ViewsAreTyped ==
  ASSUME NEW T, ViewIsSound(Shown, T), ViewInv(T), ViewsTyped PROVE ViewsTypeOK
<1>1. \A r \in requests : r.of \in PartNames \cup {"change"} /\ r.seen \in 0 .. MaxMoves
  BY AffectedAreParts DEF ViewInv, ViewsTyped
<1>2. Cardinality(Unserved(requests)) \in Nat
  BY FS_CardinalityType DEF ViewsTyped
<1>3. ASSUME NEW p \in Changeable PROVE has[p] \in 0 .. MaxMoves
  BY <1>2, SearchAssumption DEF ViewsTyped
<1>4. has \in [Changeable -> 0 .. MaxMoves]
  BY <1>3 DEF ViewsTyped
<1> QED
  BY <1>1, <1>4 DEF ViewsTyped, ViewInv, PartsAreSteps, ViewsTypeOK

-----------------------------------------------------------------------------
(* What the other parts of the browser keep is of its type.                *)

SessionOfType ==
  /\ page \in {"login", "opening", "app"} /\ redirecting \in BOOLEAN
  /\ currentUser \in People \cup {NoOne} /\ loaded \in BOOLEAN
  /\ foreign \in BOOLEAN /\ overtaken \in BOOLEAN

LEMMA SessionNextTyped ==
  SessionTyped /\ SessionOfType /\ [SessionNext]_sessionVars => SessionOfType'
<1> SUFFICES ASSUME SessionTyped, SessionOfType, [SessionNext]_sessionVars PROVE SessionOfType'
  OBVIOUS
<1> USE DEF SessionOfType
<1>1. CASE UNCHANGED sessionVars
  BY <1>1 DEF sessionVars
<1>2. CASE Navigate \/ Mount \/ Logout \/ Reload
  BY <1>2 DEF Navigate, Mount, Logout, Reload, ForgetUser, EndSession, ResetCurrentUser, Forget
<1>3. CASE Fetch
  BY <1>3 DEF Fetch, Redirect, EndSession, ResetCurrentUser, Forget
<1>4. CASE FinishRedirect \/ Expire
  BY <1>4 DEF FinishRedirect, Expire
<1>5. CASE \/ \E u \in People : Login(u)
           \/ \E u \in People \cup {NoOne} : OtherTab(u)
  BY <1>5 DEF Login, OtherTab
<1>6. ASSUME NEW q \in Fetching, AnswerMe(q) PROVE SessionOfType'
  <2>1. inFlight[q] \in {Unused} \cup [kind : {"me", "other"}, user : People, old : BOOLEAN]
    BY DEF SessionTyped
  <2>2. inFlight[q].kind = "me"
    BY <1>6 DEF AnswerMe
  <2>3. inFlight[q].user \in People
    BY <2>1, <2>2 DEF Unused
  <2>4. (overtaken \/ inFlight[q].old) \in BOOLEAN
    OBVIOUS
  <2>5. /\ currentUser' = inFlight[q].user /\ overtaken' = (overtaken \/ inFlight[q].old)
        /\ UNCHANGED <<page, redirecting, loaded, foreign>>
    BY <1>6 DEF AnswerMe
  <2> QED
    BY <2>3, <2>4, <2>5
<1>7. ASSUME NEW q \in Fetching, Answer(q) \/ Unauthorized(q) PROVE SessionOfType'
  BY <1>7 DEF Answer, Unauthorized, Redirect, EndSession, ResetCurrentUser, Forget
<1> QED
  BY <1>1, <1>2, <1>3, <1>4, <1>5, <1>6, <1>7 DEF SessionNext

SubscriptionOfType == unchecked \subseteq Tabs /\ lost \subseteq 1 .. issued /\ pushing \in BOOLEAN

LEMMA SubscriptionNextTyped ==
  SubscriptionInv /\ SubscriptionOfType /\ [SubscriptionNext]_subscriptionVars => SubscriptionOfType'
<1> SUFFICES ASSUME SubscriptionInv, SubscriptionOfType, [SubscriptionNext]_subscriptionVars
             PROVE  SubscriptionOfType'
  OBVIOUS
<1>1. issued \in Nat /\ issued <= MaxEndpoints
  BY DEF SubscriptionInv, SubscriptionTyped
<1> USE <1>1 DEF SubscriptionOfType, pushTabVars, pushRunVars
<1>2. CASE UNCHANGED subscriptionVars
  BY <1>2 DEF subscriptionVars
<1>3. ASSUME NEW t \in Tabs,
             CheckSubscription(t) \/ Toggle(t) \/ Subscribed(t) \/ GetSubscription(t) \/ Drop(t)
             \/ DeletePushSubscription(t) \/ Unsubscribed(t)
      PROVE  SubscriptionOfType'
  BY <1>3 DEF CheckSubscription, Toggle, Subscribed, GetSubscription, Drop, DeletePushSubscription,
     Unsubscribed
<1>4. ASSUME NEW t \in Tabs, Subscribe(t) PROVE SubscriptionOfType'
  <2>1. UNCHANGED <<unchecked, lost, pushing>> /\ (issued' = issued \/ issued' = issued + 1)
    BY <1>4 DEF Subscribe
  <2> QED
    BY <2>1
<1>5. ASSUME NEW t \in Tabs, UpsertPushSubscription(t) PROVE SubscriptionOfType'
  BY <1>5 DEF UpsertPushSubscription, StoreRow
<1>6. ASSUME NEW t \in Tabs, OperationFails(t) \/ ReloadTab(t) PROVE SubscriptionOfType'
  <2>1. /\ lost' = lost \cup Unstored(t) /\ UNCHANGED <<issued, pushing>>
        /\ unchecked' \subseteq Tabs
    BY <1>6 DEF OperationFails, ReloadTab, Abandon
  <2>2. ASSUME NEW e \in Unstored(t) PROVE e \in 1 .. issued
    <3>1. doing[t].at = "post" /\ e = doing[t].endpoint
      BY <2>2 DEF Unstored
    <3>2. doing[t].endpoint \in {0} \cup Endpoints /\ doing[t].endpoint <= issued /\ doing[t].endpoint # 0
      BY <3>1, SubscriptionTypes DEF SubscriptionInv, LiveIsKept
    <3> QED
      BY <3>1, <3>2, PushSubscriptionAssumption DEF Endpoints
  <2> QED
    BY <2>1, <2>2
<1>7. CASE Vanish \/ ListPushSubscriptions \/ DeleteDead
  BY <1>7 DEF Vanish, ListPushSubscriptions, DeleteDead
<1>8. ASSUME NEW e \in Endpoints, SendNotification(e) PROVE SubscriptionOfType'
  BY <1>8 DEF SendNotification
<1> QED
  BY <1>2, <1>3, <1>4, <1>5, <1>6, <1>7, <1>8 DEF SubscriptionNext

LEMMA SubscriptionIsTyped == SubscriptionInv /\ SubscriptionOfType => SubscriptionTypeOK
BY PushSubscriptionAssumption DEF SubscriptionInv, SubscriptionTyped, SubscriptionOfType,
   SubscriptionTypeOK, DoingType, Endpoints

\* Of the pages that follow commands: those of PagesInv are the rest.
JobPagesOfType ==
  /\ tab \in {"jobs", "other"} /\ mounted \in BOOLEAN /\ ready \in BOOLEAN
  /\ pollTimer \in BOOLEAN /\ polling \in BOOLEAN
  /\ presses \in 0 .. MaxPresses /\ unfinished \subseteq {"own", "other"}
  /\ failed \in BOOLEAN /\ crossed \in BOOLEAN /\ trailing \in BOOLEAN

LEMMA LoadIsTyped ==
  ASSUME NEW running \in BOOLEAN, Load(running), JobPagesOfType
  PROVE  pollTimer' \in BOOLEAN /\ polling' \in BOOLEAN /\ failed' \in BOOLEAN /\ crossed' \in BOOLEAN
BY DEF Load, StopJobsPolling, JobPagesOfType

LEMMA JobPagesNextTyped == JobPagesOfType /\ [JobPagesNext]_jobPagesVars => JobPagesOfType'
<1> SUFFICES ASSUME JobPagesOfType, [JobPagesNext]_jobPagesVars PROVE JobPagesOfType'
  OBVIOUS
<1> USE JobPagesAssumption DEF JobPagesOfType, requestVars, pageVars
<1>1. CASE UNCHANGED jobPagesVars
  BY <1>1 DEF jobPagesVars
<1>2. CASE Fire
  BY <1>2, LoadIsTyped DEF Fire
<1>3. CASE FireOrphan
  BY <1>3, LoadIsTyped DEF FireOrphan
<1>4. CASE ServeList \/ OthersChange
  BY <1>4 DEF ServeList, OthersChange
<1>5. ASSUME NEW l \in Lists, ListAnswered(l) PROVE JobPagesOfType'
  BY <1>5 DEF ListAnswered, SetTimer
<1>6. CASE ListIsLost
  BY <1>6 DEF ListIsLost
<1>7. CASE Ready
  BY <1>7, LoadIsTyped DEF Ready
<1>8. ASSUME NEW name \in {"jobs", "other"}, SelectTab(name) PROVE JobPagesOfType'
  <2>1. /\ presses < MaxPresses /\ presses' = presses + 1 /\ tab' = name
        /\ UNCHANGED <<mounted, ready, unfinished, trailing>>
    BY <1>8 DEF SelectTab
  <2>2. pollTimer' \in BOOLEAN /\ polling' \in BOOLEAN /\ failed' \in BOOLEAN /\ crossed' \in BOOLEAN
    BY <1>8, LoadIsTyped DEF SelectTab, SetTimer, StopJobsPolling
  <2> QED
    BY <2>1, <2>2
<1>9. ASSUME NEW b \in Buttons, Press(b) \/ ServePress(b) \/ PressFails(b) PROVE JobPagesOfType'
  <2>1. CASE Press(b)
    <3>1. presses < MaxPresses /\ presses' = presses + 1
      BY <2>1 DEF Press
    <3>2. presses' \in 0 .. MaxPresses
      BY <3>1
    <3>3. UNCHANGED <<requestVars, mounted, ready, tab, unfinished, trailing>>
      BY <2>1 DEF Press
    <3> QED
      BY <3>2, <3>3
  <2>3. CASE PressFails(b)
    BY <2>3 DEF PressFails
  <2>2. CASE ServePress(b)
    <3>1. unfinished' \subseteq {"own", "other"}
      BY <2>2 DEF ServePress
    <3>2. crossed' \in BOOLEAN
      BY <2>2 DEF ServePress
    <3>3. UNCHANGED <<pollTimer, polling, failed, mounted, ready, tab, presses, trailing>>
      BY <2>2 DEF ServePress
    <3> QED
      BY <3>1, <3>2, <3>3
  <2> QED
    BY <1>9, <2>1, <2>2, <2>3
<1>10. ASSUME NEW b \in Buttons, PressAnswered(b) PROVE JobPagesOfType'
  BY <1>10, LoadIsTyped DEF PressAnswered
<1>11. CASE Leave
  BY <1>11 DEF Leave
<1> QED
  BY <1>1, <1>2, <1>3, <1>4, <1>5, <1>6, <1>7, <1>8, <1>9, <1>10, <1>11 DEF JobPagesNext

LEMMA JobPagesAreTyped == Pressed /\ PagesInv /\ JobPagesOfType => JobPagesTypeOK
BY DEF Pressed, PagesInv, ViewIsKnown, NothingYet, Counted, JobPagesOfType, JobPagesTypeOK

-----------------------------------------------------------------------------

\* A list is as long as all agents are many at most.
ListOfType == ListTypeOK /\ shown.total <= Cardinality(Agents)

LEMMA AnswersAreTyped ==
  ASSUME gone \in SUBSET Agents, NEW f \in Filters, NEW p \in Pages
  PROVE  /\ Matching(f) \in SUBSET Agents /\ OnPage(f, p) \in SUBSET Agents
         /\ Cardinality(Matching(f)) \in Nat /\ Cardinality(Matching(f)) <= Cardinality(Agents)
         /\ Cardinality(Agents) \in Nat /\ SafePage(f, p) \in Pages
<1>1. Matching(f) \subseteq Agents /\ IsFiniteSet(Agents)
  BY ListAssumption DEF Matching, Agents
<1>2. /\ Cardinality(Matching(f)) \in Nat /\ Cardinality(Matching(f)) <= Cardinality(Agents)
      /\ Cardinality(Agents) \in Nat
  BY <1>1, FS_Subset, FS_CardinalityType
<1>3. SafePage(f, p) \in Pages
  <2> DEFINE total == Cardinality(Matching(f))
             all0 == Cardinality(Agents)
  <2>1. SafePage(f, p) = IF total = 0 THEN 1 ELSE IF p > total THEN total ELSE p
    BY DEF SafePage
  <2>2. total \in Nat /\ all0 \in Nat /\ total <= all0
    BY <1>2
  <2>3. Pages = {1} \cup 1 .. all0
    BY DEF Pages
  <2> HIDE DEF total, all0
  <2> QED
    BY <2>1, <2>2, <2>3
<1> QED
  BY <1>1, <1>2, <1>3 DEF OnPage

LEMMA HomeIsPlaced == Home \in Places /\ Nothing \notin Places
BY ListAssumption DEF Home, Places, Pages

LEMMA ListInitTyped == ListInit => ListOfType
<1> SUFFICES ASSUME ListInit PROVE ListOfType
  OBVIOUS
<1>1. Cardinality(Agents) \in Nat
  BY ListAssumption, FS_CardinalityType DEF Agents
<1>2. /\ refs \in Places /\ query \in Places /\ going \in Places \cup {Nothing} /\ listed \in SUBSET Places
      /\ loading \in BOOLEAN
  BY HomeIsPlaced DEF ListInit
<1>3. /\ shown \in [for : Places \cup {Nothing}, items : SUBSET Agents, total : Nat] /\ shown.total = 0
  BY DEF ListInit
<1>4. /\ gone \in SUBSET Agents /\ selected \in SUBSET Agents
      /\ matching \in Filters \cup {Nothing} /\ repeating \in BOOLEAN
  BY DEF ListInit
<1>5. /\ dialog = Nothing /\ sending \in SUBSET Purposes /\ unconfirmed \in BOOLEAN
  BY DEF ListInit
<1> QED
  BY <1>1, <1>2, <1>3, <1>4, <1>5 DEF ListOfType, ListTypeOK

\* What is shown and where, and what is selected, are changed apart.
PlacesOfType ==
  /\ refs \in Places /\ query \in Places /\ going \in Places \cup {Nothing}
  /\ listed \in SUBSET Places /\ loading \in BOOLEAN
  /\ shown \in [for : Places \cup {Nothing}, items : SUBSET Agents, total : Nat]
  /\ shown.total <= Cardinality(Agents) /\ gone \in SUBSET Agents

ConfirmDialogs == {Nothing} \cup [for : Purposes, agents : SUBSET Agents, slipped : BOOLEAN]
ChoiceOfType ==
  /\ selected \in SUBSET Agents /\ matching \in Filters \cup {Nothing} /\ repeating \in BOOLEAN
  /\ dialog \in ConfirmDialogs /\ sending \in SUBSET Purposes /\ unconfirmed \in BOOLEAN

LEMMA BothOfType == ListOfType <=> PlacesOfType /\ ChoiceOfType
BY DEF ListOfType, ListTypeOK, PlacesOfType, ChoiceOfType, ConfirmDialogs

LEMMA ChangeIsTyped ==
  ASSUME PlacesOfType, NEW place \in Places, ChangeRefs(place), UNCHANGED <<query, shown, gone>>
  PROVE  PlacesOfType'
BY DEF ChangeRefs, Synchronize, FetchData, AfterAbort, PlacesOfType

LEMMA PlacesNextTyped ==
  ASSUME PlacesOfType, [ListNext]_listVars PROVE PlacesOfType'
<1>0. /\ Home \in Places /\ Cardinality(Agents) \in Nat
      /\ refs \in Places /\ query \in Places /\ shown.total \in Nat /\ shown.total <= Cardinality(Agents)
  <2>1. IsFiniteSet(Agents)
    BY ListAssumption DEF Agents
  <2> QED
    BY <2>1, HomeIsPlaced, FS_CardinalityType DEF PlacesOfType
<1>u. ASSUME UNCHANGED <<refs, query, going, listed, shown, loading, gone>> PROVE PlacesOfType'
  BY <1>u DEF PlacesOfType
<1>s. ASSUME NEW S, Select(S) PROVE PlacesOfType'
  BY <1>s, <1>u DEF Select
<1>1. CASE UNCHANGED listVars
  BY <1>1, <1>u DEF listVars
<1>2. ASSUME NEW f \in Filters, SetFilter(f) PROVE PlacesOfType'
  <2> DEFINE place == [filter |-> f, page |-> 1]
  <2>1. place \in Places
    BY DEF Places, Pages
  <2>2. ChangeRefs(place) /\ UNCHANGED <<query, shown, gone>>
    BY <1>2 DEF SetFilter
  <2> HIDE DEF place
  <2> QED
    BY <2>1, <2>2, ChangeIsTyped
<1>3. CASE NextPage
  <2> DEFINE place == [refs EXCEPT !.page = @ + 1]
  <2>0. refs.page < shown.total
    BY <1>3 DEF NextPage
  <2>1. place \in Places
    BY <1>0, <2>0 DEF Places, Pages
  <2>2. ChangeRefs(place) /\ UNCHANGED <<query, shown, gone>>
    BY <1>3 DEF NextPage
  <2> HIDE DEF place
  <2> QED
    BY <2>1, <2>2, ChangeIsTyped
<1>4. CASE PrevPage
  <2> DEFINE place == [refs EXCEPT !.page = @ - 1]
  <2>0. refs.page > 1
    BY <1>4 DEF PrevPage
  <2>1. place \in Places
    BY <1>0, <2>0 DEF Places, Pages
  <2>2. ChangeRefs(place) /\ UNCHANGED <<query, shown, gone>>
    BY <1>4 DEF PrevPage
  <2> HIDE DEF place
  <2> QED
    BY <2>1, <2>2, ChangeIsTyped
<1>5. CASE FollowLink
  BY <1>0, <1>5 DEF FollowLink, PlacesOfType
<1>6. CASE Arrive
  BY <1>0, <1>6 DEF Arrive, FetchData, AfterAbort, PlacesOfType
<1>7. ASSUME NEW place \in listed, AnswerList(place) PROVE PlacesOfType'
  <2>1. place \in Places /\ place.filter \in Filters /\ place.page \in Pages
    BY DEF PlacesOfType, Places
  <2> DEFINE safe == SafePage(place.filter, place.page)
             items == OnPage(place.filter, place.page)
             total == Cardinality(Matching(place.filter))
  <2>2. safe \in Pages /\ items \in SUBSET Agents /\ total \in Nat /\ total <= Cardinality(Agents)
    BY <2>1, AnswersAreTyped DEF PlacesOfType
  <2>3. /\ shown' = [for |-> place, items |-> items, total |-> total]
        /\ UNCHANGED <<query, gone>>
        /\ \/ listed' = listed \ {place} /\ loading' = FALSE /\ UNCHANGED <<refs, going>>
           \/ /\ refs' = [refs EXCEPT !.page = safe] /\ Synchronize(refs')
              /\ listed' = (AfterAbort \ {place}) \cup {refs'} /\ loading' = TRUE
    BY <1>7 DEF AnswerList
  <2> HIDE DEF safe, items, total
  <2>4. /\ shown' \in [for : Places \cup {Nothing}, items : SUBSET Agents, total : Nat]
        /\ shown'.total <= Cardinality(Agents)
    BY <2>1, <2>2, <2>3
  <2>5. refs' \in Places /\ query' \in Places /\ gone' \in SUBSET Agents /\ loading' \in BOOLEAN
    BY <1>0, <2>2, <2>3 DEF Places, PlacesOfType
  <2>6. going' \in Places \cup {Nothing} /\ listed' \in SUBSET Places
    BY <2>3, <2>5 DEF PlacesOfType, Synchronize, AfterAbort
  <2> QED
    BY <2>4, <2>5, <2>6 DEF PlacesOfType
<1>8. ASSUME NEW place \in listed, ListFails(place) PROVE PlacesOfType'
  BY <1>8 DEF ListFails, PlacesOfType
<1>9. ASSUME NEW a \in Agents, Disappear(a) PROVE PlacesOfType'
  BY <1>9 DEF Disappear, PlacesOfType, choice
<1>10. ASSUME NEW a \in Agents, ToggleSelect(a) PROVE PlacesOfType'
  BY <1>10, <1>s DEF ToggleSelect
<1>11. CASE ToggleSelectAllVisible \/ ClearSelection \/ SelectAllMatching \/ AnswerMatching \/ Cancel \/ Confirm
  BY <1>11, <1>s DEF ToggleSelectAllVisible, ClearSelection, SelectAllMatching, AnswerMatching, Cancel, Confirm
<1>12. ASSUME NEW S \in SUBSET Agents, AnswerRepeat(S) PROVE PlacesOfType'
  BY <1>0, <1>12 DEF AnswerRepeat, PlacesOfType
<1>13. ASSUME NEW purpose \in Purposes, Ask(purpose) PROVE PlacesOfType'
  BY <1>13, <1>s DEF Ask
<1>14. ASSUME NEW purpose \in Purposes, Sent(purpose) PROVE PlacesOfType'
  BY <1>0, <1>14 DEF Sent, FetchData, AfterAbort, PlacesOfType
<1> QED
  BY <1>1, <1>2, <1>3, <1>4, <1>5, <1>6, <1>7, <1>8, <1>9, <1>10, <1>11, <1>12, <1>13, <1>14 DEF ListNext

LEMMA SlipIsTyped == ASSUME dialog \in ConfirmDialogs, Slip PROVE dialog' \in ConfirmDialogs
BY DEF Slip, ConfirmDialogs

LEMMA ChoiceNextTyped ==
  ASSUME PlacesOfType, ChoiceOfType, [ListNext]_listVars PROVE ChoiceOfType'
<1>0. /\ selected \in SUBSET Agents /\ shown.items \in SUBSET Agents /\ refs.filter \in Filters
      /\ dialog \in ConfirmDialogs /\ gone \in SUBSET Agents
      /\ matching \in Filters \cup {Nothing} /\ repeating \in BOOLEAN
      /\ sending \in SUBSET Purposes /\ unconfirmed \in BOOLEAN
  BY DEF PlacesOfType, ChoiceOfType, Places
<1>u. ASSUME UNCHANGED choice PROVE ChoiceOfType'
  BY <1>u DEF choice, ChoiceOfType
<1>1. CASE UNCHANGED listVars
  BY <1>1, <1>u DEF listVars
<1>2. CASE NextPage \/ PrevPage \/ FollowLink \/ Arrive \/ \E f \in Filters : SetFilter(f)
  BY <1>2, <1>u DEF NextPage, PrevPage, FollowLink, Arrive, SetFilter
<1>3. ASSUME NEW place \in listed, ListFails(place) PROVE ChoiceOfType'
  BY <1>3, <1>u DEF ListFails
<1>4. ASSUME NEW place \in listed, AnswerList(place) PROVE ChoiceOfType'
  BY <1>4, <1>u DEF AnswerList, SelectedAfter, choice
<1>5. ASSUME NEW a \in Agents, Disappear(a) PROVE ChoiceOfType'
  BY <1>5, <1>u DEF Disappear
<1>6. ASSUME NEW a \in Agents, ToggleSelect(a) PROVE ChoiceOfType'
  BY <1>0, <1>6 DEF ToggleSelect, Select, ChoiceOfType
<1>7. CASE ToggleSelectAllVisible \/ ClearSelection
  BY <1>0, <1>7 DEF ToggleSelectAllVisible, ClearSelection, Select, ChoiceOfType
<1>8. CASE SelectAllMatching
  BY <1>0, <1>8 DEF SelectAllMatching, Select, ChoiceOfType
<1>9. CASE AnswerMatching
  <2>1. matching \in Filters /\ matching' = Nothing /\ UNCHANGED <<repeating, sending, unconfirmed>>
        /\ \/ Select(Matching(matching)) /\ Slip
           \/ Select(selected) /\ UNCHANGED dialog
    BY <1>0, <1>9 DEF AnswerMatching
  <2>2. Matching(matching) \in SUBSET Agents
    BY <2>1, ListAssumption DEF Matching, Agents
  <2>3. dialog' \in ConfirmDialogs /\ selected' \in SUBSET Agents
    BY <1>0, <2>1, <2>2, SlipIsTyped DEF Select
  <2> QED
    BY <1>0, <2>1, <2>3 DEF ChoiceOfType
<1>10. ASSUME NEW S \in SUBSET Agents, AnswerRepeat(S) PROVE ChoiceOfType'
  BY <1>0, <1>10, SlipIsTyped DEF AnswerRepeat, ChoiceOfType
<1>11. ASSUME NEW purpose \in Purposes, Ask(purpose) PROVE ChoiceOfType'
  BY <1>0, <1>11 DEF Ask, Select, ChoiceOfType, ConfirmDialogs
<1>12. CASE Cancel
  BY <1>0, <1>12 DEF Cancel, Select, ChoiceOfType, ConfirmDialogs
<1>13. CASE Confirm
  <2>1. /\ dialog # Nothing /\ dialog' = Nothing /\ sending' = sending \cup {dialog.for}
        /\ selected' = selected /\ UNCHANGED <<matching, repeating>>
        /\ unconfirmed' \in BOOLEAN
    BY <1>0, <1>13 DEF Confirm, Select
  <2>2. dialog.for \in Purposes
    BY <1>0, <2>1 DEF ConfirmDialogs
  <2> QED
    BY <1>0, <2>1, <2>2 DEF ChoiceOfType, ConfirmDialogs
<1>14. ASSUME NEW purpose \in Purposes, Sent(purpose) PROVE ChoiceOfType'
  BY <1>0, <1>14, SlipIsTyped DEF Sent, ChoiceOfType
<1> QED
  BY <1>1, <1>2, <1>3, <1>4, <1>5, <1>6, <1>7, <1>8, <1>9, <1>10, <1>11, <1>12, <1>13, <1>14 DEF ListNext

LEMMA ListNextTyped == ListOfType /\ [ListNext]_listVars => ListOfType'
<1>1. ListOfType' <=> PlacesOfType' /\ ChoiceOfType'
  BY DEF ListOfType, ListTypeOK, PlacesOfType, ChoiceOfType, ConfirmDialogs
<1> QED
  BY <1>1, BothOfType, PlacesNextTyped, ChoiceNextTyped

-----------------------------------------------------------------------------
(* The console: the server's parts and the browser's together, of which    *)
(* one moves.                                                              *)

\* What makes the pages and the queries agree, in each part.
ShownInv ==
  /\ ListInv /\ ViewsInv
  /\ AnalyticsTypeOK /\ EntriesInv /\ FlaggedInv /\ FleetInv /\ PrintersInv

consoleVars == <<part, serverVars, browserVars, tableVars>>

LEMMA ConsoleMovesTables ==
  ASSUME [MCNext]_consoleVars
  PROVE  /\ [AnalyticsNext]_analyticsVars /\ [EntriesNext]_entriesVars /\ [FlaggedNext]_flaggedVars
         /\ [FleetNext]_fleetVars /\ [PrintersNext]_printersVars
BY DEF MCNext, consoleVars, tableVars

LEMMA ConsoleMovesPages ==
  ASSUME [MCNext]_consoleVars
  PROVE  /\ [SessionNext]_sessionVars /\ [ListNext]_listVars /\ [JobPagesNext]_jobPagesVars
         /\ [SubscriptionNext]_subscriptionVars /\ [ViewsNext]_viewsVars
BY DEF MCNext, consoleVars, browserVars

LEMMA ShownStarts == MCInit => ShownInv
BY ListInvInit, ViewsInitInv, AnalyticsInitTyped, EntriesInitInv, FlaggedInitInv, FleetInitInv,
   PrintersInitInv DEF MCInit, ShownInv

LEMMA ShownGoesOn == ShownInv /\ [MCNext]_consoleVars => ShownInv'
<1> SUFFICES ASSUME ShownInv, [MCNext]_consoleVars PROVE ShownInv'
  OBVIOUS
<1>1. ListInv' /\ ViewsInv'
  BY ConsoleMovesPages, ListInvNext, ViewsNextInv DEF ShownInv
<1>2. AnalyticsTypeOK' /\ EntriesInv' /\ FlaggedInv' /\ FleetInv' /\ PrintersInv'
  BY ConsoleMovesTables, AnalyticsNextTyped, EntriesNextInv, FlaggedNextInv, FleetNextInv,
     PrintersNextInv DEF ShownInv
<1> QED
  BY <1>1, <1>2 DEF ShownInv

\* Whichever part of the console moves, its pages show what the server has once nothing is under
\* way, and the queries that describe the same rows agree, for any tables, requests and changes, with
\* the exceptions each part names: of the figures for the classes of connectivity only the sum agrees
\* with the filter, unless the active agents are of one class (CountsAgree).
THEOREM ConsoleAgrees == MCSpec => []ShownAgrees
<1>1. ShownInv => PagesAreInStep
  BY PageFollows DEF ShownInv, ListInv, InStep, ListIsInStep, ViewsInv, PagesAreInStep
<1>2. ShownInv => QueriesAgree
  BY ReportIsOne, EntriesAreOne, FlagsAreOne, FleetIsOne, RegisterIsOne, ConnectedAreShared
     DEF ShownInv, QueriesAgree, FlaggedInv, PrintersInv
<1> QED
  BY <1>1, <1>2, ShownStarts, ShownGoesOn, PTL DEF MCSpec, ShownAgrees, consoleVars

\* What the parts keep to, so that what they have is of its type.
ServerInv == ManagerInv /\ ReportsInv /\ ReportsOfType /\ AccountsInv
BrowserInv ==
  /\ SessionInv /\ SessionOfType /\ SubscriptionInv /\ SubscriptionOfType
  /\ Pressed /\ PagesInv /\ JobPagesOfType /\ ListOfType /\ ViewsTyped

LEMMA ConsoleMovesServer ==
  ASSUME [MCNext]_consoleVars
  PROVE  [ManagerNext]_managerVars /\ [ReportsNext]_reportsVars /\ [AccountsNext]_accountVars
BY DEF MCNext, consoleVars, serverVars

LEMMA BrowserStarts == MCInit => BrowserInv
<1> SUFFICES ASSUME MCInit PROVE BrowserInv
  OBVIOUS
<1>0. /\ SessionInit /\ SubscriptionInit /\ JobPagesInit /\ ListInit /\ ViewsInit
  BY DEF MCInit
<1>1. SessionInv /\ SubscriptionInv /\ PagesInv /\ ListOfType /\ ViewsTyped
  BY <1>0, SessionInitInv, SubscriptionInitInv, PagesInitInv, ListInitTyped, ViewsInitTyped
<1>2. SessionOfType /\ SubscriptionOfType
  BY <1>0 DEF SessionInit, SessionOfType, SubscriptionInit, SubscriptionOfType
<1>3. Pressed /\ JobPagesOfType
  <2>1. /\ tab \in {"jobs", "other"} /\ mounted = TRUE /\ ready \in BOOLEAN /\ pollTimer = FALSE
        /\ polling = FALSE /\ presses = 0 /\ unfinished \in SUBSET {"other"}
        /\ failed = FALSE /\ crossed = FALSE /\ trailing = FALSE
        /\ pressed = [b \in Buttons |-> "no"]
    BY <1>0 DEF JobPagesInit
  <2>2. Pressed
    BY <2>1 DEF Pressed
  <2>3. presses \in 0 .. MaxPresses
    BY <2>1, JobPagesAssumption
  <2> QED
    BY <2>1, <2>2, <2>3, Zenon DEF JobPagesOfType
<1> QED
  BY <1>1, <1>2, <1>3 DEF BrowserInv

LEMMA BrowserGoesOn == ViewsInv /\ BrowserInv /\ [MCNext]_consoleVars => BrowserInv'
<1> SUFFICES ASSUME ViewsInv, BrowserInv, [MCNext]_consoleVars PROVE BrowserInv'
  OBVIOUS
<1>1. /\ [SessionNext]_sessionVars /\ [ListNext]_listVars /\ [JobPagesNext]_jobPagesVars
      /\ [SubscriptionNext]_subscriptionVars /\ [ViewsNext]_viewsVars
  BY ConsoleMovesPages
<1>2. SessionInv' /\ SessionOfType'
  BY <1>1, SessionNextInv, SessionNextTyped DEF BrowserInv, SessionInv
<1>3. SubscriptionInv' /\ SubscriptionOfType'
  BY <1>1, SubscriptionNextInv, SubscriptionNextTyped DEF BrowserInv
<1>4. Pressed' /\ PagesInv' /\ JobPagesOfType'
  BY <1>1, PressedNext, PagesNextInv, JobPagesNextTyped DEF BrowserInv
<1>5. ListOfType' /\ ViewsTyped'
  BY <1>1, ListNextTyped, ViewsNextTyped DEF BrowserInv, ViewsInv
<1> QED
  BY <1>2, <1>3, <1>4, <1>5 DEF BrowserInv

LEMMA ServerStarts == MCInit => ServerInv
BY ManagerInitInv, ReportsInitInv, ReportsInitOfType, AccountsInitInv DEF MCInit, ServerInv

LEMMA ServerGoesOn == ServerInv /\ [MCNext]_consoleVars => ServerInv'
BY ConsoleMovesServer, ManagerNextInv, ReportsNextInv, ReportsNextOfType, AccountsNextInv DEF ServerInv

LEMMA ServerIsTyped == ServerInv => ManagerTypeOK /\ ReportsTypeOK /\ AccountsTypeOK
<1> SUFFICES ASSUME ServerInv PROVE ManagerTypeOK /\ ReportsTypeOK /\ AccountsTypeOK
  OBVIOUS
<1>1. ManagerTypeOK
  BY DEF ServerInv, ManagerInv
<1>2. ReportsTypeOK
  BY DEF ServerInv, ReportsInv, ReportsOfType, ReportsTyped, ReportsTypeOK, CycleType
<1>3. AccountsTypeOK
  <2>1. /\ users \in [Users -> UserRows] /\ tokens \in SUBSET [id : Users, role : Roles]
        /\ chosen \in [Users -> Texts] /\ undone \in SUBSET Users /\ overlapped \in BOOLEAN
    BY DEF ServerInv, AccountsInv, AccountsTyped
  <2>2. ASSUME NEW h \in Requests, request[h] # NoRequest
        PROVE  /\ request[h].op \in {"login", "password", "role", "delete"}
               /\ request[h].step \in {"upgrade", "count", "write"} /\ request[h].id \in Users
    <3>1. request[h] \in LoginRequests \cup PasswordRequests \cup RoleRequests \cup DeleteRequests
      BY <2>2 DEF ServerInv, AccountsInv, AccountsTyped, RequestsAreTyped
    <3> QED
      BY <3>1 DEF LoginRequests, PasswordRequests, RoleRequests, DeleteRequests
  <2> QED
    BY <2>1, <2>2 DEF AccountsTypeOK
<1> QED
  BY <1>1, <1>2, <1>3

LEMMA BrowserIsTyped ==
  ViewsInv /\ BrowserInv => /\ SessionTypeOK /\ ListTypeOK /\ JobPagesTypeOK
                            /\ SubscriptionTypeOK /\ ViewsTypeOK
<1> SUFFICES ASSUME ViewsInv, BrowserInv
             PROVE  /\ SessionTypeOK /\ ListTypeOK /\ JobPagesTypeOK
                    /\ SubscriptionTypeOK /\ ViewsTypeOK
  OBVIOUS
<1>1. SessionTypeOK
  BY DEF BrowserInv, SessionInv, SessionTyped, SessionOfType, SessionTypeOK
<1>2. ListTypeOK /\ JobPagesTypeOK /\ SubscriptionTypeOK
  BY JobPagesAreTyped, SubscriptionIsTyped DEF BrowserInv, ListOfType
<1>3. ViewsTypeOK
  BY ViewsAreTyped DEF BrowserInv, ViewsInv
<1> QED
  BY <1>1, <1>2, <1>3

\* Whichever part of the console moves, what it keeps is of its type: the Manager's commands, the
\* reports, the accounts, the pages and all that they ask for, and the tables they show.
THEOREM ConsoleIsTyped == MCSpec => []TypesOK
<1>1. ShownInv => ViewsInv
  BY DEF ShownInv
<1>2. ShownInv => /\ AnalyticsTypeOK /\ EntriesTypeOK /\ FlaggedTypeOK /\ FleetTypeOK /\ PrintersTypeOK
  BY DEF ShownInv, EntriesInv, FlaggedInv, FleetInv, PrintersInv
<1>3. ShownInv /\ ServerInv /\ BrowserInv => TypesOK
  BY <1>1, <1>2, ServerIsTyped, BrowserIsTyped DEF TypesOK
<1> QED
  BY <1>1, <1>3, ShownStarts, ShownGoesOn, ServerStarts, ServerGoesOn, BrowserStarts, BrowserGoesOn, PTL
     DEF MCSpec, consoleVars
=============================================================================
