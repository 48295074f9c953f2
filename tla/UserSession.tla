---------------------------- MODULE UserSession ----------------------------
(***************************************************************************)
(* The session of a browser: the token in localStorage, which all its tabs *)
(* share, the guard of the router, fetchWithAuth with its redirect to the  *)
(* login page, and the user that useCurrentUser keeps for every component  *)
(* of one tab.  The other tabs are an environment that replaces the token. *)
(*                                                                         *)
(* A request is "me" (GET /api/auth/me) or any other one.  Code between    *)
(* two awaits is one step.                                                 *)
(***************************************************************************)
EXTENDS Naturals

CONSTANTS
  People,   \* who logs in
  NoOne,    \* no user
  Fetching  \* bound: requests in flight

ASSUME SessionAssumption == NoOne \notin People

VARIABLES
  token,        \* localStorage "token": whose, and whether it is still valid
  page,         \* the login page, the way to a route that requires a session, or such a route
  redirecting,  \* redirectingToLogin: the push to the login page is on its way
  currentUser,  \* useCurrentUser's user
  loaded,       \* whether loadPromise is set
  inFlight,     \* the requests: [kind, user, old]
  foreign,      \* whether another tab replaced the token since the last reset (history)
  overtaken     \* whether an answer from before the last reset set currentUser (history)

sessionVars == <<token, page, redirecting, currentUser, loaded, inFlight, foreign, overtaken>>

NoToken == [user |-> NoOne, valid |-> FALSE]
Unused == [kind |-> "none", user |-> NoOne, old |-> FALSE]

SessionTypeOK ==
  /\ token \in {NoToken} \cup [user : People, valid : BOOLEAN]
  /\ page \in {"login", "opening", "app"} /\ redirecting \in BOOLEAN
  /\ currentUser \in People \cup {NoOne} /\ loaded \in BOOLEAN
  /\ inFlight \in [Fetching -> {Unused} \cup [kind : {"me", "other"}, user : People, old : BOOLEAN]]
  /\ foreign \in BOOLEAN /\ overtaken \in BOOLEAN

SessionInit ==
  /\ token = NoToken /\ page = "login" /\ redirecting = FALSE
  /\ currentUser = NoOne /\ loaded = FALSE
  /\ inFlight = [q \in Fetching |-> Unused]
  /\ foreign = FALSE /\ overtaken = FALSE

-----------------------------------------------------------------------------

\* A request that is in flight goes on.
Forget ==
  /\ currentUser' = NoOne
  /\ inFlight' = [q \in Fetching |-> IF inFlight[q] = Unused THEN Unused
                                     ELSE [inFlight[q] EXCEPT !.old = TRUE]]
  /\ foreign' = FALSE /\ overtaken' = FALSE

ResetCurrentUser == Forget /\ loaded' = FALSE

\* safeRedirectToLogin beyond its two early returns, and the guard that refuses a route.
EndSession == token' = NoToken /\ ResetCurrentUser

Send(kind) ==
  \E q \in Fetching :
    /\ inFlight[q] = Unused /\ \A p \in Fetching : p < q => inFlight[p] # Unused
    /\ inFlight' = [inFlight EXCEPT ![q] = [kind |-> kind, user |-> token.user, old |-> FALSE]]

-----------------------------------------------------------------------------
(* What the user does.                                                     *)

\* handleLogin stores the token, whatever it finds there; then it navigates.
Login(u) ==
  /\ page = "login"
  /\ token' = [user |-> u, valid |-> TRUE]
  /\ UNCHANGED <<page, redirecting, currentUser, loaded, inFlight, foreign, overtaken>>

\* beforeEach, for a route that requires a session and for the login page, which is guestOnly.
Navigate ==
  \/ /\ token.valid
     /\ page' = "opening"
     /\ UNCHANGED <<token, redirecting, currentUser, loaded, inFlight, foreign, overtaken>>
  \/ /\ ~token.valid
     /\ page' = "login" /\ EndSession
     /\ UNCHANGED redirecting

\* Mutant: the button leaves the user of the session behind.
KeepCurrentUser == UNCHANGED <<currentUser, loaded, inFlight, foreign, overtaken>>

ForgetUser == ResetCurrentUser

\* LogoutButton.
Logout ==
  /\ page # "login"
  /\ token' = NoToken /\ ForgetUser
  /\ page' = "login"
  /\ UNCHANGED redirecting

\* The page is loaded anew: the module state is gone, and beforeEach looks at the token.
Reload ==
  /\ inFlight' = [q \in Fetching |-> Unused]
  /\ currentUser' = NoOne /\ loaded' = FALSE /\ redirecting' = FALSE
  /\ foreign' = FALSE /\ overtaken' = FALSE
  /\ \/ token.valid /\ page' = "opening" /\ UNCHANGED token
     \/ ~token.valid /\ page' = "login" /\ token' = NoToken

-----------------------------------------------------------------------------
(* Requests.                                                               *)

\* safeRedirectToLogin does nothing while a redirect is on its way, or when the token is valid again.
SessionIsOver == ~redirecting /\ ~token.valid

\* Only a page of the application is left; the route changes when the push has loaded it.
Redirect ==
  \/ /\ SessionIsOver
     /\ EndSession
     /\ redirecting' = (page # "login")
  \/ /\ ~SessionIsOver
     /\ UNCHANGED <<token, redirecting, currentUser, loaded, foreign, overtaken, inFlight>>

\* fetchWithAuth: without a valid token nothing is sent.
Fetch ==
  /\ page # "login"
  /\ \/ /\ token.valid /\ Send("other")
        /\ UNCHANGED <<token, redirecting, currentUser, loaded, foreign, overtaken>>
     \/ ~token.valid /\ Redirect
  /\ UNCHANGED page

\* The route is there and its components call useCurrentUser: load() asks once.  When the session is
\* over by now, the redirect resets the promise and load() sets it afterwards.
Mount ==
  /\ page = "opening" /\ ~redirecting
  /\ page' = "app"
  /\ loaded' = TRUE
  /\ \/ loaded /\ UNCHANGED <<token, redirecting, currentUser, inFlight, foreign, overtaken>>
     \/ /\ ~loaded /\ token.valid /\ Send("me")
        /\ UNCHANGED <<token, redirecting, currentUser, foreign, overtaken>>
     \/ /\ ~loaded /\ ~token.valid
        /\ token' = NoToken /\ redirecting' = TRUE /\ Forget

\* /auth/me answers with the user of the token it was sent with, however late.
AnswerMe(q) ==
  /\ inFlight[q].kind = "me"
  /\ currentUser' = inFlight[q].user
  /\ overtaken' = (overtaken \/ inFlight[q].old)
  /\ inFlight' = [inFlight EXCEPT ![q] = Unused]
  /\ UNCHANGED <<token, page, redirecting, loaded, foreign>>

\* Any other answer, or none; the promise of a failed load stays.
Answer(q) ==
  /\ inFlight[q] # Unused
  /\ inFlight' = [inFlight EXCEPT ![q] = Unused]
  /\ UNCHANGED <<token, page, redirecting, currentUser, loaded, foreign, overtaken>>

\* A 401: the token had expired when it arrived, or a password was wrong.  The answer is read, and
\* the slot of the request free, in the next step.
Unauthorized(q) ==
  /\ inFlight[q] # Unused
  /\ Redirect
  /\ UNCHANGED page

\* The push of safeRedirectToLogin ends; a session that began meanwhile is sent on by guestOnly.
FinishRedirect ==
  /\ redirecting /\ redirecting' = FALSE
  /\ page' = IF token.valid THEN "opening" ELSE "login"
  /\ UNCHANGED <<token, currentUser, loaded, inFlight, foreign, overtaken>>

-----------------------------------------------------------------------------
(* The environment.                                                        *)

Expire ==
  /\ token.valid
  /\ token' = [token EXCEPT !.valid = FALSE]
  /\ UNCHANGED <<page, redirecting, currentUser, loaded, inFlight, foreign, overtaken>>

\* Another tab logs out or logs in; this one is not told.
OtherTab(u) ==
  /\ token' = IF u = NoOne THEN NoToken ELSE [user |-> u, valid |-> TRUE]
  /\ foreign' = TRUE
  /\ UNCHANGED <<page, redirecting, currentUser, loaded, inFlight, overtaken>>

SessionNext ==
  \/ Navigate \/ Mount \/ Logout \/ Reload \/ Fetch \/ FinishRedirect \/ Expire
  \/ \E u \in People : Login(u)
  \/ \E u \in People \cup {NoOne} : OtherTab(u)
  \/ \E q \in Fetching : AnswerMe(q) \/ Answer(q) \/ Unauthorized(q)

SessionSpec == SessionInit /\ [][SessionNext]_sessionVars

-----------------------------------------------------------------------------
(* What the session guarantees.                                            *)

\* The user whose menus and buttons a tab shows is the one whose token its requests carry.  Excepted
\* are a token that was replaced while nobody forgot the user, and an answer of /auth/me that arrives
\* after its session has ended: resetCurrentUser does not keep it from setting the user.
ShownUserIsSession ==
  currentUser # NoOne => currentUser = token.user \/ foreign \/ overtaken
=============================================================================
