----------------------------- MODULE AgentList -----------------------------
(***************************************************************************)
(* The list of agents in the browser: filters and page as refs that are    *)
(* kept in step with the query of the route, the one list request that is  *)
(* not aborted, the selection, and the commands and deployment groups that *)
(* are sent for the selection once a dialog is confirmed.                  *)
(*                                                                         *)
(* What runs between two events of the browser is one step: a change of a  *)
(* ref and the watchers that Vue flushes after it.  A filter stands for a  *)
(* setting of all filter fields, a page holds one agent.  Another site is  *)
(* chosen on another view, so that there is one.                           *)
(***************************************************************************)
EXTENDS Naturals, FiniteSets

CONSTANTS
  Filters,
  AllAgents,  \* the setting without a filter
  Nothing,    \* no value
  MayGo,      \* bound: the agents that may be deleted meanwhile
  MaxOut,     \* bound on requests about the selection under way
  Matches     \* the agents that each filter selects, numbered by enrolled_at

ASSUME ListAssumption ==
  /\ AllAgents \in Filters /\ Matches \in [Filters -> SUBSET Nat]
  /\ \A f \in Filters : IsFiniteSet(Matches[f]) /\ Matches[f] \subseteq Matches[AllAgents]
  /\ Nothing \notin [filter : Filters, page : Nat]

Agents == Matches[AllAgents]
Pages == {1} \cup 1 .. Cardinality(Agents)

VARIABLES
  refs,       \* [filter, page] of usePaginatedRoute
  query,      \* the same fields of route.query
  going,      \* the query of a navigation that is on its way
  listed,     \* list requests that are neither answered nor aborted
  shown,      \* items, total, and what they were asked for
  loading,
  gone,       \* agents deleted meanwhile
  selected,   \* selectedIds
  matching,   \* filters of selectAllMatching's request
  repeating,  \* whether loadRepeatBatch's request is out
  dialog,     \* the open ConfirmDialog: [for, agents, slipped]
  sending,    \* requests of confirmed dialogs
  unconfirmed \* whether one was sent for other agents than it was confirmed for (history)

choice == <<selected, matching, repeating, dialog, sending, unconfirmed>>
listVars == <<refs, query, going, listed, shown, loading, gone, choice>>

Places == [filter : Filters, page : Pages]
Purposes == {"job", "group"}

ListTypeOK ==
  /\ refs \in Places /\ query \in Places /\ going \in Places \cup {Nothing}
  /\ listed \in SUBSET Places /\ loading \in BOOLEAN
  /\ shown \in [for : Places \cup {Nothing}, items : SUBSET Agents, total : Nat]
  /\ gone \in SUBSET Agents /\ selected \in SUBSET Agents
  /\ matching \in Filters \cup {Nothing} /\ repeating \in BOOLEAN
  /\ dialog \in {Nothing} \cup [for : Purposes, agents : SUBSET Agents, slipped : BOOLEAN]
  /\ sending \in SUBSET Purposes /\ unconfirmed \in BOOLEAN

Home == [filter |-> AllAgents, page |-> 1]

\* onMounted: the list is asked for; a batch is repeated, or agents are selected by the query, which
\* is then cleared of them.
ListInit ==
  /\ refs = Home /\ query = Home
  /\ listed = {Home} /\ loading = TRUE
  /\ shown = [for |-> Nothing, items |-> {}, total |-> 0]
  /\ gone = {} /\ matching = Nothing
  /\ \/ repeating \in BOOLEAN /\ selected = {} /\ going = Nothing
     \/ repeating = FALSE /\ selected \in SUBSET Agents \ {{}} /\ going = query
  /\ dialog = Nothing /\ sending = {} /\ unconfirmed = FALSE

-----------------------------------------------------------------------------
(* The list.                                                               *)

\* Mutant: an earlier request goes on.
KeepEarlier == listed

\* getSignal aborts the request before.
AfterAbort == {}

\* fetchData; the aborted request ends with loading set to FALSE, after the new one set it to TRUE.
FetchData(place) ==
  /\ listed' = AfterAbort \cup {place}
  /\ loading' = (listed = {})

\* The watcher of the refs navigates unless the query agrees with them already.
Synchronize(place) == going' = IF place = query THEN going ELSE place

\* The refs change: the watchers write the query and fetch.
ChangeRefs(place) ==
  /\ refs' = place
  /\ Synchronize(place) /\ FetchData(place)

\* Any filter field; resetPageOn returns to the first page in the same flush.
SetFilter(f) ==
  /\ dialog = Nothing /\ f # refs.filter
  /\ ChangeRefs([filter |-> f, page |-> 1])
  /\ UNCHANGED <<query, shown, gone, choice>>

NextPage ==
  /\ dialog = Nothing /\ ~loading /\ refs.page < shown.total
  /\ ChangeRefs([refs EXCEPT !.page = @ + 1])
  /\ UNCHANGED <<query, shown, gone, choice>>

PrevPage ==
  /\ dialog = Nothing /\ ~loading /\ refs.page > 1
  /\ ChangeRefs([refs EXCEPT !.page = @ - 1])
  /\ UNCHANGED <<query, shown, gone, choice>>

\* A link to the view without a query, in the navigation bar.
FollowLink ==
  /\ dialog = Nothing /\ going' = Home
  /\ UNCHANGED <<refs, query, listed, shown, loading, gone, choice>>

\* The navigation ends: the watcher of the query sets the refs, and their change fetches.
Arrive ==
  /\ going # Nothing
  /\ going' = Nothing /\ query' = going
  /\ refs' = going
  /\ \/ refs = going /\ UNCHANGED <<listed, loading>>
     \/ refs # going /\ FetchData(going)
  /\ UNCHANGED <<shown, gone, choice>>

\* buildAgentsWhereClause.
Matching(f) == Matches[f] \ gone
\* listAgents: the page that was asked for.
OnPage(f, p) == {a \in Matching(f) : Cardinality({b \in Matching(f) : b <= a}) = p}

\* Mutant: the last page of an empty list is page 0.
PageInTotal(f, p) == LET total == Cardinality(Matching(f)) IN IF p > total THEN total ELSE p

\* paginate: the page is brought into the range, after the items were read.
SafePage(f, p) == LET total == Cardinality(Matching(f)) IN
                  IF total = 0 THEN 1 ELSE IF p > total THEN total ELSE p

\* Mutant: what is not shown is no longer selected.
SelectedOfShown(items) == selected \cap items

SelectedAfter(items) == selected

\* The answer; applyServerPagination sets the page, which fetches again when it differs.
AnswerList(place) ==
  /\ place \in listed
  /\ LET items == OnPage(place.filter, place.page)
         page == SafePage(place.filter, place.page)
     IN /\ shown' = [for |-> place, items |-> items, total |-> Cardinality(Matching(place.filter))]
        /\ selected' = SelectedAfter(items)
        /\ \/ /\ page = refs.page
              /\ listed' = listed \ {place} /\ loading' = FALSE
              /\ UNCHANGED <<refs, going>>
           \/ /\ page # refs.page
              /\ refs' = [refs EXCEPT !.page = page]
              /\ Synchronize(refs')
              /\ listed' = (AfterAbort \ {place}) \cup {refs'} /\ loading' = TRUE
  /\ UNCHANGED <<query, gone, matching, repeating, dialog, sending, unconfirmed>>

\* An error leaves what is shown.
ListFails(place) ==
  /\ place \in listed
  /\ listed' = listed \ {place} /\ loading' = FALSE
  /\ shown' = [shown EXCEPT !.for = Nothing]
  /\ UNCHANGED <<refs, query, going, gone, choice>>

\* Somebody deletes an agent.
Disappear(a) ==
  /\ a \in (Agents \cap MayGo) \ gone
  /\ gone' = gone \cup {a}
  /\ UNCHANGED <<refs, query, going, listed, shown, loading, choice>>

-----------------------------------------------------------------------------
(* The selection.                                                          *)

Select(S) ==
  /\ selected' = S
  /\ UNCHANGED <<refs, query, going, listed, shown, loading, gone>>

\* The user selects only what is on the screen, and not behind the dialog.
ToggleSelect(a) ==
  /\ dialog = Nothing /\ ~loading /\ a \in shown.items
  /\ Select(IF a \in selected THEN selected \ {a} ELSE selected \cup {a})
  /\ UNCHANGED <<matching, repeating, dialog, sending, unconfirmed>>

ToggleSelectAllVisible ==
  /\ dialog = Nothing
  /\ Select(IF shown.items # {} /\ shown.items \subseteq selected THEN {} ELSE shown.items)
  /\ UNCHANGED <<matching, repeating, dialog, sending, unconfirmed>>

ClearSelection ==
  /\ dialog = Nothing /\ Select({})
  /\ UNCHANGED <<matching, repeating, dialog, sending, unconfirmed>>

Out == Cardinality(sending) + Cardinality({matching} \ {Nothing}) + (IF repeating THEN 1 ELSE 0)

SelectAllMatching ==
  /\ dialog = Nothing /\ matching = Nothing /\ Out < MaxOut
  /\ matching' = refs.filter
  /\ Select(selected)
  /\ UNCHANGED <<repeating, dialog, sending, unconfirmed>>

Slip == dialog' = IF dialog = Nothing THEN Nothing ELSE [dialog EXCEPT !.slipped = TRUE]

\* The answer replaces the selection, whatever the filters or the dialog are by then.
AnswerMatching ==
  /\ matching # Nothing /\ matching' = Nothing
  /\ \/ Select(Matching(matching)) /\ Slip
     \/ Select(selected) /\ UNCHANGED dialog
  /\ UNCHANGED <<repeating, sending, unconfirmed>>

\* loadRepeatBatch: the agents of the batch, or an error; then the query is replaced by the present
\* one, which ends a navigation that is on its way.
AnswerRepeat(S) ==
  /\ repeating /\ repeating' = FALSE
  /\ \/ selected' = S /\ Slip
     \/ UNCHANGED <<selected, dialog>>
  /\ going' = query
  /\ UNCHANGED <<refs, query, listed, shown, loading, gone, matching, sending, unconfirmed>>

\* sendBatchJob and assignDeploymentGroupToSelected up to the dialog, which names a number of agents.
Ask(purpose) ==
  /\ dialog = Nothing /\ selected # {} /\ purpose \notin sending
  /\ dialog' = [for |-> purpose, agents |-> selected, slipped |-> FALSE]
  /\ Select(selected)
  /\ UNCHANGED <<matching, repeating, sending, unconfirmed>>

Cancel ==
  /\ dialog # Nothing /\ dialog' = Nothing
  /\ Select(selected)
  /\ UNCHANGED <<matching, repeating, sending, unconfirmed>>

\* What is sent is the selection of this moment.
Confirm ==
  /\ dialog # Nothing /\ dialog' = Nothing /\ Out < MaxOut
  /\ sending' = sending \cup {dialog.for}
  /\ unconfirmed' = (unconfirmed \/ (selected # dialog.agents /\ ~dialog.slipped))
  /\ Select(selected)
  /\ UNCHANGED <<matching, repeating>>

\* A success clears the selection, also one that another dialog is open for, and an assignment
\* fetches the list again; an error leaves everything.
Sent(purpose) ==
  /\ purpose \in sending /\ sending' = sending \ {purpose}
  /\ \/ /\ selected' = {} /\ Slip
        /\ IF purpose = "group" THEN FetchData(refs) ELSE UNCHANGED <<listed, loading>>
     \/ UNCHANGED <<selected, dialog, listed, loading>>
  /\ UNCHANGED <<refs, query, going, shown, gone, matching, repeating, unconfirmed>>

ListNext ==
  \/ NextPage \/ PrevPage \/ FollowLink \/ Arrive
  \/ \E f \in Filters : SetFilter(f)
  \/ \E place \in listed : AnswerList(place) \/ ListFails(place)
  \/ \E a \in Agents : Disappear(a) \/ ToggleSelect(a)
  \/ ToggleSelectAllVisible \/ ClearSelection \/ SelectAllMatching \/ AnswerMatching
  \/ \E S \in SUBSET Agents : AnswerRepeat(S)
  \/ \E purpose \in Purposes : Ask(purpose) \/ Sent(purpose)
  \/ Cancel \/ Confirm

ListSpec == ListInit /\ [][ListNext]_listVars

-----------------------------------------------------------------------------
(* What the view guarantees.                                               *)

\* Once nothing is on its way the three agree: the filters and the page that are set, the query of
\* the route, and what the list on the screen was asked for, unless that request failed.
ListIsInStep ==
  going = Nothing /\ listed = {} =>
    query = refs /\ shown.for \in {refs, Nothing}

\* A command or a group goes to the agents that were selected when the dialog asked.  Excepted is a
\* dialog during which an earlier request of the view replaced or cleared the selection: the
\* selection is read again after the dialog.
SentAsConfirmed == ~unconfirmed
=============================================================================
