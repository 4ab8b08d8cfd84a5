------------------------------ MODULE ListViews ------------------------------
(***************************************************************************)
(* Two of the TUI's views that show a list the agent keeps: the threads (peeka/ *)
(* tui/views/thread.py), refreshed every three seconds while the view is shown, *)
(* and the loggers (tui/views/logger.py), refreshed after a level is set.  Every*)
(* request has a worker thread of its own; they use the screen's connection one *)
(* at a time, and have the UI thread show their answers, in any order.          *)
(*                                                                         *)
(* A list is the number of the levels set before it; what else changes it is not *)
(* told of here.  The details of a thread are those of the row highlighted.     *)
(***************************************************************************)
EXTENDS Naturals

CONSTANTS Askers,      \* worker threads of requests
          Pollers,     \* worker threads of _periodic_refresh
          Rows,
          MaxChanges,  \* bound: levels set, from 1
          MaxVisits,   \* bound: times the tab is hidden
          NoPoller

ASSUME ListAssumption ==
    MaxChanges \in Nat /\ MaxVisits \in Nat /\ NoPoller \notin Pollers

VARIABLES list,         \* "thread" or "logger"
          life,         \* of the view: new, mounted, gone
          hasClient,
          active,       \* _active
          pollWorker,   \* _refresh_worker
          poller,       \* of each worker: none, asleep, post, done
          stopped,      \* those that were cancelled
          asker,        \* of each worker: what it asks, where it is, its answer
          online,       \* the connection
          now,          \* levels set in the agent, from 1
          lastSet,      \* history: the last of them that the view was told of
          listShown,    \* the list shown
          row, stack,   \* the row highlighted, and that of the details shown
          visits,
          asksOverlapped  \* history: two requests for the same overlapped

pollVars == <<pollWorker, poller, stopped>>
agentState == <<online, now>>
levelVars == <<agentState, lastSet>>
tableState == <<listShown, row, stack>>
viewState == <<list, life, hasClient, active, visits>>
asked == <<asker, asksOverlapped>>
listVars == <<viewState, pollVars, asked, levelVars, tableState>>

NotAsked == [what |-> "none", at |-> "none", got |-> 0]
NoRow == "none"

ListInit ==
    /\ list \in {"thread", "logger"} /\ life = "new" /\ hasClient = FALSE /\ active = TRUE
    /\ pollWorker = NoPoller /\ poller = [p \in Pollers |-> "none"] /\ stopped = {}
    /\ asker = [a \in Askers |-> NotAsked] /\ online = TRUE /\ now = 1 /\ lastSet = 0
    /\ listShown = 0 /\ row = NoRow /\ stack = NoRow /\ visits = 0 /\ asksOverlapped = {}

Under(what) == {a \in Askers : asker[a].what = what}

ToCancel(p) == {p} \ {NoPoller}

\* run_worker, not exclusive.
Asks(a, what, of) ==
    /\ asker' = [asker EXCEPT ![a] = [what |-> what, at |-> "ask", got |-> of]]
    /\ asksOverlapped' = asksOverlapped \cup (IF Under(what) # {} THEN {what} ELSE {})

AskAgent(what, of) == \E a \in Askers : asker[a] = NotAsked /\ Asks(a, what, of)

\* _refresh_threads, _refresh_loggers
RefreshList == AskAgent("list", 0)

\* _start_refresh_worker, of the thread view alone.
StartPolling ==
    IF list = "thread" /\ pollWorker = NoPoller
    THEN \E p \in Pollers : /\ poller[p] = "none" /\ poller' = [poller EXCEPT ![p] = "asleep"]
                            /\ pollWorker' = p /\ UNCHANGED stopped
    ELSE UNCHANGED pollVars

StopPolling == /\ stopped' = stopped \cup ToCancel(pollWorker) /\ pollWorker' = NoPoller
               /\ UNCHANGED poller

RefreshAndPoll == RefreshList /\ StartPolling
Stays == UNCHANGED <<pollVars, asked>>

-----------------------------------------------------------------------------
(* The UI thread *)

MountView ==
    /\ life = "new" /\ life' = "mounted"
    /\ IF active /\ hasClient THEN RefreshAndPoll ELSE Stays
    /\ UNCHANGED <<levelVars, tableState, list, hasClient, active, visits>>

\* set_client, when the tab is first shown.
SetListClient ==
    /\ ~hasClient /\ life # "gone" /\ hasClient' = TRUE
    /\ IF life = "mounted" /\ active THEN RefreshAndPoll ELSE Stays
    /\ UNCHANGED <<levelVars, tableState, list, life, active, visits>>

\* set_active: the logger view has none.
HideView ==
    /\ list = "thread" /\ active /\ hasClient /\ life # "gone" /\ visits < MaxVisits
    /\ active' = FALSE /\ visits' = visits + 1 /\ StopPolling
    /\ UNCHANGED <<asked, levelVars, tableState, list, life, hasClient>>

ShowView ==
    /\ ~active /\ life # "gone" /\ active' = TRUE
    /\ IF life = "mounted" THEN RefreshAndPoll ELSE Stays
    /\ UNCHANGED <<levelVars, tableState, list, life, hasClient, visits>>

UnmountView ==
    /\ life = "mounted" /\ life' = "gone" /\ StopPolling
    /\ UNCHANGED <<asked, levelVars, tableState, list, hasClient, active, visits>>

PressRefresh ==
    /\ life = "mounted" /\ active /\ hasClient /\ RefreshList
    /\ UNCHANGED <<viewState, pollVars, levelVars, tableState>>

\* on_data_table_row_highlighted, _fetch_thread_detail
Highlight(r) ==
    /\ list = "thread" /\ life = "mounted" /\ active /\ listShown # 0 /\ row # r /\ row' = r
    /\ AskAgent("detail", r)
    /\ UNCHANGED <<viewState, pollVars, levelVars, listShown, stack>>

\* _set_logger_level
SetLevel ==
    /\ list = "logger" /\ life = "mounted" /\ hasClient /\ now < MaxChanges /\ AskAgent("set", 0)
    /\ UNCHANGED <<viewState, pollVars, levelVars, tableState>>

-----------------------------------------------------------------------------
(* Workers *)

\* The answer of the agent; while hidden the thread view drops a list.
AnswerCame(a) ==
    LET was == asker[a]
        got == IF was.what = "detail" THEN was.got ELSE now' IN
    /\ was.at = "ask"
    /\ now' = IF online /\ was.what = "set" /\ now < MaxChanges THEN now + 1 ELSE now
    /\ asker' = [asker EXCEPT ![a] = IF online /\ (was.what = "list" => active)
                                      THEN [was EXCEPT !.at = "post", !.got = got] ELSE NotAsked]
    /\ UNCHANGED <<viewState, pollVars, tableState, online, lastSet, asksOverlapped>>

\* _update_threads_ui, _update_loggers_ui
ShowList(a) ==
    /\ asker[a].at = "post" /\ asker[a].what = "list"
    /\ listShown' = IF life = "mounted" THEN asker[a].got ELSE listShown
    /\ asker' = [asker EXCEPT ![a] = NotAsked]
    /\ UNCHANGED <<viewState, pollVars, levelVars, row, stack, asksOverlapped>>

\* _update_stack_ui
ShowStack(a) ==
    /\ asker[a].at = "post" /\ asker[a].what = "detail"
    /\ stack' = IF life = "mounted" THEN asker[a].got ELSE stack
    /\ asker' = [asker EXCEPT ![a] = NotAsked]
    /\ UNCHANGED <<viewState, pollVars, levelVars, listShown, row, asksOverlapped>>

\* _on_set_level_complete: the same worker's place goes to the refresh.
LevelSet(a) ==
    /\ asker[a].at = "post" /\ asker[a].what = "set"
    /\ lastSet' = IF asker[a].got > lastSet THEN asker[a].got ELSE lastSet
    /\ Asks(a, "list", 0)
    /\ UNCHANGED <<viewState, pollVars, agentState, tableState>>

\* _periodic_refresh: the sleep ends at once when it was cancelled ...
PollerEnds(p) ==
    /\ poller[p] = "asleep" /\ p \in stopped /\ poller' = [poller EXCEPT ![p] = "done"]
    /\ UNCHANGED <<viewState, asked, levelVars, tableState, pollWorker, stopped>>

\* ... but that is not looked at again before the refresh.
PollerDue(p) ==
    /\ poller[p] = "asleep" /\ active /\ poller' = [poller EXCEPT ![p] = "post"]
    /\ UNCHANGED <<viewState, asked, levelVars, tableState, pollWorker, stopped>>

PollerRefreshes(p) ==
    /\ poller[p] = "post" /\ poller' = [poller EXCEPT ![p] = "asleep"]
    /\ IF active /\ hasClient THEN RefreshList ELSE UNCHANGED asked
    /\ UNCHANGED <<viewState, levelVars, tableState, pollWorker, stopped>>

-----------------------------------------------------------------------------
(* The agent *)

GoesOffline ==
    /\ online /\ online' = FALSE
    /\ UNCHANGED <<viewState, pollVars, asked, tableState, now, lastSet>>

ListNext ==
    \/ MountView \/ SetListClient \/ HideView \/ ShowView \/ UnmountView \/ PressRefresh \/ SetLevel
    \/ \E r \in Rows : Highlight(r)
    \/ \E a \in Askers : AnswerCame(a) \/ ShowList(a) \/ ShowStack(a) \/ LevelSet(a)
    \/ \E p \in Pollers : PollerEnds(p) \/ PollerDue(p) \/ PollerRefreshes(p)
    \/ GoesOffline

ListSpec == ListInit /\ [][ListNext]_listVars

-----------------------------------------------------------------------------
(* Properties *)

ListTypeOK ==
    /\ life \in {"new", "mounted", "gone"} /\ hasClient \in BOOLEAN /\ active \in BOOLEAN
    /\ pollWorker \in Pollers \cup {NoPoller} /\ stopped \subseteq Pollers
    /\ poller \in [Pollers -> {"none", "asleep", "post", "done"}]
    /\ \A a \in Askers : /\ asker[a].what \in {"none", "list", "detail", "set"}
                         /\ asker[a].at \in {"none", "ask", "post"}
    /\ now \in 1..MaxChanges /\ listShown \in 0..now /\ lastSet \in 0..now

\* A thread view polls exactly while it is there to be seen, with one worker: however
\* often it is hidden and shown, the ones before end, and one refresh of theirs is
\* all they still cause.
PollsWhileSeen ==
    LET live == {p \in Pollers : poller[p] \in {"asleep", "post"} /\ p \notin stopped} IN
    /\ live = {pollWorker} \ {NoPoller}
    /\ live # {} <=> list = "thread" /\ life = "mounted" /\ hasClient /\ active

\* While no two requests for the same overlap and the connection lasts: once a level's
\* setting is told and the list has come, the table has it; and the details shown are
\* those of the row that is highlighted.
ListIsCurrent ==
    online /\ life = "mounted" =>
        /\ "list" \notin asksOverlapped /\ Under("list") = {} => listShown >= lastSet
        /\ "detail" \notin asksOverlapped /\ Under("detail") = {} => stack = row

ListViewsSound == PollsWhileSeen /\ ListIsCurrent
=============================================================================
