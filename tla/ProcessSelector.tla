--------------------------- MODULE ProcessSelector ---------------------------
(***************************************************************************)
(* The TUI's two screens (peeka/tui/screens, app.py): the process selector with *)
(* the worker that attaches, and the main screen with its connection and tabs. *)
(* Progress of an attachment comes through a callback from the worker, and     *)
(* through a log handler on the module's logger from whatever thread logs      *)
(* there: the one that serves the agent's code may outlive its attempt.        *)
(*                                                                         *)
(* Textual handles a screen's messages after its mount handler has ended, and  *)
(* removes a popped screen before the application's next key.                  *)
(***************************************************************************)
EXTENDS Naturals, FiniteSets, Sequences

CONSTANTS Pids,         \* processes
          MaxSelects,   \* bound: attempts
          MaxConnects,  \* max_retries of the main screen's connection
          Tabs,         \* with "dashboard", the first one
          MaxTabMessages \* bound: tab switches not handled yet

ASSUME SelectorAssumption ==
    /\ MaxSelects \in Nat /\ MaxConnects \in Nat \ {0} /\ MaxTabMessages \in Nat
    /\ "dashboard" \in Tabs

VARIABLES python,       \* Python processes that run
          agents,       \* those with an agent
          selectable,   \* _selectable_pids: the rows that can be chosen
          attaching,
          locked,       \* table and filter are disabled
          panel,        \* the attach panel is shown
          errorShown,
          generation,
          attempt,      \* the worker: where it is, pid, generation captured
          servers,      \* attempts whose serving thread runs
          callbacks,    \* progress on its way to the UI thread: from, gen
          shownFrom,    \* attempts whose progress the panel shows
          overheard,    \* history: earlier attempts whose lines a later one's handler took
          top,          \* the screen on top: selector, main, leaving; or quit
          mainScreen,       \* the main screen: where it is, pid, tries, client
          tab,          \* the tab shown
          tabMessages,  \* TabActivated, not handled yet
          activeTab, given, told \* _active_tab_id, _activated_tabs, views told they are active

worldState == <<python, agents>>
panelState == <<attaching, locked, panel, errorShown, generation>>
workerState == <<attempt, servers, callbacks>>
tabState == <<tab, tabMessages, activeTab, given, told>>
selectorVars == <<worldState, selectable, panelState, workerState, shownFrom, overheard, top, mainScreen,
                  tabState>>

NoAttempt == [at |-> "none", pid |-> "none", gen |-> 0]
NoScreen == [at |-> "gone", pid |-> "none", tries |-> 0, client |-> "none"]

SelectorInit ==
    /\ python = Pids /\ agents \in SUBSET Pids /\ selectable = {}
    /\ attaching = FALSE /\ locked = FALSE /\ panel = FALSE /\ errorShown = FALSE /\ generation = 0
    /\ attempt = NoAttempt /\ servers = {} /\ callbacks = {} /\ shownFrom = {} /\ overheard = {}
    /\ top = "selector" /\ mainScreen = NoScreen
    /\ tab = "dashboard" /\ tabMessages = <<>> /\ activeTab = "none" /\ given = {} /\ told = {}

-----------------------------------------------------------------------------
(* Processes and the table *)

ProcessExits(p) ==
    /\ p \in python /\ python' = python \ {p} /\ agents' = agents \ {p}
    /\ UNCHANGED <<selectable, panelState, workerState, shownFrom, overheard, top, mainScreen, tabState>>

\* Another program attaches.
AgentComes(p) ==
    /\ p \in python \ agents /\ agents' = agents \cup {p}
    /\ UNCHANGED <<python, selectable, panelState, workerState, shownFrom, overheard, top,
                   mainScreen, tabState>>

\* discover_targets: who answers its hello is alive, who does not, or has left its files,
\* is stale.  _discover_rows: the targets, and the Python processes without a live one.
DiscoverRows(stale, answering) ==
    {[pid |-> p, kind |-> "target", state |-> "alive"] : p \in answering}
    \cup {[pid |-> p, kind |-> "target", state |-> "stale"] : p \in stale}
    \cup {[pid |-> p, kind |-> "process", state |-> "attachable"] : p \in python \ answering}

\* By key, by a change of the filter or of the size; the filter lets some rows through.
RefreshProcesses ==
    /\ top = "selector"
    /\ \E answering \in SUBSET agents, left \in SUBSET Pids :
       \E visible \in SUBSET DiscoverRows(left \cup (agents \ answering), answering) :
          selectable' = {r \in visible : r.state \in {"alive", "attachable"}}
    /\ UNCHANGED <<worldState, panelState, workerState, shownFrom, overheard, top, mainScreen, tabState>>

-----------------------------------------------------------------------------
(* An attempt *)

\* action_select: the table may be disabled, the key is not.
CanSelect(row) == top = "selector" /\ row \in selectable

\* _disable_interaction, _enable_interaction
Interaction(on) == locked' = ~on

\* _reset_attach_panel
PanelReset == errorShown' = FALSE /\ shownFrom' = {}

\* _attach_to_process
Select(row) ==
    /\ CanSelect(row) /\ ~attaching /\ generation < MaxSelects
    /\ attaching' = TRUE /\ Interaction(FALSE) /\ PanelReset /\ panel' = TRUE
    /\ generation' = generation + 1
    /\ attempt' = [at |-> "begun", pid |-> row.pid, gen |-> 0]
    /\ UNCHANGED <<worldState, selectable, servers, callbacks, overheard, top, mainScreen, tabState>>

\* The worker captures the generation; its attacher's log handler is installed. With a
\* debugger a thread serves the agent's code.
AttachBegins ==
    /\ attempt.at = "begun" /\ attempt' = [attempt EXCEPT !.at = "attach", !.gen = generation]
    /\ servers' \in {servers, servers \cup {generation}}
    /\ UNCHANGED <<worldState, selectable, panelState, callbacks, shownFrom, overheard, top, mainScreen,
                   tabState>>

\* Whoever reports waits for the UI thread.
Report(by, n) ==
    /\ attempt.at = "attach" /\ callbacks' = callbacks \cup {[by |-> by, from |-> n, gen |-> attempt.gen]}
    /\ \A c \in callbacks : <<c.by, c.from>> # <<by, n>>
    /\ overheard' = IF n = attempt.gen THEN overheard ELSE overheard \cup {n}
    /\ UNCHANGED <<worldState, selectable, panelState, attempt, servers, shownFrom, top, mainScreen, tabState>>

Progress == Report("worker", attempt.gen)

\* A line of a serving thread, through the handler of the attempt that is under way.
ServerLogs(n) == n \in servers /\ Report("server", n)

ServingEnds(n) ==
    /\ n \in servers /\ \A c \in callbacks : c.by = "server" => c.from # n
    /\ servers' = servers \ {n}
    /\ UNCHANGED <<worldState, selectable, panelState, attempt, callbacks, shownFrom, overheard, top,
                   mainScreen, tabState>>

\* Drops stale generations.
Current(c) == c.gen = generation

OnProgress(c) ==
    /\ c \in callbacks /\ callbacks' = callbacks \ {c}
    /\ IF Current(c) THEN shownFrom' = shownFrom \cup {c.from} /\ panel' = TRUE
                     ELSE UNCHANGED <<shownFrom, panel>>
    /\ UNCHANGED <<worldState, selectable, attaching, locked, errorShown, generation, attempt, servers,
                   overheard, top, mainScreen, tabState>>

WorkerFree == \A c \in callbacks : c.by # "worker"
Moves(at) == attempt' = [attempt EXCEPT !.at = at]

AttacherReturns(ok) ==
    /\ attempt.at = "attach" /\ WorkerFree
    /\ IF ok THEN attempt.pid \in python /\ Moves("validate") /\ agents' = agents \cup {attempt.pid}
             ELSE Moves("failed") /\ UNCHANGED agents
    /\ UNCHANGED <<python, selectable, panelState, servers, callbacks, shownFrom, overheard,
                   top, mainScreen, tabState>>

\* _validate_agent_connection: a hello on a connection of its own.
Validates(ok) ==
    /\ attempt.at = "validate" /\ (ok => attempt.pid \in agents)
    /\ Moves(IF ok THEN "succeeded" ELSE "failed")
    /\ UNCHANGED <<worldState, selectable, panelState, servers, callbacks, shownFrom, overheard, top,
                   mainScreen, tabState>>

ShowAttachError ==
    /\ attempt.at = "failed" /\ attempt' = NoAttempt
    /\ attaching' = FALSE /\ Interaction(TRUE) /\ errorShown' = TRUE
    /\ UNCHANGED <<worldState, selectable, panel, generation, servers, callbacks, shownFrom, overheard,
                   top, mainScreen, tabState>>

OnAttachSuccess ==
    /\ attempt.at = "succeeded" /\ attempt' = NoAttempt
    /\ attaching' = FALSE /\ Interaction(TRUE) /\ top' = "main"
    /\ mainScreen' = [at |-> "mounting", pid |-> attempt.pid, tries |-> 0, client |-> "none"]
    /\ tab' = "dashboard" /\ tabMessages' = <<"dashboard">> /\ activeTab' = "none"
    /\ given' = {} /\ told' = {}
    /\ UNCHANGED <<worldState, selectable, panel, errorShown, generation, servers, callbacks, shownFrom,
                   overheard>>

\* action_quit_app: an error is put away; while attaching nothing happens; else the end.
Escape ==
    /\ top = "selector"
    /\ \/ /\ errorShown /\ PanelReset /\ panel' = FALSE
          /\ UNCHANGED top
       \/ /\ ~errorShown /\ ~attaching /\ top' = "quit"
          /\ UNCHANGED <<errorShown, shownFrom, panel>>
    /\ UNCHANGED <<worldState, selectable, attaching, locked, generation, workerState, overheard, mainScreen,
                   tabState>>

-----------------------------------------------------------------------------
(* The main screen *)

\* _select_tab: the tab left is told, the one shown gets the client on its first use.
SelectTab(t, client) ==
    /\ given' = IF client # "none" THEN given \cup {t} ELSE given
    /\ told' = (IF activeTab # t THEN told \ {activeTab} ELSE told)
               \cup (IF t \in given' THEN {t} ELSE {})
    /\ activeTab' = t

MountConnects ==
    /\ mainScreen.at = "mounting" /\ mainScreen.pid \in agents
    /\ mainScreen' = [mainScreen EXCEPT !.at = "ready", !.client = "open"]
    /\ SelectTab(tab, "open")
    /\ UNCHANGED <<worldState, selectable, panelState, workerState, shownFrom, overheard, top, tab,
                   tabMessages>>

\* Tried again after a while, with another client, and given up in the end.
MountFails ==
    /\ mainScreen.at = "mounting"
    /\ mainScreen' = IF mainScreen.tries + 1 < MaxConnects
                 THEN [mainScreen EXCEPT !.tries = @ + 1, !.client = "closed"]
                 ELSE [mainScreen EXCEPT !.tries = @ + 1, !.at = "unconnected", !.client = "none"]
    /\ UNCHANGED <<worldState, selectable, panelState, workerState, shownFrom, overheard, top, tabState>>

SwitchTab(t) ==
    /\ top = "main" /\ t # tab /\ Len(tabMessages) < MaxTabMessages
    /\ tab' = t /\ tabMessages' = Append(tabMessages, t)
    /\ UNCHANGED <<worldState, selectable, panelState, workerState, shownFrom, overheard, top, mainScreen,
                   activeTab, given, told>>

TabActivated ==
    /\ mainScreen.at \in {"ready", "unconnected"} /\ tabMessages # <<>>
    /\ tabMessages' = Tail(tabMessages) /\ SelectTab(Head(tabMessages), mainScreen.client)
    /\ UNCHANGED <<worldState, selectable, panelState, workerState, shownFrom, overheard, top, mainScreen, tab>>

\* _cleanup_all_views: the agent is told to detach, if it can be, and disconnected.
CleanedUp(at) ==
    /\ mainScreen' = [mainScreen EXCEPT !.at = at, !.client = IF @ = "open" THEN "closed" ELSE @]
    /\ agents' = IF mainScreen.client = "open" THEN agents \ {mainScreen.pid} ELSE agents

GoBack ==
    /\ top = "main" /\ top' = "leaving" /\ CleanedUp(mainScreen.at)
    /\ UNCHANGED <<python, selectable, panelState, workerState, shownFrom, overheard, tabState>>

\* The screen's own messages come first.
OnUnmount ==
    /\ mainScreen.at \in {"ready", "unconnected"} /\ tabMessages = <<>> /\ top \in {"leaving", "quit"}
    /\ CleanedUp("gone") /\ top' = IF top = "leaving" THEN "selector" ELSE top
    /\ UNCHANGED <<python, selectable, panelState, workerState, shownFrom, overheard, tabState>>

\* The application's action_quit, by key or signal, whatever goes on.
Quit ==
    /\ top # "leaving" /\ top' = "quit"
    /\ IF top = "main" THEN CleanedUp(mainScreen.at) ELSE UNCHANGED <<mainScreen, agents>>
    /\ UNCHANGED <<python, selectable, panelState, workerState, shownFrom, overheard, tabState>>

\* Once the application is told to end, only its screen's own end is followed.
SelectorNext ==
    \/ /\ top # "quit"
       /\ \/ \E p \in Pids : ProcessExits(p) \/ AgentComes(p)
          \/ \E row \in selectable : Select(row)
          \/ \E n \in 1..MaxSelects : ServerLogs(n) \/ ServingEnds(n)
          \/ \E c \in callbacks : OnProgress(c)
          \/ \E ok \in BOOLEAN : AttacherReturns(ok) \/ Validates(ok)
          \/ \E t \in Tabs : SwitchTab(t)
          \/ RefreshProcesses \/ AttachBegins \/ Progress \/ ShowAttachError \/ OnAttachSuccess
          \/ Escape \/ GoBack \/ Quit
    \/ MountConnects \/ MountFails \/ TabActivated \/ OnUnmount

SelectorSpec == SelectorInit /\ [][SelectorNext]_selectorVars

-----------------------------------------------------------------------------
(* Properties *)

SelectorTypeOK ==
    /\ agents \subseteq python /\ python \subseteq Pids
    /\ generation <= MaxSelects /\ attempt.gen <= generation
    /\ attempt.at \in {"none", "begun", "attach", "validate", "failed", "succeeded"}
    /\ servers \cup shownFrom \cup overheard \subseteq 1..MaxSelects
    /\ top \in {"selector", "main", "leaving", "quit"}
    /\ mainScreen.at \in {"gone", "mounting", "ready", "unconnected"}
    /\ mainScreen.client \in {"none", "open", "closed"}
    /\ given \cup told \cup {tab} \subseteq Tabs

\* The selector is out of use exactly while an attempt is under way that will say how
\* it ended, and shows no error then; a process can be chosen by one row only.
SelectorUsable ==
    /\ attaching <=> attempt.at # "none"
    /\ locked <=> attaching
    /\ errorShown => ~attaching
    /\ \A r, q \in selectable : r.pid = q.pid => r = q

\* The panel shows the progress of the present attempt ("Drops stale generations"), but
\* for lines of an earlier one's serving thread, which the present handler took.
ProgressOwn == shownFrom \subseteq {generation} \cup overheard

\* Behind the selector no main screen is left, a screen that is gone left no connection,
\* and one that has connected is connected until it is left.
ScreensApart ==
    /\ top = "selector" => mainScreen.at = "gone"
    /\ mainScreen.at = "gone" => mainScreen.client # "open"
    /\ top = "main" /\ mainScreen.at = "ready" => mainScreen.client = "open"
    /\ top = "main" => ~attaching

\* With all messages handled the tab shown is the active one, has the client, and no
\* other view believes it is shown; without a connection no view has anything.
TabsFollow ==
    top = "main" /\ tabMessages = <<>> =>
       /\ mainScreen.at = "ready" => activeTab = tab /\ told = {tab} /\ tab \in given
       /\ mainScreen.at = "unconnected" => given = {} /\ told = {}

SelectorSound == SelectorUsable /\ ProgressOwn /\ ScreensApart /\ TabsFollow
=============================================================================
