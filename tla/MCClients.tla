------------------------------ MODULE MCClients ------------------------------
(* Model-checking instances of the programs that use agents: the client's end  *)
(* of a connection, a streaming command, a run, attaching, one injection, the TUI's  *)
(* screens, views and tables, its dashboard and that one's activity log, its views *)
(* of the profiler and of lists.                                                *)
(* They share no state; a behaviour is one of the component it begins with, the *)
(* others stay at one of their initial states.                                  *)
EXTENDS ClientStream, StreamCommand, RunHandshake, AttachSessions, StreamViews,
        Dashboard, ActivityLog, AttachInjection, ViewTables,
        ProcessSelector, TopView, ListViews, TLC

CONSTANTS a1, a2, p1, p2

VARIABLE part

otherThanClient == <<commandVars, runVars, attachVars, viewVars, dashVars, activityVars,
                       injectionVars, tableVars, selectorVars, topViewVars, listVars>>
otherThanCommand == <<clientVars, runVars, attachVars, viewVars, dashVars, activityVars,
                       injectionVars, tableVars, selectorVars, topViewVars, listVars>>
otherThanRun == <<clientVars, commandVars, attachVars, viewVars, dashVars, activityVars,
                       injectionVars, tableVars, selectorVars, topViewVars, listVars>>
otherThanAttach == <<clientVars, commandVars, runVars, viewVars, dashVars, activityVars,
                       injectionVars, tableVars, selectorVars, topViewVars, listVars>>
otherThanView == <<clientVars, commandVars, runVars, attachVars, dashVars, activityVars,
                       injectionVars, tableVars, selectorVars, topViewVars, listVars>>
otherThanDash == <<clientVars, commandVars, runVars, attachVars, viewVars, activityVars,
                       injectionVars, tableVars, selectorVars, topViewVars, listVars>>
otherThanActivity == <<clientVars, commandVars, runVars, attachVars, viewVars, dashVars,
                       injectionVars, tableVars, selectorVars, topViewVars, listVars>>
otherThanInjection == <<clientVars, commandVars, runVars, attachVars, viewVars, dashVars,
                        activityVars, tableVars, selectorVars, topViewVars, listVars>>
otherThanTables == <<clientVars, commandVars, runVars, attachVars, viewVars, dashVars,
                     activityVars, injectionVars, selectorVars, topViewVars, listVars>>
otherThanSelector == <<clientVars, commandVars, runVars, attachVars, viewVars, dashVars,
                       activityVars, injectionVars, tableVars, topViewVars, listVars>>
otherThanTop == <<clientVars, commandVars, runVars, attachVars, viewVars, dashVars, activityVars,
                  injectionVars, tableVars, selectorVars, listVars>>
otherThanLists == <<clientVars, commandVars, runVars, attachVars, viewVars, dashVars, activityVars,
                    injectionVars, tableVars, selectorVars, topViewVars>>
vars == <<part, clientVars, otherThanClient>>

\* A log record and an observation are broadcast.
LogAndObservation == <<"LOG", "OBS">>

\* Two commands attach to a process each, or both to the same.
OneOrTwoProcesses == {(a1 :> p1 @@ a2 :> p2), (a1 :> p1 @@ a2 :> p1)}

\* Two probes of one view, or of two; one resets a pattern, the other everything.
WatchAndStack == <<"watch", "stack">>
SameOrOther == {("w1" :> "watch" @@ "w2" :> "watch"), ("w1" :> "watch" @@ "w2" :> "stack")}
SamePattern == "w1" :> "f" @@ "w2" :> "f"
OneOrTwoPatterns == {("x1" :> "f" @@ "x2" :> "f"), ("x1" :> "f" @@ "x2" :> "g")}
OwnAndAll == "watch" :> "own" @@ "stack" :> "all"

Init ==
    /\ part \in {"client", "command", "run", "attach", "views", "dashboard", "activity",
             "injection", "tables", "selector", "top", "lists"}
    /\ ClientInit /\ CommandInit /\ RunInit /\ AttachInit /\ ViewInit
    /\ DashInit /\ ActivityInit /\ InjectionInit /\ TablesInit /\ SelectorInit
    /\ TopViewInit /\ ListInit
    /\ part # "attach" => pidOf = CHOOSE t \in Targetings : TRUE
    /\ part # "views" => viewOf = CHOOSE l \in Layouts : TRUE
    /\ part # "injection" => method = CHOOSE m \in Methods : TRUE
    /\ part # "tables" => table = CHOOSE t \in Tables : TRUE
    /\ part # "tables" \/ table \in {"stack", "monitor"} =>
          patternFor = CHOOSE f \in Patternings : TRUE
    /\ part # "selector" => agents = {}
    /\ part # "lists" => list = "thread"

Next ==
    \/ part = "client" /\ ClientNext /\ UNCHANGED <<part, otherThanClient>>
    \/ part = "command" /\ CommandNext /\ UNCHANGED <<part, otherThanCommand>>
    \/ part = "run" /\ RunNext /\ UNCHANGED <<part, otherThanRun>>
    \/ part = "attach" /\ AttachNext /\ UNCHANGED <<part, otherThanAttach>>
    \/ part = "views" /\ ViewNext /\ UNCHANGED <<part, otherThanView>>
    \/ part = "dashboard" /\ DashNext /\ UNCHANGED <<part, otherThanDash>>
    \/ part = "activity" /\ ActivityNext /\ UNCHANGED <<part, otherThanActivity>>
    \/ part = "injection" /\ InjectionNext /\ UNCHANGED <<part, otherThanInjection>>
    \/ part = "tables" /\ TablesNext /\ UNCHANGED <<part, otherThanTables>>
    \/ part = "selector" /\ SelectorNext /\ UNCHANGED <<part, otherThanSelector>>
    \/ part = "top" /\ TopViewNext /\ UNCHANGED <<part, otherThanTop>>
    \/ part = "lists" /\ ListNext /\ UNCHANGED <<part, otherThanLists>>

\* As CommandSpec, RunSpec and InjectionSpec have it, for the behaviours that are of those parts.
Spec ==
    /\ Init /\ [][Next]_vars
    /\ WF_commandVars(part = "command" /\ main # <<>> /\ MainSteps)
    /\ WF_commandVars(part = "command" /\ \E r \in {"create", "start", "stop", "close"} : Handle(r))
    /\ WF_runVars(part = "run" /\ ParentSteps)
    /\ WF_runVars(part = "run" /\ ChildSteps)
    /\ WF_injectionVars(part = "injection" /\ CommandSteps)

\* Each in the behaviours of its part; at the initial states it holds anyway.
TypesOK ==
    CASE part = "client" -> ClientTypeOK      [] part = "command" -> CommandTypeOK
      [] part = "run" -> RunTypeOK            [] part = "attach" -> AttachTypeOK
      [] part = "views" -> ViewTypeOK         [] part = "dashboard" -> DashTypeOK
      [] part = "activity" -> ActivityTypeOK  [] part = "injection" -> InjectionTypeOK
      [] part = "tables" -> TablesTypeOK      [] part = "selector" -> SelectorTypeOK
      [] part = "top" -> TopViewTypeOK        [] part = "lists" -> ListTypeOK

\* What attaching leaves and reports is true: which agent serves a process and whose
\* files there are (AttachSessions), and what one attach command says of it and
\* leaves behind (AttachInjection).
AttachSound == OneAgentFound /\ AttachReports

\* A command that starts or runs the target comes to its end: peeka run with its
\* child (RunFollows of RunHandshake), attach with its injection (AttachReturns of
\* AttachInjection: an attach that has ended stays so).  As one formula TLC builds one
\* graph for the two.
CommandsReturn ==
    (part = "injection" \/ (part = "run" /\ childAt = "exited"))
       ~> IF part = "injection" THEN command.at = "ended" \/ (taken /\ target) ELSE parent = <<>>

\* What the TUI keeps about the agent is what the agent has: the probes its views run
\* and show (StreamViews), what their tables say of them (ViewTables), the dashboard's
\* connections (Dashboard), the entries of its log (ActivityLog), the profiler (TopView),
\* lists and what polls them (ListViews); and its selector and main screen agree with
\* the attachment there is (ProcessSelector).
TUISound ==
    /\ part = "views" => ViewsSound
    /\ part = "tables" => TablesSound
    /\ part = "dashboard" => ConnectionsKnown
    /\ part = "activity" => LogFaithful
    /\ part = "selector" => SelectorSound
    /\ part = "top" => TopViewSound
    /\ part = "lists" => ListViewsSound
=============================================================================
