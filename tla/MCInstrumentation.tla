-------------------------- MODULE MCInstrumentation --------------------------
(* Model-checking instances of what runs inside the instrumented calls, and of   *)
(* how it ends: the wrappers of one function (WrapperCalls), those of coroutines *)
(* and async generators (AsyncCalls), monitors stacked with wrappers             *)
(* (MonitorStack), a monitor's timer (MonitorCycles), the backends of a trace    *)
(* (TraceBackends), levels of loggers (LoggerLevels), a reset and the stop of an *)
(* agent (AgentTeardown).                                                        *)
(*                                                                               *)
(* They share no state; a behaviour is one of the component it begins with, and  *)
(* the others stay at one of their initial states.                               *)
EXTENDS Instrumented, TraceBackends, TLC

VARIABLE part

endVars == <<levelVars, teardownVars>>
otherThanCalls == <<asyncVars, monitorVars, cycleVars, traceVars, endVars>>
otherThanAsync == <<callVars, monitorVars, cycleVars, traceVars, endVars>>
otherThanMonitors == <<callVars, asyncVars, cycleVars, traceVars, endVars>>
otherThanCycles == <<callVars, asyncVars, monitorVars, traceVars, endVars>>
otherThanTrace == <<callVars, asyncVars, monitorVars, cycleVars, endVars>>
instrumentVars == <<callVars, asyncVars, monitorVars, cycleVars, traceVars>>
otherThanLevels == <<instrumentVars, teardownVars>>
otherThanTeardown == <<instrumentVars, levelVars>>
vars == <<part, callVars, otherThanCalls>>

-----------------------------------------------------------------------------
(* The wrappers that a function may have on it *)

Watch(limit, before) == [kind |-> "watch", limit |-> limit, before |-> before]
Trace(limit) == [kind |-> "trace", limit |-> limit, before |-> FALSE]

Scene(ws, removed, deep, n) ==
    [chain |-> ws, removable |-> removed, depth |-> deep, broken |-> FALSE, calls |-> n]

\* One watch, called twice and called recursively; two wrappers of either kind,
\* in either order, which are removed at any time; a watch whose target cannot be
\* tested for truth; a trace with and without a limit, called recursively.  In those
\* with a limited or a removed trace on top a call may wait for itself.
FewWrappers ==
    { Scene(<<Watch(1, FALSE)>>, {1}, 1, 2),
      Scene(<<Watch(1, TRUE)>>, {1}, 2, 1),
      Scene(<<Watch(1, FALSE), Watch(1, FALSE)>>, {1, 2}, 1, 1),
      Scene(<<Watch(1, FALSE), Trace(1)>>, {1, 2}, 1, 1),
      Scene(<<Trace(0), Watch(0, TRUE)>>, {2}, 1, 1),
      Scene(<<Trace(1), Watch(0, FALSE)>>, {1}, 1, 1),
      Scene(<<Trace(0)>>, {}, 2, 1),
      Scene(<<Trace(1)>>, {1}, 2, 1),
      [Scene(<<Watch(1, TRUE)>>, {}, 1, 1) EXCEPT !.broken = TRUE] }

-----------------------------------------------------------------------------
(* What a trace may have to deal with: one thing at a time, or traced functions   *)
(* that call traced functions                                                    *)

OneFeature == {{}, {"nested"}, {"recursion"}, {"generators"}, {"threads"},
               {"nested", "recursion"}}

-----------------------------------------------------------------------------
(* What a reset and a stop find: both of one thing; one of them, of two *)

SomeOwners == "mon" :> "monitor" @@ "sampler" :> "top" @@ "levels" :> "logger"
SomeSituations ==
    ({{"w1"}, {"mon"}, {"sampler"}, {"levels"}} \X {Tasks})
    \cup { <<{"w1", "mon"}, {"reset"}>>, <<{"w1", "sampler"}, {"reset"}>>,
           <<{"w1", "w2"}, {"detach"}>>, <<{"w1", "mon"}, {"detach"}>>, <<{}, {}>> }
Nothing == <<[x \in Things |-> "away"], [k \in Tasks |-> [Unasked EXCEPT !.at = "never"]]>>

-----------------------------------------------------------------------------
Init ==
    /\ part \in {"calls", "async", "monitors", "cycles", "trace", "levels", "teardown"}
    /\ CallInit /\ AsyncInit /\ MonitorInit /\ CycleInit /\ TraceInit
    /\ LevelInit /\ TeardownInit
    /\ part # "calls" => scene = CHOOSE s \in Scenes : TRUE
    /\ part # "async" => form = "coroutine"
    /\ part # "cycles" => cycles = [m \in TimedMonitors |-> CHOOSE n \in Limits : TRUE]
    /\ part # "trace" => feature = CHOOSE f \in Features : TRUE
    /\ part # "levels" => level = CHOOSE f \in [Loggers -> Levels] : TRUE
    /\ part # "teardown" => <<stage, task>> = Nothing

Next ==
    \/ part = "calls" /\ CallNext /\ UNCHANGED <<part, otherThanCalls>>
    \/ part = "async" /\ AsyncNext /\ UNCHANGED <<part, otherThanAsync>>
    \/ part = "monitors" /\ MonitorNext /\ UNCHANGED <<part, otherThanMonitors>>
    \/ part = "cycles" /\ CycleNext /\ UNCHANGED <<part, otherThanCycles>>
    \/ part = "trace" /\ TraceNext /\ UNCHANGED <<part, otherThanTrace>>
    \/ part = "levels" /\ LevelNext /\ UNCHANGED <<part, otherThanLevels>>
    \/ part = "teardown" /\ TeardownNext /\ UNCHANGED <<part, otherThanTeardown>>

\* As CallSpec and CycleSpec have it, for the behaviours that are of those parts.
Spec ==
    /\ Init /\ [][Next]_vars
    /\ \A t \in CallThreads : WF_callVars(part = "calls" /\ StepOfCall(t))
    /\ \A m \in TimedMonitors : WF_cycleVars(part = "cycles" /\ TimerSteps(m))
    /\ \A k \in Stoppers : WF_cycleVars(part = "cycles" /\ JoinEnds(k))

TypesOK == /\ CallTypeOK /\ AsyncTypeOK /\ MonitorTypeOK /\ CycleTypeOK /\ TraceTypeOK
           /\ LevelTypeOK /\ TeardownTypeOK

-----------------------------------------------------------------------------
(* A property of several components, about one hazard *)

\* Nothing waits for good on a lock of the instrumentation, but for a call that a
\* trace holds the lock of itself: every call of a wrapped function returns
\* (WrapperCalls), every timer that is told to end does, and whoever joins it goes on
\* (MonitorCycles).
NobodyStuck == CallsReturn /\ TimerEnds
=============================================================================
