----------------------------- MODULE Instrumented -----------------------------
(* What an instrumentation does to the calls it is in, and how it ends, together: *)
(* the wrappers of functions (WrapperCalls), those of coroutines and async        *)
(* generators (AsyncCalls), monitors among them (MonitorStack); the stop of a     *)
(* monitor with its timer (MonitorCycles), the levels of loggers (LoggerLevels),  *)
(* a reset of the targets and the stop of the agent (AgentTeardown).              *)
EXTENDS WrapperCalls, AsyncCalls, MonitorStack, MonitorCycles, LoggerLevels, AgentTeardown

\* The parts share no state and run side by side.
OutcomeSpec == CallSpec /\ AsyncSpec /\ MonitorSpec
EndingSpec == CycleSpec /\ LevelSpec /\ TeardownSpec

\* An instrumented call ends for the application as it would have without: functions
\* (WrapperCalls), coroutines and async generators, whose profiles say so (AsyncCalls);
\* and the repair of the chains around a monitor's wrapper keeps the way from the
\* outermost wrapper to the function's own body (MonitorStack).
OutcomesKept == Transparent /\ AsyncAccounted /\ RepairsKeepBody

\* What is ended is taken back, or it is told: a monitor that was told to stop leaves
\* nothing of it in the target and no timer that goes on (MonitorCycles); a reset and
\* the stop leave nothing of what there was when they began, but what their summary
\* names (AgentTeardown); loggers have their levels again (LoggerLevels).
EndsUndo == MonitorReleased /\ TeardownSound /\ LevelsGivenBack
=============================================================================
