------------------------- MODULE InstrumentationProofs -------------------------
(***************************************************************************)
(* Theorems about what runs inside the instrumented calls and about how an *)
(* instrumentation ends: the levels of loggers (LoggerLevels), the timers  *)
(* of monitors (MonitorCycles), a reset and the stop of the agent          *)
(* (AgentTeardown), together EndsUndo; the callees of a traced call        *)
(* (TraceBackends); the calls of a wrapped function and the limits of its  *)
(* probes (WrapperCalls), a coroutine and an async generator (AsyncCalls), *)
(* with MonitorProofs (monitors and probes in one slot) OutcomesKept.      *)
(***************************************************************************)
EXTENDS Instrumented, TraceBackends, MonitorProofs,
        SequenceTheorems, FiniteSetTheorems, WellFoundedInduction, TLAPS

-----------------------------------------------------------------------------
(* Levels of loggers *)

LevelCommand == [at : {"asked", "noted", "done"}, name : Loggers, new : Levels]

LevelTypes ==
    /\ level \in [Loggers -> Levels] /\ wanted \in [Loggers -> Levels]
    /\ originals \in [Loggers -> Levels \cup {Unnoted}]
    /\ setter \in [LevelClients -> LevelCommand \cup {[at |-> "new"]}]
    /\ restorer \in [at : {"no", "set", "forget"}, todo : SUBSET Loggers,
                     now : Loggers \cup {"none"}, levels : [Loggers -> Levels \cup {Unnoted}]]
    /\ restorer.at = "forget" => restorer.now \in Loggers
    /\ \A n \in restorer.todo : restorer.levels[n] \in Levels

\* What is noted of a logger is the application's level, and a command that is about
\* to change it has noted that; once the detach has looked, no command is about to,
\* and what is noted is what it will restore, or has just restored.
LevelSound(n) ==
    /\ originals[n] \in {wanted[n], Unnoted}
    /\ ~Noted(n) => level[n] = wanted[n]
    /\ \A c \in LevelClients : (setter[c].at = "noted" /\ setter[c].name = n) => Noted(n)
    /\ restorer.at # "no" =>
          /\ AtWorkOn(n) = {}
          /\ n \in restorer.todo => Noted(n) /\ restorer.levels[n] = originals[n]
          /\ Noted(n) => n \in restorer.todo \/ (restorer.at = "forget" /\ restorer.now = n)
    /\ (restorer.at = "forget" /\ restorer.now = n) => n \notin restorer.todo /\ level[n] = wanted[n]

LevelInv == LevelTypes /\ \A n \in Loggers \ (behind \cup crossing) : LevelSound(n)

LEMMA LevelStep == LevelInv /\ [LevelNext]_levelVars => LevelInv'
<1> SUFFICES ASSUME LevelInv, [LevelNext]_levelVars PROVE LevelInv'
  OBVIOUS
<1> USE LevelsAssumption DEF LevelInv, LevelTypes, LevelCommand, Unnoted
<1>1. ASSUME NEW c \in LevelClients, NEW n \in Loggers, NEW new \in Levels, AskLevel(c, n, new)
      PROVE  LevelInv'
  <2>1. LevelTypes'
    BY <1>1 DEF AskLevel
  <2>2. ASSUME NEW m \in Loggers \ (behind' \cup crossing') PROVE LevelSound(m)'
    BY <1>1, <2>2 DEF AskLevel, LevelSound, AtWorkOn, Noted
  <2> QED
    BY <2>1, <2>2
<1>2. ASSUME NEW c \in LevelClients, NoteLevel(c) PROVE LevelInv'
  <2>1. setter[c] \in LevelCommand /\ setter[c].at = "asked"
    BY <1>2 DEF NoteLevel
  <2>2. LevelTypes'
    BY <1>2, <2>1 DEF NoteLevel, FirstLevel, levelHistory
  <2>3. ASSUME NEW m \in Loggers \ (behind' \cup crossing') PROVE LevelSound(m)'
    BY <1>2, <2>1, <2>3 DEF NoteLevel, FirstLevel, LevelSound, AtWorkOn, Noted, levelHistory
  <2> QED
    BY <2>2, <2>3
<1>3. ASSUME NEW c \in LevelClients, ApplyLevel(c) PROVE LevelInv'
  <2>1. setter[c] \in LevelCommand /\ setter[c].at = "noted"
    BY <1>3 DEF ApplyLevel
  <2>2. LevelTypes'
    BY <1>3, <2>1 DEF ApplyLevel, levelHistory
  <2>3. ASSUME NEW m \in Loggers \ (behind' \cup crossing') PROVE LevelSound(m)'
    BY <1>3, <2>1, <2>3 DEF ApplyLevel, LevelSound, AtWorkOn, Noted, levelHistory
  <2> QED
    BY <2>2, <2>3
<1>4. CASE ChooseLevels
  <2>1. LevelTypes'
    BY <1>4 DEF ChooseLevels, Noted
  <2>2. ASSUME NEW m \in Loggers \ (behind' \cup crossing') PROVE LevelSound(m)'
    BY <1>4, <2>2 DEF ChooseLevels, LevelSound, AtWorkOn, Noted
  <2> QED
    BY <2>1, <2>2
<1>5. ASSUME NEW n \in Loggers, RestoreLevel(n) PROVE LevelInv'
  <2>1. LevelTypes'
    BY <1>5 DEF RestoreLevel, levelHistory
  <2>2. ASSUME NEW m \in Loggers \ (behind' \cup crossing') PROVE LevelSound(m)'
    BY <1>5, <2>2 DEF RestoreLevel, LevelSound, AtWorkOn, Noted, levelHistory
  <2> QED
    BY <2>1, <2>2
<1>6. CASE ForgetLevel
  <2>1. LevelTypes'
    BY <1>6 DEF ForgetLevel, levelHistory
  <2>2. ASSUME NEW m \in Loggers \ (behind' \cup crossing') PROVE LevelSound(m)'
    BY <1>6, <2>2 DEF ForgetLevel, LevelSound, AtWorkOn, Noted, levelHistory
  <2> QED
    BY <2>1, <2>2
<1>7. ASSUME NEW n \in Loggers, NEW new \in Levels, ApplicationSets(n, new) PROVE LevelInv'
  <2>1. LevelTypes'
    BY <1>7 DEF ApplicationSets
  <2>2. ASSUME NEW m \in Loggers \ (behind' \cup crossing') PROVE LevelSound(m)'
    BY <1>7, <2>2 DEF ApplicationSets, LevelSound, AtWorkOn, Noted
  <2> QED
    BY <2>1, <2>2
<1>8. CASE UNCHANGED levelVars
  BY <1>8 DEF levelVars, levelHistory, LevelSound, AtWorkOn, Noted
<1> QED
  BY <1>1, <1>2, <1>3, <1>4, <1>5, <1>6, <1>7, <1>8 DEF LevelNext

\* Whatever commands set the loggers, however they overlap with each other, with the
\* application and with the detach: a logger of which nothing is noted has the
\* application's level, and so has every logger after the detach (LevelsGivenBack),
\* for any loggers, levels and number of clients.
THEOREM LevelsAreGivenBack == LevelSpec => []LevelsGivenBack
<1>1. LevelInit => LevelInv
  BY LevelsAssumption DEF LevelInit, LevelInv, LevelTypes, LevelSound, LevelCommand, AtWorkOn,
                          Noted, Unnoted
<1>2. LevelInv => LevelsGivenBack
  BY DEF LevelInv, LevelTypes, LevelSound, LevelsGivenBack, LevelsRestored, Noted
<1> QED
  BY <1>1, <1>2, LevelStep, PTL DEF LevelSpec

-----------------------------------------------------------------------------
(* A monitor's timer and whoever stops it *)

TimerAtSteps == {"none", "begun", "created", "entered", "loop", "waiting", "due", "counted", "over",
                 "leaving", "exiting", "done"}
StopCommand == [at : {"idle", "stopping", "joining", "contexts", "ending"},
                op : {"stop", "all", "probe", "job", "jobAlone"}, for : SUBSET TimedMonitors]

CycleTypes ==
    /\ holder \in Stoppers \cup {Unheld}
    /\ listed \subseteq TimedMonitors /\ installed \subseteq TimedMonitors
    /\ tracked \subseteq TimedMonitors
    /\ timer \in [TimedMonitors -> TimerAtSteps]
    /\ probe \in [TimedMonitors -> {"none", "created", "active", "stopped"}]
    /\ late \in [TimedMonitors -> Nat]
    /\ cmd \in [Stoppers -> StopCommand]

\* A wrapper is in the target that is not listed only while the holder of the lock joins
\* its timer; there is one at most.
JoinInv ==
    /\ listed \subseteq installed
    /\ holder = Unheld => installed = listed
    /\ \A k \in Stoppers :
          /\ cmd[k].at \in {"stopping", "joining"} => cmd[k].op # "jobAlone"
          /\ cmd[k].at = "joining" => holder = k
          /\ holder = k => /\ cmd[k].at = "joining"
                           /\ \E m \in cmd[k].for : m \notin listed /\ installed = listed \cup {m}

\* How far a timer has got says what of its run is there.
TimerInv(m) ==
    /\ timer[m] = "none" => m \notin installed
    /\ timer[m] \in {"none", "begun"} => probe[m] = "none"
    /\ timer[m] = "created" => probe[m] = "created"
    /\ timer[m] \notin {"none", "begun", "created"} => probe[m] \in {"active", "stopped"}
    /\ timer[m] = "done" => probe[m] = "stopped"
    /\ timer[m] \in {"none", "begun", "created", "entered", "exiting", "done"} => m \notin tracked
    /\ timer[m] # "none" /\ m \notin statsOf => timer[m] = "done" /\ m \notin installed
    /\ \/ late[m] = 0
       \/ late[m] = 1 /\ OverProbe(m) /\ timer[m] \notin {"waiting", "due"}

CycleInv == CycleTypes /\ JoinInv /\ \A m \in TimedMonitors : TimerInv(m)

LEMMA DoIt ==
    ASSUME cmd \in [Stoppers -> StopCommand], NEW k \in Stoppers,
           NEW at \in {"idle", "stopping", "joining", "contexts", "ending"},
           NEW op \in {"stop", "all", "probe", "job", "jobAlone"},
           NEW of \in SUBSET TimedMonitors, Do(k, at, op, of)
    PROVE  /\ cmd' \in [Stoppers -> StopCommand] /\ cmd'[k].at = at /\ cmd'[k].op = op
           /\ \A j \in Stoppers : j # k => cmd'[j] = cmd[j]
<1> QED
  BY DEF Do, StopCommand

LEMMA Answers ==
    ASSUME cmd \in [Stoppers -> StopCommand], NEW k \in Stoppers, Answer(k)
    PROVE  /\ cmd' \in [Stoppers -> StopCommand] /\ cmd'[k].at = "idle"
           /\ \A j \in Stoppers : j # k => cmd'[j] = cmd[j]
<1> QED
  BY DEF Answer, NoCmd, StopCommand

\* A command that does not join, and is not on its way to end a job alone.
Elsewhere(k) ==
    /\ cmd' \in [Stoppers -> StopCommand] /\ \A j \in Stoppers : j # k => cmd'[j] = cmd[j]
    /\ cmd'[k].at # "joining" /\ (cmd'[k].at = "stopping" => cmd'[k].op # "jobAlone")

LEMMA AfterStopDoes ==
    ASSUME CycleTypes, NEW k \in Stoppers, NEW m \in TimedMonitors, NEW stopped \in BOOLEAN,
           cmd[k].op # "jobAlone", AfterStop(k, m, stopped)
    PROVE  Elsewhere(k)
<1>0. cmd[k] \in StopCommand /\ cmd \in [Stoppers -> StopCommand] /\ tracked \in SUBSET TimedMonitors
  BY DEF CycleTypes
<1>1. \/ Answer(k)
      \/ Do(k, "stopping", "all", cmd[k].for \ {m})
      \/ Do(k, "contexts", "all", tracked)
      \/ Do(k, "ending", cmd[k].op, {m})
  BY <1>0 DEF AfterStop, StopCommand
<1>2. CASE Answer(k)
  BY <1>0, <1>2, Answers DEF Elsewhere
<1>3. CASE Do(k, "stopping", "all", cmd[k].for \ {m})
  <2>1. cmd[k].for \ {m} \in SUBSET TimedMonitors
    BY <1>0 DEF StopCommand
  <2> QED
    BY <1>0, <1>3, <2>1, DoIt DEF Elsewhere
<1>4. CASE Do(k, "contexts", "all", tracked)
  BY <1>0, <1>4, DoIt DEF Elsewhere
<1>5. CASE Do(k, "ending", cmd[k].op, {m})
  <2>1. cmd[k].op \in {"stop", "all", "probe", "job", "jobAlone"} /\ {m} \in SUBSET TimedMonitors
    BY <1>0 DEF StopCommand
  <2> QED
    BY <1>0, <1>5, <2>1, DoIt DEF Elsewhere
<1> QED
  BY <1>1, <1>2, <1>3, <1>4, <1>5

\* What the commands and the timers do to who joins whom.
LEMMA JoinKept ==
    ASSUME JoinInv, CycleTypes, NEW k \in Stoppers, Elsewhere(k), cmd[k].at # "joining",
           UNCHANGED <<holder, listed, installed>>
    PROVE  JoinInv'
<1>1. holder # k
  BY DEF JoinInv
<1> QED
  BY <1>1 DEF JoinInv, Elsewhere

LEMMA JoinSame == JoinInv /\ UNCHANGED <<holder, listed, installed, cmd>> => JoinInv'
<1> QED
  BY DEF JoinInv

\* A run that is stopped was active, or stays what it is.
LEMMA StoppedRun ==
    ASSUME CycleTypes, NEW m \in TimedMonitors, NEW n \in TimedMonitors,
           probe' = Stopped(n) \/ probe' = probe
    PROVE  /\ probe' \in [TimedMonitors -> {"none", "created", "active", "stopped"}]
           /\ probe'[m] = probe[m] \/ (probe[m] = "active" /\ probe'[m] = "stopped")
<1> QED
  BY DEF CycleTypes, Stopped

LEMMA TimerKept ==
    ASSUME CycleTypes, NEW m \in TimedMonitors, TimerInv(m),
           timer'[m] = timer[m], late'[m] = late[m], m \in tracked' => m \in tracked,
           m \in installed' => m \in installed, m \in statsOf => m \in statsOf',
           probe'[m] = probe[m] \/ (probe[m] = "active" /\ probe'[m] = "stopped")
    PROVE  TimerInv(m)'
<1> QED
  BY DEF TimerInv, OverProbe

LEMMA CycleStep == CycleInv /\ [CycleNext]_cycleVars => CycleInv'
<1> SUFFICES ASSUME CycleInv, [CycleNext]_cycleVars PROVE CycleInv'
  OBVIOUS
<1>t. CycleTypes /\ JoinInv /\ \A m \in TimedMonitors : TimerInv(m)
  BY DEF CycleInv
<1>1. ASSUME NEW m \in TimedMonitors, BeginStart(m) \/ SettleStart(m) PROVE CycleInv'
  BY <1>t, <1>1 DEF BeginStart, SettleStart, monitor, runs, CycleInv, CycleTypes, JoinInv,
                    TimerInv, OverProbe
<1>2. ASSUME NEW m \in TimedMonitors, StartCycles(m) PROVE CycleInv'
  <2>1. CycleTypes'
    BY <1>t, <1>2 DEF StartCycles, CycleTypes, TimerAtSteps
  <2>2. JoinInv'
    BY <1>t, <1>2, CycleAssumption DEF StartCycles, JoinInv
  <2>3. \A n \in TimedMonitors : TimerInv(n)'
    <3> SUFFICES ASSUME NEW n \in TimedMonitors PROVE TimerInv(n)'
      OBVIOUS
    <3>1. CASE n = m
      BY <1>t, <1>2, <3>1 DEF StartCycles, CycleTypes, TimerInv, OverProbe
    <3>2. CASE n # m
      BY <1>t, <1>2, <3>2, TimerKept DEF StartCycles, CycleTypes
    <3> QED
      BY <3>1, <3>2
  <2> QED
    BY <2>1, <2>2, <2>3 DEF CycleInv
<1>3. ASSUME NEW m \in TimedMonitors, TimerSteps(m) PROVE CycleInv'
  <2>0. UNCHANGED <<holder, monitor, cmd>>
    BY <1>3 DEF TimerSteps, CreateRun, ActivateRun, TrackRun, TestProbe, WaitEnds, Report, KeepCount,
                CyclesOver, UntrackRun, ExitRun
  <2>1. JoinInv'
    BY <1>t, <2>0, JoinSame DEF monitor
  <2>2. /\ timer' \in [TimedMonitors -> TimerAtSteps]
        /\ probe' \in [TimedMonitors -> {"none", "created", "active", "stopped"}]
        /\ late' \in [TimedMonitors -> Nat] /\ tracked' \subseteq TimedMonitors
        /\ TimerInv(m)'
        /\ \A n \in TimedMonitors \ {m} :
              /\ timer'[n] = timer[n] /\ late'[n] = late[n] /\ probe'[n] = probe[n]
              /\ n \in tracked' => n \in tracked
    <3>0. TimerInv(m) /\ UNCHANGED <<installed, statsOf>>
      BY <1>t, <2>0 DEF monitor
    <3>1. CASE CreateRun(m) \/ ActivateRun(m) \/ TrackRun(m)
      BY <1>t, <3>0, <3>1 DEF CreateRun, ActivateRun, TrackRun, TimerAt, CycleTypes, TimerAtSteps,
                              TimerInv, OverProbe
    <3>2. CASE TestProbe(m) \/ WaitEnds(m) \/ KeepCount(m) \/ CyclesOver(m)
      BY <1>t, <3>0, <3>2 DEF TestProbe, WaitEnds, KeepCount, CyclesOver, ShouldStop, TimerAt, CycleTypes,
                              TimerAtSteps, TimerInv, OverProbe
    <3>3. CASE Report(m)
      BY <1>t, <3>0, <3>3 DEF Report, TimerAt, CycleTypes, TimerAtSteps, TimerInv, OverProbe
    <3>4. CASE UntrackRun(m) \/ ExitRun(m)
      BY <1>t, <3>0, <3>4 DEF UntrackRun, ExitRun, Stopped, TimerAt, CycleTypes, TimerAtSteps,
                              TimerInv, OverProbe
    <3> QED
      BY <1>3, <3>1, <3>2, <3>3, <3>4 DEF TimerSteps
  <2>3. \A n \in TimedMonitors \ {m} : TimerInv(n)'
    BY <1>t, <2>0, <2>2, TimerKept DEF monitor
  <2>4. CycleTypes'
    BY <1>t, <2>0, <2>2 DEF CycleTypes, monitor
  <2> QED
    BY <2>1, <2>2, <2>3, <2>4 DEF CycleInv
<1>4. ASSUME NEW k \in Stoppers, cmd[k].at # "joining", Elsewhere(k),
             UNCHANGED <<holder, listed, installed, statsOf, timer, late>>,
             tracked' \subseteq tracked,
             probe' = probe \/ \E n \in TimedMonitors : probe' = Stopped(n)
      PROVE  CycleInv'
  <2>1. JoinInv'
    BY <1>t, <1>4, JoinKept
  <2>2. /\ probe' \in [TimedMonitors -> {"none", "created", "active", "stopped"}]
        /\ \A m \in TimedMonitors :
              probe'[m] = probe[m] \/ (probe[m] = "active" /\ probe'[m] = "stopped")
    <3>1. CASE probe' = probe
      BY <1>t, <3>1 DEF CycleTypes
    <3>2. ASSUME NEW n \in TimedMonitors, probe' = Stopped(n)
          PROVE  /\ probe' \in [TimedMonitors -> {"none", "created", "active", "stopped"}]
                 /\ \A m \in TimedMonitors :
                       probe'[m] = probe[m] \/ (probe[m] = "active" /\ probe'[m] = "stopped")
      BY <1>t, <3>2, StoppedRun
    <3> QED
      BY <1>4, <3>1, <3>2
  <2>3. CycleTypes'
    BY <1>t, <1>4, <2>2 DEF CycleTypes, Elsewhere
  <2>4. \A m \in TimedMonitors : TimerInv(m)'
    BY <1>t, <1>4, <2>2, TimerKept
  <2> QED
    BY <2>1, <2>3, <2>4 DEF CycleInv

<1>5. ASSUME NEW k \in Stoppers, NEW m \in TimedMonitors,
             BeginStop(k, m) \/ BeginProbeStop(k, m) \/ BeginInterrupt(k, m) PROVE CycleInv'
  <2>1. cmd[k].at = "idle" /\ {m} \in SUBSET TimedMonitors /\ cmd \in [Stoppers -> StopCommand]
    BY <1>t, <1>5 DEF BeginStop, BeginProbeStop, BeginInterrupt, Idle, CycleTypes
  <2>2. UNCHANGED <<holder, monitor, runs>>
    BY <1>5 DEF BeginStop, BeginProbeStop, BeginInterrupt
  <2>3. Elsewhere(k)
    <3>1. CASE cmd' = cmd
      BY <2>1, <3>1 DEF Elsewhere
    <3>2. \/ cmd' = cmd
          \/ \E at \in {"stopping", "ending"}, op \in {"stop", "probe", "job", "jobAlone"} :
                /\ Do(k, at, op, {m}) /\ (at = "stopping" => op # "jobAlone")
      BY <1>5 DEF BeginStop, BeginProbeStop, BeginInterrupt
    <3> QED
      BY <2>1, <3>1, <3>2, DoIt DEF Elsewhere
  <2> QED
    BY <1>4, <2>1, <2>2, <2>3 DEF monitor, runs
<1>6. ASSUME NEW k \in Stoppers, BeginStopAll(k) PROVE CycleInv'
  <2>1. cmd[k].at = "idle" /\ cmd \in [Stoppers -> StopCommand]
        /\ tracked \in SUBSET TimedMonitors /\ listed \in SUBSET TimedMonitors
    BY <1>t, <1>6 DEF BeginStopAll, Idle, CycleTypes
  <2>2. Do(k, "contexts", "all", tracked) \/ Do(k, "stopping", "all", listed)
    BY <1>6 DEF BeginStopAll
  <2>3. Elsewhere(k)
    BY <2>1, <2>2, DoIt DEF Elsewhere
  <2> QED
    BY <1>4, <1>6, <2>1, <2>3 DEF BeginStopAll, monitor, runs
<1>7. ASSUME NEW k \in Stoppers, NEW m \in TimedMonitors, NotListed(k, m) PROVE CycleInv'
  <2>1. cmd[k].at = "stopping" /\ cmd[k].op # "jobAlone"
    BY <1>t, <1>7 DEF NotListed, JoinInv
  <2>2. Elsewhere(k)
    BY <1>t, <1>7, <2>1, AfterStopDoes DEF NotListed
  <2> QED
    BY <1>4, <1>7, <2>1, <2>2 DEF NotListed, monitor, runs
<1>8. ASSUME NEW k \in Stoppers, NEW m \in TimedMonitors, SignalTimer(k, m) PROVE CycleInv'
  <2>1. /\ cmd' = [cmd EXCEPT ![k].at = "joining"] /\ cmd[k].at = "stopping" /\ cmd[k] \in StopCommand
        /\ m \in cmd[k].for /\ m \in listed /\ holder = Unheld /\ holder' = k
        /\ listed' = listed \ {m} /\ UNCHANGED <<installed, statsOf, runs>>
    BY <1>t, <1>8 DEF SignalTimer, CycleTypes
  <2>2. /\ cmd' \in [Stoppers -> StopCommand] /\ cmd'[k].at = "joining" /\ cmd'[k].for = cmd[k].for
        /\ cmd'[k].op = cmd[k].op /\ \A j \in Stoppers : j # k => cmd'[j] = cmd[j]
    BY <1>t, <2>1 DEF CycleTypes, StopCommand
  <2>3. CycleTypes'
    BY <1>t, <2>1, <2>2 DEF CycleTypes, runs
  <2>4. \A j \in Stoppers : j # k => cmd[j].at # "joining"
    BY <1>t, <2>1, CycleAssumption DEF JoinInv
  <2>5. JoinInv'
    <3>1. installed = listed' \cup {m} /\ m \notin listed' /\ listed' \subseteq installed
      BY <1>t, <2>1 DEF JoinInv
    <3> QED
      BY <1>t, <2>1, <2>2, <2>4, <3>1, CycleAssumption DEF JoinInv
  <2>6. \A n \in TimedMonitors : TimerInv(n)'
    BY <1>t, <2>1, TimerKept DEF runs
  <2> QED
    BY <2>3, <2>5, <2>6 DEF CycleInv
<1>9. ASSUME NEW k \in Stoppers, JoinEnds(k) PROVE CycleInv'
  <2>1. PICK m \in Joined(k) :
           /\ cmd[k].at = "joining" /\ holder = k /\ (InTime(m) \/ MayTimeOut(m))
           /\ installed' = installed \ {m} /\ holder' = Unheld
           /\ statsOf' = IF InTime(m) THEN statsOf \ {m} ELSE statsOf
           /\ AfterStop(k, m, InTime(m))
           /\ UNCHANGED <<listed, cycles, signalled, runs, job>>
    BY <1>9 DEF JoinEnds
  <2>2. m \in TimedMonitors /\ m \in installed /\ m \notin listed /\ cmd[k].op # "jobAlone"
    BY <1>t, <2>1 DEF Joined, CycleTypes, StopCommand, JoinInv
  <2>3. Elsewhere(k)
    BY <1>t, <2>1, <2>2, AfterStopDoes DEF InTime
  <2>4. installed' = listed'
    BY <1>t, <2>1, <2>2 DEF JoinInv
  <2>5. CycleTypes'
    BY <1>t, <2>1, <2>3, <2>4 DEF CycleTypes, runs, Elsewhere
  <2>6. JoinInv'
    <3>1. \A j \in Stoppers : cmd'[j].at # "joining" /\ (cmd'[j].at = "stopping" => cmd'[j].op # "jobAlone")
      BY <1>t, <2>1, <2>3 DEF Elsewhere, JoinInv
    <3> QED
      BY <2>1, <2>4, <3>1, CycleAssumption DEF JoinInv
  <2>7. \A n \in TimedMonitors : TimerInv(n)'
    <3> SUFFICES ASSUME NEW n \in TimedMonitors PROVE TimerInv(n)'
      OBVIOUS
    <3>1. CASE n = m
      BY <1>t, <2>1, <2>2, <3>1 DEF TimerInv, InTime, runs, OverProbe
    <3>2. CASE n # m
      BY <1>t, <2>1, <2>2, <3>2, TimerKept DEF runs
    <3> QED
      BY <3>1, <3>2
  <2> QED
    BY <2>5, <2>6, <2>7 DEF CycleInv
<1>10. ASSUME NEW k \in Stoppers, StopContexts(k) PROVE CycleInv'
  <2>0. cmd[k].at = "contexts" /\ cmd \in [Stoppers -> StopCommand] /\ cmd[k].for \subseteq TimedMonitors
    BY <1>t, <1>10 DEF StopContexts, CycleTypes, StopCommand
  <2>1. CASE Answer(k) /\ UNCHANGED <<tracked, probe>>
    BY <1>4, <1>10, <2>0, <2>1, Answers DEF StopContexts, monitor, Elsewhere
  <2>2. ASSUME NEW m \in cmd[k].for,
               tracked' = tracked \ {m}, probe' = IF m \in tracked THEN Stopped(m) ELSE probe,
               Do(k, "contexts", "all", cmd[k].for \ {m})
        PROVE  CycleInv'
    <3>1. cmd[k].for \ {m} \in SUBSET TimedMonitors /\ m \in TimedMonitors
      BY <2>0
    <3>2. Elsewhere(k)
      BY <2>0, <2>2, <3>1, DoIt DEF Elsewhere
    <3> QED
      BY <1>4, <1>10, <2>0, <2>2, <3>1, <3>2 DEF StopContexts, monitor
  <2> QED
    BY <1>10, <2>1, <2>2 DEF StopContexts
<1>11. ASSUME NEW k \in Stoppers, EndProbeAndJob(k) PROVE CycleInv'
  <2>1. PICK m \in cmd[k].for : /\ cmd[k].at = "ending" /\ (probe' = probe \/ probe' = Stopped(m))
                                /\ Answer(k)
                                /\ UNCHANGED <<holder, monitor, signalled, timer, linked, tracked, reports, late>>
    BY <1>11 DEF EndProbeAndJob
  <2>2. m \in TimedMonitors /\ cmd \in [Stoppers -> StopCommand]
    BY <1>t DEF CycleTypes, StopCommand
  <2>3. Elsewhere(k)
    BY <2>1, <2>2, Answers DEF Elsewhere
  <2> QED
    BY <1>4, <2>1, <2>2, <2>3 DEF monitor
<1>12. CASE UNCHANGED cycleVars
  BY <1>t, <1>12 DEF cycleVars, monitor, runs, CycleInv, CycleTypes, JoinInv, TimerInv, OverProbe
<1> QED
  BY <1>1, <1>2, <1>3, <1>5, <1>6, <1>7, <1>8, <1>9, <1>10, <1>11, <1>12 DEF CycleNext, Stopping

\* Whoever stops a monitor, and however many at once: its wrapper is listed or someone is
\* at it, nothing of it is left once its statistics are gone, and at most one report
\* comes after its run is over.
THEOREM MonitorsAreReleased == CycleSpec => []MonitorReleased
<1>1. CycleInit => CycleInv
  BY CycleAssumption DEF CycleInit, CycleInv, CycleTypes, JoinInv, TimerInv, NoCmd, StopCommand, OverProbe,
     TimerAtSteps
<1>2. CycleInv /\ [CycleNext]_cycleVars => CycleInv'
  BY CycleStep
<1>3. CycleInv => MonitorReleased
  <2> SUFFICES ASSUME CycleInv, NEW m \in TimedMonitors
               PROVE  /\ m \in installed => m \in listed \/ \E k \in Stoppers : m \in Joined(k) /\ holder = k
                      /\ timer[m] # "none" /\ m \notin statsOf =>
                            /\ timer[m] = "done" /\ OverProbe(m)
                            /\ m \notin installed \cup tracked \cup listed
                      /\ late[m] <= 1
    BY DEF MonitorReleased
  <2>1. m \in installed => m \in listed \/ \E k \in Stoppers : m \in Joined(k) /\ holder = k
    BY DEF CycleInv, CycleTypes, JoinInv, Joined
  <2>2. timer[m] # "none" /\ m \notin statsOf =>
            /\ timer[m] = "done" /\ OverProbe(m)
            /\ m \notin installed \cup tracked \cup listed
    BY DEF CycleInv, JoinInv, TimerInv, OverProbe
  <2>3. late[m] <= 1
    BY DEF CycleInv, TimerInv
  <2> QED
    BY <2>1, <2>2, <2>3
<1> QED
  BY <1>1, <1>2, <1>3, PTL DEF CycleSpec

-----------------------------------------------------------------------------
(* A reset and the stop of the agent *)

Stages == {"away", "new", "entered", "injected", "started", "tracked", "stopping", "ended"}
TaskRecord == [at : {"never", "no", "owners", "contexts", "wrappers", "orphans", "over"},
               todo : SUBSET (Owners \cup Things), kinds : SUBSET {Kind(x) : x \in Things},
               scope : SUBSET Things]
Summaries == [owners : SUBSET Owners, contexts : SUBSET Things, wrappers : SUBSET WatchRuns,
              steps : SUBSET {"owners", "contexts", "orphans"}]

TeardownTypes ==
    /\ stage \in [Things -> Stages] /\ works \subseteq Goods /\ wraps \subseteq WatchRuns
    /\ inList \subseteq wraps /\ ctxs \subseteq Things /\ activeRun \subseteq Things
    /\ task \in [Tasks -> TaskRecord] /\ summary \in [Tasks -> Summaries]
    /\ standing \in [Tasks -> SUBSET Things] /\ touched \subseteq Things
    /\ unrestored \subseteq WatchRuns

\* What has got through its start: nothing will put it into a layer again.
Begun(x) ==
    /\ stage[x] \notin {"away", "new", "entered", "injected"}
    /\ x \in WatchRuns \cup Contextual => stage[x] # "started"

\* What is in a layer and what is not, when no command is at it: a run is active with a
\* context, a wrapper in place is listed, or a summary names it.
LayerInv ==
    /\ \A x \in works : stage[x] \in {"started", "tracked"}
    /\ \A x \in activeRun : \/ stage[x] \in {"entered", "injected"} \/ x \in ctxs
                            \/ \E any \in Tasks : x \in summary[any].contexts
    /\ wraps \subseteq inList \cup unrestored \cup summary["reset"].wrappers

OutOfScope(k, x) == k = "reset" /\ Kind(x) \in DetachOnly

\* A layer is either before the task, or the rest of it is in todo, or the summary has it.
TaskInv(k) ==
    LET at == task[k].at
        todo == task[k].todo
        Given(x) == OutOfScope(k, x) \/ "contexts" \in summary[k].steps
    IN \A x \in standing[k] :
          /\ Begun(x)
          /\ x \in task[k].scope =>
                /\ at = "owners" /\ x \in works => Kind(x) \in todo \cup summary[k].owners
                /\ at \in {"contexts", "wrappers", "orphans", "over"} /\ x \in works =>
                      \/ OutOfScope(k, x) \/ Kind(x) \in summary[k].owners
                      \/ "owners" \in summary[k].steps
                /\ at = "owners" /\ k = "detach" /\ x \in ctxs => Kind(x) \in task[k].kinds
                /\ at = "contexts" /\ x \in ctxs => x \in todo \/ Given(x)
                /\ at \in {"wrappers", "orphans", "over"} /\ x \in ctxs => Given(x)
                /\ at = "wrappers" /\ x \in inList => x \in todo
                /\ at \in {"orphans", "over"} => x \notin inList

ScopeInv ==
    /\ task["reset"].at \in {"never", "no"} => touched = {}
    /\ task["reset"].at = "contexts" =>
          \A x \in task["reset"].todo : x \in task["reset"].scope /\ Kind(x) \notin DetachOnly
    /\ task["reset"].at = "wrappers" => task["reset"].todo \subseteq task["reset"].scope
    /\ ResetScoped

TeardownInv == TeardownTypes /\ LayerInv /\ (\A k \in Tasks : TaskInv(k)) /\ ScopeInv

LEMMA KindOfThing ==
    ASSUME NEW x \in Things
    PROVE  /\ x \in Goods => Kind(x) = OwnerOf[x] /\ Kind(x) \in Owners
           /\ x \in WatchRuns => Kind(x) = "watch"
<1> QED
  BY TeardownAssumption DEF Things, Kind, Owners

LEMMA Errors ==
    ASSUME summary \in [Tasks -> Summaries], NEW k \in Tasks,
           NEW layer \in {"owners", "contexts", "wrappers", "steps"}, NEW what, Errs(k, layer, what)
    PROVE  /\ DOMAIN summary' = Tasks
           /\ \A j \in Tasks : j # k => summary'[j] = summary[j]
           /\ layer = "owners" => summary'[k] = [summary[k] EXCEPT !.owners = @ \cup what]
           /\ layer = "contexts" => summary'[k] = [summary[k] EXCEPT !.contexts = @ \cup what]
           /\ layer = "wrappers" => summary'[k] = [summary[k] EXCEPT !.wrappers = @ \cup what]
           /\ layer = "steps" => summary'[k] = [summary[k] EXCEPT !.steps = @ \cup what]
<1>1. CASE layer = "owners"
  BY <1>1 DEF Errs, Summaries
<1>2. CASE layer = "contexts"
  BY <1>2 DEF Errs, Summaries
<1>3. CASE layer = "wrappers"
  BY <1>3 DEF Errs, Summaries
<1>4. CASE layer = "steps"
  BY <1>4 DEF Errs, Summaries
<1> QED
  BY <1>1, <1>2, <1>3, <1>4

LEMMA TaskGoes ==
    ASSUME task \in [Tasks -> TaskRecord], NEW k \in Tasks,
           NEW at \in {"never", "no", "owners", "contexts", "wrappers", "orphans", "over"},
           NEW todo \in SUBSET (Owners \cup Things), GoesTo(k, at, todo)
    PROVE  /\ task' \in [Tasks -> TaskRecord]
           /\ \A j \in Tasks : j # k => task'[j] = task[j]
           /\ task'[k].at = at /\ task'[k].todo = todo
           /\ task'[k].kinds = task[k].kinds /\ task'[k].scope = task[k].scope
<1> QED
  BY DEF GoesTo, TaskRecord

LEMMA Erring ==
    ASSUME summary \in [Tasks -> Summaries], NEW k \in Tasks,
           NEW layer \in {"owners", "contexts", "wrappers", "steps"}, NEW what, Errs(k, layer, what),
           layer = "owners" => what \in SUBSET Owners,
           layer = "contexts" => what \in SUBSET Things,
           layer = "wrappers" => what \in SUBSET WatchRuns,
           layer = "steps" => what \in SUBSET {"owners", "contexts", "orphans"}
    PROVE  summary' \in [Tasks -> Summaries]
<1>0. summary[k] \in Summaries
  OBVIOUS
<1>1. summary'[k] \in Summaries
  <2>1. CASE layer = "owners"
    <3>1. summary'[k] = [summary[k] EXCEPT !.owners = @ \cup what]
      BY <2>1, Errors
    <3> QED
      BY <1>0, <2>1, <3>1 DEF Summaries
  <2>2. CASE layer = "contexts"
    <3>1. summary'[k] = [summary[k] EXCEPT !.contexts = @ \cup what]
      BY <2>2, Errors
    <3> QED
      BY <1>0, <2>2, <3>1 DEF Summaries
  <2>3. CASE layer = "wrappers"
    <3>1. summary'[k] = [summary[k] EXCEPT !.wrappers = @ \cup what]
      BY <2>3, Errors
    <3> QED
      BY <1>0, <2>3, <3>1 DEF Summaries
  <2>4. CASE layer = "steps"
    <3>1. summary'[k] = [summary[k] EXCEPT !.steps = @ \cup what]
      BY <2>4, Errors
    <3> QED
      BY <1>0, <2>4, <3>1 DEF Summaries
  <2> QED
    BY <2>1, <2>2, <2>3, <2>4
<1>2. summary' = [j \in Tasks |-> summary'[j]]
  BY DEF Errs
<1>3. \A j \in Tasks : summary'[j] \in Summaries
  BY <1>1, Errors
<1> QED
  BY <1>2, <1>3

LEMMA TeardownTypesStep == TeardownTypes /\ [TeardownNext]_teardownVars => TeardownTypes'
<1> SUFFICES ASSUME TeardownTypes, [TeardownNext]_teardownVars PROVE TeardownTypes'
  OBVIOUS
<1> USE DEF TeardownTypes
<1>1. ASSUME NEW w \in WatchRuns, EnterContext(w) \/ InjectWatch(w) \/ TrackWatch(w)
             \/ UninjectWatch(w) \/ CloseContext(w) PROVE TeardownTypes'
  BY <1>1 DEF EnterContext, InjectWatch, TrackWatch, UninjectWatch, CloseContext, Reaches, Stages,
              Things, tasks
<1>2. ASSUME NEW x \in Goods, StartOwned(x) \/ TrackOwned(x) PROVE TeardownTypes'
  BY <1>2 DEF StartOwned, TrackOwned, Reaches, Stages, Things, tasks
<1>3. ASSUME NEW s \in {Things, Matched}, BeginReset(s) PROVE TeardownTypes'
  <2>1. [Unasked EXCEPT !.at = "owners", !.scope = s, !.todo = Handlers] \in TaskRecord
    BY TeardownAssumption, ZenonT(60) DEF Unasked, TaskRecord, Handlers, Owners, Things
  <2>2. task' \in [Tasks -> TaskRecord]
    BY <1>3, <2>1 DEF BeginReset, Tasks
  <2>3. standing' \in [Tasks -> SUBSET Things]
    BY <1>3 DEF BeginReset, Standing, Things, Tasks
  <2> QED
    BY <1>3, <2>2, <2>3 DEF BeginReset, layers
<1>4. CASE BeginDetach
  <2>1. [at |-> "owners", todo |-> Handlers, scope |-> Things, kinds |-> TrackedKinds] \in TaskRecord
    BY DEF TaskRecord, Handlers, Owners, Things, TrackedKinds
  <2>2. task' \in [Tasks -> TaskRecord]
    BY <1>4, <2>1 DEF BeginDetach, Tasks
  <2>3. standing' \in [Tasks -> SUBSET Things]
    BY <1>4 DEF BeginDetach, Standing, Things, Tasks
  <2> QED
    BY <1>4, <2>2, <2>3 DEF BeginDetach, layers
<1>5. ASSUME NEW k \in Tasks, NEW o \in Owners, StopOwner(k, o) PROVE TeardownTypes'
  <2>1. task' \in [Tasks -> TaskRecord]
    BY <1>5, TaskGoes DEF StopOwner, Done, TaskRecord
  <2>2. PICK e \in SUBSET works :
           /\ works' = works \ e /\ ctxs' = ctxs \ e /\ activeRun' = activeRun \ e
           /\ \E what \in SUBSET {o} : Errs(k, "owners", what)
           /\ touched' = IF k = "reset" THEN touched \cup e ELSE touched
    BY <1>5 DEF StopOwner
  <2>3. summary' \in [Tasks -> Summaries]
    BY <2>2, Erring
  <2> QED
    BY <1>5, <2>1, <2>2, <2>3 DEF StopOwner, Things
<1>6. ASSUME NEW k \in Tasks, ChooseContexts(k) PROVE TeardownTypes'
  <2>1. task' \in [Tasks -> TaskRecord]
    BY <1>6, TaskGoes DEF ChooseContexts, ResetContexts, DetachContexts
  <2> QED
    BY <1>6, <2>1 DEF ChooseContexts, layers
<1>7. ASSUME NEW k \in Tasks, NEW x \in Things, StopContext(k, x) PROVE TeardownTypes'
  <2>1. task' \in [Tasks -> TaskRecord]
    BY <1>7, TaskGoes DEF StopContext, Done, TaskRecord
  <2>2. summary' \in [Tasks -> Summaries]
    BY <1>7, Erring DEF StopContext
  <2>3. ctxs' \subseteq Things /\ activeRun' \subseteq Things /\ touched' \subseteq Things
    BY <1>7 DEF StopContext
  <2> QED
    BY <1>7, <2>1, <2>2, <2>3 DEF StopContext
<1>8. CASE ChooseWrappers
  <2>1. task' \in [Tasks -> TaskRecord]
    BY <1>8, TaskGoes DEF ChooseWrappers, Tasks, Things
  <2> QED
    BY <1>8, <2>1 DEF ChooseWrappers, layers
<1>9. ASSUME NEW w \in WatchRuns, ResetWrapper(w) PROVE TeardownTypes'
  <2>1. task' \in [Tasks -> TaskRecord]
    BY <1>9, TaskGoes DEF ResetWrapper, Done, TaskRecord, Tasks
  <2>2. summary' \in [Tasks -> Summaries]
    BY <1>9, Erring DEF ResetWrapper, Tasks
  <2>3. inList' \subseteq wraps' /\ wraps' \subseteq WatchRuns /\ touched' \subseteq Things
    BY <1>9 DEF ResetWrapper, Things
  <2> QED
    BY <1>9, <2>1, <2>2, <2>3 DEF ResetWrapper
<1>10. CASE ResetOver
  <2>1. task' \in [Tasks -> TaskRecord]
    BY <1>10, TaskGoes DEF ResetOver, Tasks
  <2> QED
    BY <1>10, <2>1 DEF ResetOver, layers
<1>11. CASE UninjectAll
  <2>1. task' \in [Tasks -> TaskRecord]
    BY <1>11, TaskGoes DEF UninjectAll, Tasks
  <2> QED
    BY <1>11, <2>1 DEF UninjectAll
<1>12. CASE SweepOrphans
  <2>1. task' \in [Tasks -> TaskRecord]
    BY <1>12, TaskGoes DEF SweepOrphans, Tasks
  <2> QED
    BY <1>12, <2>1 DEF SweepOrphans
<1>13. CASE StepRaises
  <2>1. task' \in [Tasks -> TaskRecord]
    BY <1>13, TaskGoes DEF StepRaises, Tasks, DetachContexts
  <2>2. summary' \in [Tasks -> Summaries]
    BY <1>13, Erring DEF StepRaises, Tasks
  <2> QED
    BY <1>13, <2>1, <2>2 DEF StepRaises, layers
<1>14. CASE UNCHANGED teardownVars
  BY <1>14 DEF teardownVars, layers, tasks
<1> QED
  BY <1>1, <1>2, <1>3, <1>4, <1>5, <1>6, <1>7, <1>8, <1>9, <1>10, <1>11, <1>12, <1>13, <1>14
     DEF TeardownNext, ResetStep, DetachStep, StopForReset, StopForDetach, Tasks

NotPutBack(x) ==
    /\ x \in works' => x \in works
    /\ x \in ctxs' => x \in ctxs
    /\ x \in inList' => x \in inList

LEMMA LayersStep ==
    ASSUME TeardownTypes, [TeardownNext]_teardownVars, NEW x \in Things, Begun(x)
    PROVE  Begun(x)' /\ NotPutBack(x)
<1> USE DEF Begun, NotPutBack
<1>1. ASSUME NEW w \in WatchRuns, EnterContext(w) \/ InjectWatch(w) \/ TrackWatch(w)
             \/ UninjectWatch(w) \/ CloseContext(w)
      PROVE  Begun(x)' /\ NotPutBack(x)
  BY <1>1 DEF EnterContext, InjectWatch, TrackWatch, UninjectWatch, CloseContext, Reaches,
              TeardownTypes, Things
<1>2. ASSUME NEW y \in Goods, StartOwned(y) \/ TrackOwned(y) PROVE Begun(x)' /\ NotPutBack(x)
  BY <1>2 DEF StartOwned, TrackOwned, Reaches, TeardownTypes, Things
<1>3. ASSUME NEW s, BeginReset(s) PROVE Begun(x)' /\ NotPutBack(x)
  BY <1>3 DEF BeginReset, layers
<1>4. ASSUME NEW k \in Tasks, NEW o \in Owners, StopOwner(k, o) PROVE Begun(x)' /\ NotPutBack(x)
  BY <1>4 DEF StopOwner
<1>5. ASSUME NEW k \in Tasks, NEW y \in Things, StopContext(k, y) PROVE Begun(x)' /\ NotPutBack(x)
  BY <1>5 DEF StopContext
<1>6. ASSUME NEW w \in WatchRuns, ResetWrapper(w) PROVE Begun(x)' /\ NotPutBack(x)
  BY <1>6 DEF ResetWrapper
<1>7. CASE BeginDetach \/ (\E k \in Tasks : ChooseContexts(k)) \/ ChooseWrappers \/ ResetOver
           \/ UninjectAll \/ SweepOrphans \/ StepRaises
  BY <1>7 DEF BeginDetach, ChooseContexts, ChooseWrappers, ResetOver, UninjectAll, SweepOrphans,
              StepRaises, layers
<1>8. CASE UNCHANGED teardownVars
  BY <1>8 DEF teardownVars, layers
<1> QED
  BY <1>1, <1>2, <1>3, <1>4, <1>5, <1>6, <1>7, <1>8
     DEF TeardownNext, ResetStep, DetachStep, StopForReset, StopForDetach, Tasks

\* A task on which nobody works keeps its invariant: nothing comes back.
LEMMA OtherTask ==
    ASSUME TeardownTypes, [TeardownNext]_teardownVars, NEW k \in Tasks, TaskInv(k),
           task'[k] = task[k], standing'[k] = standing[k], summary'[k] = summary[k]
    PROVE  TaskInv(k)'
<1>1. \A x \in standing[k] : x \in Things /\ Begun(x)
  BY DEF TaskInv, TeardownTypes
<1>2. \A x \in standing[k] : Begun(x)' /\ NotPutBack(x)
  BY <1>1, LayersStep
<1> QED
  BY <1>2 DEF TaskInv, NotPutBack, OutOfScope, Kind

LEMMA LayerInvStep == TeardownTypes /\ LayerInv /\ [TeardownNext]_teardownVars => LayerInv'
<1> SUFFICES ASSUME TeardownTypes, LayerInv, [TeardownNext]_teardownVars PROVE LayerInv'
  OBVIOUS
<1> USE DEF LayerInv
<1>1. ASSUME NEW w \in WatchRuns, EnterContext(w) \/ InjectWatch(w) \/ TrackWatch(w)
             \/ UninjectWatch(w) \/ CloseContext(w) PROVE LayerInv'
  BY <1>1, TeardownAssumption DEF EnterContext, InjectWatch, TrackWatch, UninjectWatch, CloseContext, Reaches,
              TeardownTypes, Things, tasks
<1>2. ASSUME NEW x \in Goods, StartOwned(x) \/ TrackOwned(x) PROVE LayerInv'
  BY <1>2 DEF StartOwned, TrackOwned, Reaches, TeardownTypes, Things, tasks
<1>3. ASSUME NEW s, BeginReset(s) PROVE LayerInv'
  BY <1>3 DEF BeginReset, layers
<1>4. ASSUME NEW k \in Tasks, NEW o \in Owners, StopOwner(k, o) PROVE LayerInv'
  <2>1. PICK e, what : /\ works' = works \ e /\ ctxs' = ctxs \ e /\ activeRun' = activeRun \ e
                       /\ Errs(k, "owners", what)
    BY <1>4 DEF StopOwner
  <2>2. \A j \in Tasks : /\ summary'[j].contexts = summary[j].contexts
                         /\ summary'[j].wrappers = summary[j].wrappers
    <3>1. summary'[k] = [summary[k] EXCEPT !.owners = @ \cup what]
      BY <2>1, Errors DEF TeardownTypes
    <3>2. \A j \in Tasks : j # k => summary'[j] = summary[j]
      BY <2>1, Errors DEF TeardownTypes
    <3> QED
      BY <3>1, <3>2 DEF TeardownTypes, Summaries
  <2> QED
    BY <1>4, <2>1, <2>2 DEF StopOwner, Tasks
<1>5. ASSUME NEW k \in Tasks, NEW x \in Things, StopContext(k, x) PROVE LayerInv'
  <2>1. CASE activeRun' = (IF x \in ctxs THEN activeRun \ {x} ELSE activeRun) /\ UNCHANGED summary
    BY <1>5, <2>1 DEF StopContext
  <2>2. CASE Errs(k, "contexts", {x}) /\ UNCHANGED activeRun
    <3>1. summary'[k] = [summary[k] EXCEPT !.contexts = @ \cup {x}]
      BY <2>2, Errors DEF TeardownTypes
    <3>4. \A j \in Tasks : j # k => summary'[j] = summary[j]
      BY <2>2, Errors DEF TeardownTypes
    <3>2. \A j \in Tasks : /\ summary[j].contexts \subseteq summary'[j].contexts
                           /\ summary'[j].wrappers = summary[j].wrappers
      BY <3>1, <3>4 DEF TeardownTypes, Summaries
    <3>3. x \in summary'[k].contexts
      BY <3>1 DEF TeardownTypes, Summaries
    <3> QED
      BY <1>5, <2>2, <3>2, <3>3 DEF StopContext, Tasks
  <2> QED
    BY <1>5, <2>1, <2>2 DEF StopContext
<1>6. ASSUME NEW w \in WatchRuns, ResetWrapper(w) PROVE LayerInv'
  <2>1. CASE wraps' = (IF w \in inList THEN wraps \ {w} ELSE wraps) /\ UNCHANGED summary
    BY <1>6, <2>1 DEF ResetWrapper
  <2>2. CASE Errs("reset", "wrappers", {w}) /\ UNCHANGED wraps
    <3>1. summary'["reset"] = [summary["reset"] EXCEPT !.wrappers = @ \cup {w}]
      BY <2>2, Errors DEF TeardownTypes, Tasks
    <3>2. \A j \in Tasks : summary'[j].contexts = summary[j].contexts
      BY <2>2, <3>1, Errors DEF TeardownTypes, Summaries, Tasks
    <3>3. summary'["reset"].wrappers = summary["reset"].wrappers \cup {w}
      BY <3>1 DEF TeardownTypes, Summaries, Tasks
    <3> QED
      BY <1>6, <2>2, <3>2, <3>3 DEF ResetWrapper
  <2> QED
    BY <1>6, <2>1, <2>2 DEF ResetWrapper
<1>7. CASE BeginDetach \/ (\E k \in Tasks : ChooseContexts(k)) \/ ChooseWrappers \/ ResetOver
  BY <1>7 DEF BeginDetach, ChooseContexts, ChooseWrappers, ResetOver, layers
<1>8. CASE UninjectAll \/ SweepOrphans
  BY <1>8 DEF UninjectAll, SweepOrphans
<1>9. CASE StepRaises
  <2>1. PICK what : Errs("detach", "steps", what)
    BY <1>9 DEF StepRaises
  <2>2. summary'["detach"] = [summary["detach"] EXCEPT !.steps = @ \cup what]
    BY <2>1, Errors DEF TeardownTypes, Tasks
  <2>3. \A j \in Tasks : /\ summary'[j].contexts = summary[j].contexts
                         /\ summary'[j].wrappers = summary[j].wrappers
    BY <2>1, <2>2, Errors DEF TeardownTypes, Summaries, Tasks
  <2> QED
    BY <1>9, <2>3 DEF StepRaises, layers, Tasks
<1>10. CASE UNCHANGED teardownVars
  BY <1>10 DEF teardownVars, layers, tasks
<1> QED
  BY <1>1, <1>2, <1>3, <1>4, <1>5, <1>6, <1>7, <1>8, <1>9, <1>10
     DEF TeardownNext, ResetStep, DetachStep, StopForReset, StopForDetach, Tasks

\* The task that takes a step: the layer it is at, or the next one.
LEMMA TaskStep ==
    ASSUME TeardownTypes, LayerInv, ScopeInv, NEW k \in Tasks, TaskInv(k),
           [TeardownNext]_teardownVars
    PROVE  TaskInv(k)'
<1> DEFINE at == task[k].at  todo == task[k].todo
<1>t. /\ task[k] \in TaskRecord /\ summary[k] \in Summaries /\ standing[k] \subseteq Things
      /\ \A x \in Things : Begun(x) => Begun(x)' /\ NotPutBack(x)
  BY LayersStep DEF TeardownTypes
<1>1. ASSUME NEW s \in {Things, Matched}, BeginReset(s), k = "reset" PROVE TaskInv(k)'
  <2>1. /\ task'[k].at = "owners" /\ task'[k].todo = Handlers /\ standing'[k] = Standing
        /\ UNCHANGED <<layers, stage>>
    BY <1>1 DEF BeginReset, TeardownTypes, Unasked
  <2>2. \A x \in Standing : Begun(x) /\ (x \in works => Kind(x) \in Handlers)
    <3>1. \A x \in Standing : Begun(x)
      BY TeardownAssumption DEF Standing, Begun, TeardownTypes, LayerInv
    <3>2. \A x \in works : stage[x] \in {"started", "tracked"} /\ x \in Goods
      BY DEF LayerInv, TeardownTypes
    <3>3. \A x \in works : OwnerOf[x] \in Handlers
      BY <3>2 DEF Handlers
    <3>4. \A x \in works : Kind(x) = OwnerOf[x]
      BY <3>2, KindOfThing DEF Things
    <3> QED
      BY <3>1, <3>3, <3>4
  <2> QED
    BY <1>1, <2>1, <2>2 DEF TaskInv, Begun, layers
<1>2. ASSUME BeginDetach, k = "detach" PROVE TaskInv(k)'
  <2>1. /\ task'[k].at = "owners" /\ task'[k].todo = Handlers /\ standing'[k] = Standing
        /\ task'[k].kinds = TrackedKinds /\ UNCHANGED <<layers, stage>>
    BY <1>2 DEF BeginDetach, TeardownTypes
  <2>2. \A x \in Standing : Begun(x) /\ (x \in works => Kind(x) \in Handlers)
    <3>1. \A x \in Standing : Begun(x)
      BY TeardownAssumption DEF Standing, Begun, TeardownTypes, LayerInv
    <3>2. \A x \in works : stage[x] \in {"started", "tracked"} /\ x \in Goods
      BY DEF LayerInv, TeardownTypes
    <3>3. \A x \in works : OwnerOf[x] \in Handlers
      BY <3>2 DEF Handlers
    <3>4. \A x \in works : Kind(x) = OwnerOf[x]
      BY <3>2, KindOfThing DEF Things
    <3> QED
      BY <3>1, <3>3, <3>4
  <2> QED
    BY <1>2, <2>1, <2>2 DEF TaskInv, Begun, layers, TrackedKinds, Kind
<1>3. ASSUME NEW o \in Owners, StopOwner(k, o) PROVE TaskInv(k)'
  <2>1. /\ at = "owners" /\ task'[k].at = "owners" /\ task'[k].todo = todo \ {o}
        /\ task'[k].kinds = task[k].kinds /\ task'[k].scope = task[k].scope
        /\ standing' = standing
    BY <1>3, <1>t, TaskGoes DEF StopOwner, Done, TeardownTypes, TaskRecord
  <2> DEFINE told == {x \in works \cap task[k].scope : OwnerOf[x] = o}
  <2>2. PICK e \in SUBSET told : /\ works' = works \ e
                                  /\ Errs(k, "owners", IF e = told THEN {} ELSE {o})
    BY <1>3 DEF StopOwner
  <2>3. summary'[k].owners = summary[k].owners \cup (IF e = told THEN {} ELSE {o})
    <3>1. summary'[k] = [summary[k] EXCEPT !.owners = @ \cup (IF e = told THEN {} ELSE {o})]
      BY <2>2, Errors DEF TeardownTypes
    <3> QED
      BY <1>t, <3>1 DEF Summaries
  <2>4. \A x \in standing[k] :
           x \in task[k].scope /\ x \in works' => Kind(x) \in (todo \ {o}) \cup summary'[k].owners
    <3> SUFFICES ASSUME NEW x \in standing[k], x \in task[k].scope, x \in works'
                 PROVE  Kind(x) \in (todo \ {o}) \cup summary'[k].owners
      OBVIOUS
    <3>1. x \in works /\ Kind(x) \in todo \cup summary[k].owners /\ x \in Goods
      BY <2>1, <2>2 DEF TaskInv, TeardownTypes
    <3>2. Kind(x) = OwnerOf[x]
      BY <3>1, KindOfThing DEF Things
    <3>3. CASE Kind(x) = o
      BY <2>2, <2>3, <3>1, <3>2, <3>3
    <3> QED
      BY <2>3, <3>1, <3>3
  <2> QED
    BY <1>t, <2>1, <2>4 DEF TaskInv, NotPutBack, Kind
<1>4. ASSUME ChooseContexts(k) PROVE TaskInv(k)'
  <2> DEFINE chosen == IF k = "reset" THEN ResetContexts ELSE DetachContexts
  <2>1. /\ at = "owners" /\ todo \subseteq NotMeant(k) /\ task'[k].at = "contexts"
        /\ task'[k].todo = chosen /\ task'[k].kinds = task[k].kinds
        /\ task'[k].scope = task[k].scope /\ UNCHANGED <<standing, summary, layers, stage>>
    <3>1. GoesTo(k, "contexts", chosen) /\ chosen \in SUBSET (Owners \cup Things)
      BY <1>4 DEF ChooseContexts, ResetContexts, DetachContexts, TeardownTypes
    <3>2. /\ task'[k].at = "contexts" /\ task'[k].todo = chosen
          /\ task'[k].kinds = task[k].kinds /\ task'[k].scope = task[k].scope
      BY <3>1, TaskGoes DEF TeardownTypes
    <3> QED
      BY <1>4, <3>2 DEF ChooseContexts
  <2>2. \A x \in standing[k] : x \in task[k].scope =>
           /\ x \in works => OutOfScope(k, x) \/ Kind(x) \in summary[k].owners
           /\ x \in ctxs => x \in chosen \/ OutOfScope(k, x)
    <3>1. k = "reset" \/ k = "detach"
      BY DEF Tasks
    <3> QED
      BY <2>1, <3>1 DEF TaskInv, NotMeant, OutOfScope, ResetContexts, DetachContexts
  <2> QED
    BY <2>1, <2>2 DEF TaskInv, Begun, layers, OutOfScope, Kind

<1>5. ASSUME NEW x \in Things, StopContext(k, x) PROVE TaskInv(k)'
  <2>1. /\ at = "contexts" /\ task'[k].at = "contexts" /\ task'[k].todo = todo \ {x}
        /\ task'[k].kinds = task[k].kinds /\ task'[k].scope = task[k].scope
        /\ standing' = standing /\ ctxs' = ctxs \ {x}
    BY <1>5, <1>t, TaskGoes DEF StopContext, Done, TeardownTypes, TaskRecord
  <2>2. summary'[k].owners = summary[k].owners /\ summary'[k].steps = summary[k].steps
    <3>1. CASE UNCHANGED summary
      BY <3>1
    <3>2. CASE Errs(k, "contexts", {x})
      <4>1. summary'[k] = [summary[k] EXCEPT !.contexts = @ \cup {x}]
        BY <3>2, Errors DEF TeardownTypes
      <4> QED
        BY <1>t, <4>1 DEF Summaries
    <3> QED
      BY <1>5, <3>1, <3>2 DEF StopContext
  <2> QED
    BY <1>t, <2>1, <2>2 DEF TaskInv, NotPutBack, Kind, OutOfScope
<1>6. ASSUME ChooseWrappers, k = "reset" PROVE TaskInv(k)'
  <2>1. /\ at = "contexts" /\ todo = {} /\ task'[k].at = "wrappers"
        /\ task'[k].todo = inList \cap task[k].scope
        /\ task'[k].scope = task[k].scope /\ UNCHANGED <<standing, summary, layers, stage>>
    <3>1. GoesTo(k, "wrappers", inList \cap task[k].scope)
          /\ inList \cap task[k].scope \in SUBSET (Owners \cup Things)
      BY <1>6, <1>t DEF ChooseWrappers, TeardownTypes, Things
    <3>2. /\ task'[k].at = "wrappers" /\ task'[k].todo = inList \cap task[k].scope
          /\ task'[k].scope = task[k].scope
      BY <3>1, TaskGoes DEF TeardownTypes
    <3> QED
      BY <1>6, <3>2 DEF ChooseWrappers
  <2> QED
    BY <2>1 DEF TaskInv, Begun, layers, OutOfScope, Kind
<1>7. ASSUME NEW w \in WatchRuns, ResetWrapper(w), k = "reset" PROVE TaskInv(k)'
  <2>1. /\ at = "wrappers" /\ task'[k].at = "wrappers" /\ task'[k].todo = todo \ {w}
        /\ task'[k].scope = task[k].scope /\ standing' = standing /\ inList' = inList \ {w}
    BY <1>7, <1>t, TaskGoes DEF ResetWrapper, Done, TeardownTypes, TaskRecord
  <2>2. summary'[k].owners = summary[k].owners /\ summary'[k].steps = summary[k].steps
    <3>1. CASE UNCHANGED summary
      BY <3>1
    <3>2. CASE Errs(k, "wrappers", {w})
      <4>1. summary'[k] = [summary[k] EXCEPT !.wrappers = @ \cup {w}]
        BY <3>2, Errors DEF TeardownTypes
      <4> QED
        BY <1>t, <4>1 DEF Summaries
    <3> QED
      BY <1>7, <3>1, <3>2 DEF ResetWrapper
  <2> QED
    BY <1>t, <2>1, <2>2 DEF TaskInv, NotPutBack, Kind, OutOfScope
<1>8. ASSUME ResetOver, k = "reset" PROVE TaskInv(k)'
  <2>1. /\ at = "wrappers" /\ todo = {} /\ task'[k].at = "over"
        /\ task'[k].scope = task[k].scope /\ UNCHANGED <<standing, summary, layers, stage>>
    BY <1>8, TaskGoes DEF ResetOver, TeardownTypes
  <2> QED
    BY <2>1 DEF TaskInv, Begun, layers, OutOfScope, Kind
<1>9. ASSUME UninjectAll, k = "detach" PROVE TaskInv(k)'
  <2>1. /\ at = "contexts" /\ todo = {} /\ task'[k].at = "orphans" /\ inList' = {}
        /\ task'[k].scope = task[k].scope /\ UNCHANGED <<standing, summary>>
    BY <1>9, TaskGoes DEF UninjectAll, TeardownTypes
  <2> QED
    BY <1>t, <2>1 DEF TaskInv, NotPutBack, Kind, OutOfScope
<1>10. ASSUME SweepOrphans, k = "detach" PROVE TaskInv(k)'
  <2>1. /\ at = "orphans" /\ task'[k].at = "over"
        /\ task'[k].scope = task[k].scope /\ UNCHANGED <<standing, summary>>
    BY <1>10, TaskGoes DEF SweepOrphans, TeardownTypes
  <2> QED
    BY <1>t, <2>1 DEF TaskInv, NotPutBack, Kind, OutOfScope
<1>11. ASSUME StepRaises, k = "detach" PROVE TaskInv(k)'
  <2>1. /\ \/ at = "owners" /\ task'[k].at = "contexts" /\ task'[k].todo = DetachContexts
           \/ at = "contexts" /\ task'[k].at = "contexts"
           \/ at = "orphans" /\ task'[k].at = "over"
        /\ task'[k].scope = task[k].scope /\ UNCHANGED <<standing, layers, stage>>
    <3>1. DetachContexts \in SUBSET (Owners \cup Things)
      BY DEF DetachContexts, TeardownTypes
    <3> QED
      BY <1>11, <3>1, TaskGoes DEF StepRaises, TeardownTypes
  <2>2. summary'[k].owners = summary[k].owners /\ summary'[k].steps = summary[k].steps \cup {at}
    <3>1. Errs(k, "steps", {at})
      BY <1>11 DEF StepRaises
    <3>2. summary'[k] = [summary[k] EXCEPT !.steps = @ \cup {at}]
      BY <3>1, Errors DEF TeardownTypes
    <3> QED
      BY <1>t, <3>2 DEF Summaries
  <2>3. CASE at = "owners"
    BY <1>11, <2>1, <2>2, <2>3 DEF TaskInv, Begun, layers, OutOfScope, Kind, DetachContexts
  <2>4. CASE at = "contexts"
    BY <2>1, <2>2, <2>4 DEF TaskInv, Begun, layers, OutOfScope, Kind
  <2>5. CASE at = "orphans"
    BY <2>1, <2>2, <2>5 DEF TaskInv, Begun, layers, OutOfScope, Kind
  <2> QED
    BY <2>1, <2>3, <2>4, <2>5
<1>12. ASSUME task'[k] = task[k], standing'[k] = standing[k], summary'[k] = summary[k]
       PROVE  TaskInv(k)'
  BY <1>12, OtherTask
<1>13. ASSUME NEW j \in Tasks, j # k, \E o \in Owners : StopOwner(j, o) PROVE TaskInv(k)'
  <2>1. PICK o \in Owners, todo2 \in SUBSET (Owners \cup Things), at2 \in {"owners"} :
           \E what : GoesTo(j, at2, todo2) /\ standing' = standing /\ Errs(j, "owners", what)
    BY <1>13 DEF StopOwner, Done, TeardownTypes, TaskRecord
  <2>2. task'[k] = task[k]
    BY <1>13, <2>1 DEF GoesTo, TeardownTypes
  <2>3. PICK what : Errs(j, "owners", what)
    BY <2>1
  <2>4. summary'[k] = summary[k]
    BY <1>13, <2>3, Errors DEF TeardownTypes
  <2> QED
    BY <1>12, <2>1, <2>2, <2>4
<1>14. ASSUME NEW j \in Tasks, j # k, ChooseContexts(j) PROVE TaskInv(k)'
  BY <1>12, <1>14 DEF ChooseContexts, GoesTo, TeardownTypes
<1>15. ASSUME NEW j \in Tasks, j # k, NEW x \in Things, StopContext(j, x) PROVE TaskInv(k)'
  <2>1. task'[k] = task[k] /\ standing' = standing
    BY <1>15 DEF StopContext, Done, GoesTo, TeardownTypes
  <2>2. summary'[k] = summary[k]
    BY <1>15, Errors, ZenonT(30) DEF StopContext, TeardownTypes
  <2> QED
    BY <1>12, <2>1, <2>2
<1>16. ASSUME \/ \E s \in {Things, Matched} : BeginReset(s)
              \/ ChooseWrappers \/ (\E w \in WatchRuns : ResetWrapper(w)) \/ ResetOver,
              k = "detach" PROVE TaskInv(k)'
  <2>1. task'[k] = task[k] /\ standing'[k] = standing[k]
    BY <1>16 DEF BeginReset, ChooseWrappers, ResetWrapper, ResetOver, Done, GoesTo, TeardownTypes
  <2>2. summary'[k] = summary[k]
    BY <1>16, Errors DEF BeginReset, ChooseWrappers, ResetWrapper, ResetOver, TeardownTypes, Tasks
  <2> QED
    BY <1>12, <2>1, <2>2
<1>17. ASSUME BeginDetach \/ UninjectAll \/ SweepOrphans \/ StepRaises, k = "reset"
       PROVE TaskInv(k)'
  <2>1. task'[k] = task[k] /\ standing'[k] = standing[k]
    BY <1>17 DEF BeginDetach, UninjectAll, SweepOrphans, StepRaises, GoesTo, TeardownTypes
  <2>2. summary'[k] = summary[k]
    BY <1>17, Errors DEF BeginDetach, UninjectAll, SweepOrphans, StepRaises, TeardownTypes, Tasks
  <2> QED
    BY <1>12, <2>1, <2>2
<1>18. ASSUME \/ \E w \in WatchRuns : \/ EnterContext(w) \/ InjectWatch(w) \/ TrackWatch(w)
                                      \/ UninjectWatch(w) \/ CloseContext(w)
              \/ \E x \in Goods : StartOwned(x) \/ TrackOwned(x)
              \/ UNCHANGED teardownVars PROVE TaskInv(k)'
  BY <1>12, <1>18 DEF EnterContext, InjectWatch, TrackWatch, UninjectWatch, CloseContext, StartOwned,
                      TrackOwned, tasks, teardownVars
<1> QED
  BY <1>1, <1>2, <1>3, <1>4, <1>5, <1>6, <1>7, <1>8, <1>9, <1>10, <1>11, <1>13, <1>14, <1>15,
     <1>16, <1>17, <1>18
     DEF TeardownNext, ResetStep, DetachStep, StopForReset, StopForDetach, Tasks

LEMMA ScopeStep == TeardownTypes /\ ScopeInv /\ [TeardownNext]_teardownVars => ScopeInv'
<1> SUFFICES ASSUME TeardownTypes, ScopeInv, [TeardownNext]_teardownVars PROVE ScopeInv'
  OBVIOUS
<1> DEFINE mine == task["reset"]
<1>0. mine \in TaskRecord /\ "reset" \in Tasks /\ "detach" \in Tasks
  BY DEF TeardownTypes, Tasks
<1> USE DEF ScopeInv, ResetScoped
<1>1. ASSUME task'["reset"] = task["reset"], touched' = touched PROVE ScopeInv'
  BY <1>1 DEF Kind
<1>2. ASSUME NEW s \in {Things, Matched}, BeginReset(s) PROVE ScopeInv'
  BY <1>0, <1>2 DEF BeginReset, TeardownTypes, Unasked
<1>3. ASSUME NEW o \in Owners, o \notin DetachOnly, StopOwner("reset", o) PROVE ScopeInv'
  <2>1. /\ mine.at = "owners" /\ task'["reset"].at = "owners" /\ task'["reset"].scope = mine.scope
    BY <1>0, <1>3, TaskGoes DEF StopOwner, Done, TeardownTypes, TaskRecord
  <2>2. PICK e \in SUBSET {x \in works \cap mine.scope : OwnerOf[x] = o} : touched' = touched \cup e
    BY <1>3 DEF StopOwner
  <2>3. \A x \in e : x \in mine.scope /\ Kind(x) \notin DetachOnly
    BY <1>3, KindOfThing DEF TeardownTypes, Things
  <2> QED
    BY <2>1, <2>2, <2>3 DEF Kind
<1>4. CASE ChooseContexts("reset")
  <2>1. task'["reset"].at = "contexts" /\ task'["reset"].todo = ResetContexts
        /\ task'["reset"].scope = mine.scope /\ touched' = touched
    <3>1. ResetContexts \in SUBSET (Owners \cup Things)
      BY DEF ResetContexts, TeardownTypes
    <3> QED
      BY <1>0, <1>4, <3>1, TaskGoes DEF ChooseContexts, TeardownTypes
  <2> QED
    BY <1>4, <2>1 DEF ChooseContexts, ResetContexts, Kind
<1>5. ASSUME NEW x \in Things, StopContext("reset", x) PROVE ScopeInv'
  <2>1. /\ mine.at = "contexts" /\ task'["reset"].at = "contexts" /\ x \in mine.todo
        /\ task'["reset"].todo = mine.todo \ {x} /\ task'["reset"].scope = mine.scope
    BY <1>0, <1>5, TaskGoes DEF StopContext, Done, TeardownTypes, TaskRecord
  <2>2. touched' \subseteq touched \cup {x}
    BY <1>5 DEF StopContext
  <2> QED
    BY <2>1, <2>2 DEF Kind
<1>6. CASE ChooseWrappers
  <2>1. task'["reset"].at = "wrappers" /\ task'["reset"].todo = inList \cap mine.scope
        /\ task'["reset"].scope = mine.scope /\ touched' = touched
    <3>1. inList \cap mine.scope \in SUBSET (Owners \cup Things)
      BY DEF TeardownTypes, Things
    <3> QED
      BY <1>0, <1>6, <3>1, TaskGoes DEF ChooseWrappers, TeardownTypes
  <2> QED
    BY <2>1 DEF Kind
<1>7. ASSUME NEW w \in WatchRuns, ResetWrapper(w) PROVE ScopeInv'
  <2>1. /\ mine.at = "wrappers" /\ task'["reset"].at = "wrappers" /\ w \in mine.todo
        /\ task'["reset"].todo = mine.todo \ {w} /\ task'["reset"].scope = mine.scope
    BY <1>0, <1>7, TaskGoes DEF ResetWrapper, Done, TeardownTypes, TaskRecord
  <2>2. touched' \subseteq touched \cup {w}
    BY <1>7 DEF ResetWrapper
  <2>3. Kind(w) \notin DetachOnly
    BY TeardownAssumption DEF Kind
  <2> QED
    BY <2>1, <2>2, <2>3 DEF Kind
<1>8. CASE ResetOver
  BY <1>0, <1>8, TaskGoes DEF ResetOver, TeardownTypes, Kind
<1>9. ASSUME \/ BeginDetach \/ UninjectAll \/ SweepOrphans \/ StepRaises \/ ChooseContexts("detach")
             \/ (\E o \in Owners : StopOwner("detach", o)) \/ (\E x \in Things : StopContext("detach", x))
      PROVE  task'["reset"] = task["reset"] /\ touched' = touched
  <2>1. CASE \E o \in Owners : StopOwner("detach", o)
    BY <1>0, <2>1 DEF StopOwner, Done, GoesTo, TeardownTypes
  <2>2. CASE \E x \in Things : StopContext("detach", x)
    BY <1>0, <2>2 DEF StopContext, Done, GoesTo, TeardownTypes
  <2> QED
    BY <1>0, <1>9, <2>1, <2>2 DEF BeginDetach, UninjectAll, SweepOrphans, StepRaises, ChooseContexts,
                            GoesTo, TeardownTypes
<1>10. ASSUME \/ \E w \in WatchRuns : \/ EnterContext(w) \/ InjectWatch(w) \/ TrackWatch(w)
                                      \/ UninjectWatch(w) \/ CloseContext(w)
              \/ \E x \in Goods : StartOwned(x) \/ TrackOwned(x)
              \/ UNCHANGED teardownVars
       PROVE  task'["reset"] = task["reset"] /\ touched' = touched
  BY <1>10 DEF EnterContext, InjectWatch, TrackWatch, UninjectWatch, CloseContext, StartOwned,
               TrackOwned, tasks, teardownVars
<1> QED
  BY <1>1, <1>2, <1>3, <1>4, <1>5, <1>6, <1>7, <1>8, <1>9, <1>10
     DEF TeardownNext, ResetStep, DetachStep, StopForReset, StopForDetach

\* A reset and the stop of an agent, however they and the commands interleave, leave
\* nothing of what there was when they began but what their summary names; and a reset
\* ends nothing that its pattern does not match or only a detach may end.
THEOREM TeardownTells == TeardownSpec => []TeardownSound
<1>1. TeardownInit => TeardownInv
  <2> SUFFICES ASSUME TeardownInit PROVE TeardownInv
    OBVIOUS
  <2>1. PICK situation \in Situations :
           /\ stage = [x \in Things |-> IF x \in situation[1] THEN "new" ELSE "away"]
           /\ task = [k \in Tasks |-> [Unasked EXCEPT !.at = IF k \in situation[2] THEN "no" ELSE "never"]]
    BY DEF TeardownInit
  <2>2. \A k \in Tasks : /\ task[k] \in TaskRecord /\ task[k].at \in {"never", "no"}
                         /\ task[k].todo = {}
    BY <2>1 DEF Unasked, TaskRecord
  <2>3. stage \in [Things -> Stages] /\ task \in [Tasks -> TaskRecord]
    BY <2>1, <2>2 DEF Stages
  <2>4. NoErrors \in Summaries /\ summary = [k \in Tasks |-> NoErrors]
    BY DEF NoErrors, Summaries, TeardownInit
  <2>5. summary \in [Tasks -> Summaries]
    BY <2>4
  <2>6. TeardownTypes
    BY <2>3, <2>5 DEF TeardownTypes, TeardownInit
  <2>7. LayerInv
    BY DEF LayerInv, TeardownInit
  <2>8. \A k \in Tasks : TaskInv(k)
    BY DEF TaskInv, TeardownInit
  <2>9. ScopeInv
    BY <2>2 DEF ScopeInv, ResetScoped, TeardownInit, Tasks
  <2> QED
    BY <2>6, <2>7, <2>8, <2>9 DEF TeardownInv
<1>2. TeardownInv /\ [TeardownNext]_teardownVars => TeardownInv'
  BY TeardownTypesStep, LayerInvStep, TaskStep, ScopeStep DEF TeardownInv
<1>3. TeardownInv => TeardownSound
  <2> SUFFICES ASSUME TeardownInv PROVE LeftoversTold
    BY DEF TeardownSound, TeardownInv, ScopeInv
  <2> SUFFICES ASSUME NEW k \in Tasks, task[k].at = "over", NEW x \in standing[k] \cap task[k].scope
               PROVE  /\ x \in works => \/ k = "reset" /\ Kind(x) \in DetachOnly
                                        \/ Kind(x) \in summary[k].owners \/ "owners" \in summary[k].steps
                      /\ x \in ctxs => (k = "reset" /\ Kind(x) \in DetachOnly)
                                          \/ "contexts" \in summary[k].steps
                      /\ x \in activeRun => x \in ctxs \/ \E any \in Tasks : x \in summary[any].contexts
                      /\ x \notin inList
                      /\ x \in wraps => x \in unrestored \cup summary["reset"].wrappers
    BY DEF LeftoversTold
  <2>1. /\ Begun(x) /\ x \notin inList
        /\ x \in works => \/ OutOfScope(k, x) \/ Kind(x) \in summary[k].owners
                          \/ "owners" \in summary[k].steps
        /\ x \in ctxs => OutOfScope(k, x) \/ "contexts" \in summary[k].steps
    BY DEF TeardownInv, TaskInv
  <2> QED
    BY <2>1 DEF TeardownInv, LayerInv, OutOfScope, Begun
<1> QED
  BY <1>1, <1>2, <1>3, PTL DEF TeardownSpec

\* What is ended is taken back, or it is told: the timer of a monitor that was told to
\* stop and its wrapper, the contexts, wrappers and owners of a reset and of the agent's
\* stop, the levels of loggers.
THEOREM EndsAreUndone == EndingSpec => []EndsUndo
<1>1. (CycleSpec /\ LevelSpec /\ TeardownSpec) => []EndsUndo
  BY LevelsAreGivenBack, MonitorsAreReleased, TeardownTells, PTL DEF EndsUndo
<1> QED
  BY <1>1 DEF EndingSpec

-----------------------------------------------------------------------------
(* What a trace lists *)

Frames == [code : Codes \cup {Root}, long : BOOLEAN]
Counts == [Codes \cup {Root} -> Nat]

TraceTypes ==
    /\ feature \in Features /\ running \in Seq(Frames) /\ paused \subseteq Frames
    /\ returned \in Counts /\ raised \in Counts /\ heard \in Counts
    /\ ended \in {"no", "return", "unwind"}
    /\ running # <<>> => ended = "no"

\* The code of the direct callee in progress, unless it is left out.
Direct == IF Len(running) >= 2 /\ running[2].code \notin StdCodes THEN <<running[2].code>> ELSE <<>>

\* settrace: as long as it is on, its depth is that of the execution, and the direct
\* callee in progress is on its stack.
SettraceInv ==
    "generators" \notin feature =>
       /\ paused = {}
       /\ callees \in Counts /\ \A c \in Codes : callees[c] = heard[c]
       /\ tracing => /\ depth = Len(running) /\ calleeStack = Direct
                     /\ \A c \in Codes : heard[c] = returned[c] + raised[c]

Entry(c, n) == [code |-> c, skipped |-> c \in StdCodes, children |-> n]

\* monitoring: its entries are those of the traced call and of the direct callee in
\* progress; what it has counted is what returned.
MonitoringInv ==
    {"recursion", "generators", "threads"} \cap feature = {} =>
       /\ paused = {} /\ elsewhere = <<>>
       /\ \A i, j \in 1..Len(running) : running[i].code = running[j].code => i = j
       /\ running # <<>> => running[1].code = Root /\ (~running[1].long => returned = None)
       /\ ended = "no" => /\ completed = <<>>
                          /\ running = <<>> => returned = None /\ callStack = <<>>
       /\ Len(running) = 1 => callStack = <<Entry(Root, returned)>>
       /\ Len(running) >= 2 =>
             callStack = <<Entry(Root, returned), Entry(running[2].code, None)>>
       /\ ended # "no" => MonitoringCallees = IF ended = "return" THEN returned ELSE None

TraceInv == TraceTypes /\ SettraceInv /\ MonitoringInv

LEMMA FramesAppend ==
    ASSUME NEW s \in Seq(Frames), NEW f \in Frames
    PROVE  /\ Append(s, f) \in Seq(Frames) /\ Len(Append(s, f)) = Len(s) + 1
           /\ \A i \in 1..Len(s) : Append(s, f)[i] = s[i]
           /\ Append(s, f)[Len(s) + 1] = f
<1> QED
  OBVIOUS

LEMMA FrontFrames ==
    ASSUME NEW s \in Seq(Frames), Len(s) >= 1
    PROVE  /\ Front(s) \in Seq(Frames) /\ Len(Front(s)) = Len(s) - 1
           /\ \A i \in 1..Len(s) - 1 : Front(s)[i] = s[i]
<1>1. Len(s) \in Nat /\ Len(s) - 1 \in Nat
  OBVIOUS
<1>2. \A i \in 1..Len(s) - 1 : s[i] \in Frames
  BY <1>1
<1> DEFINE n == Len(s) - 1
<1>3. /\ SubSeq(s, 1, n) \in Seq(Frames)
      /\ Len(SubSeq(s, 1, n)) = IF 1 <= n THEN n - 1 + 1 ELSE 0
      /\ \A i \in 1..n - 1 + 1 : SubSeq(s, 1, n)[i] = s[1 + i - 1]
  <2> HIDE DEF n
  <2>1. n \in Int /\ \A i \in 1..n : s[i] \in Frames
    BY <1>1, <1>2 DEF n
  <2> QED
    BY <2>1, SubSeqProperties
<1>4. n - 1 + 1 = n /\ (~(1 <= n) => n = 0) /\ \A i \in 1..n : 1 + i - 1 = i
  BY <1>1, SMTT(20)
<1> QED
  BY <1>3, <1>4 DEF Front

\* The frames below the one on top, of which the last may now be known to be long.
Below(s, long) == [Front(s) EXCEPT ![Len(Front(s))].long = @ \/ long]

LEMMA FramesBelow ==
    ASSUME NEW s \in Seq(Frames), Len(s) >= 2, NEW long \in BOOLEAN,
           NEW r, r = Below(s, long)
    PROVE  /\ r \in Seq(Frames) /\ Len(r) = Len(s) - 1
           /\ \A i \in 1..Len(s) - 1 : r[i].code = s[i].code
           /\ \A i \in 1..Len(s) - 1 : ~r[i].long => ~s[i].long
           /\ ~r[Len(s) - 1].long => ~long
<1> DEFINE q == Front(s)  n == Len(s) - 1
<1>1. q \in Seq(Frames) /\ Len(q) = n /\ n \in Nat \ {0} /\ \A i \in 1..n : q[i] = s[i]
  <2>1. Len(s) \in Nat
    OBVIOUS
  <2>2. n \in Nat \ {0} /\ Len(s) >= 1
    <3> DEFINE k == Len(s)
    <3>1. k \in Nat /\ k >= 2
      BY <2>1
    <3> HIDE DEF k
    <3>2. k - 1 \in Nat \ {0} /\ k >= 1
      BY <3>1
    <3> QED
      BY <3>2 DEF k
  <2> QED
    BY <2>2, FrontFrames
<1>2. n \in 1..n /\ 1..n = DOMAIN q
  BY <1>1
<1>3. q[n] \in Frames
  BY <1>1, <1>2
<1> HIDE DEF q, n
<1> DEFINE f == [q[n] EXCEPT !.long = @ \/ long]
<1>4. f \in Frames /\ f.code = q[n].code /\ f.long = (q[n].long \/ long)
  BY <1>3 DEF Frames
<1> HIDE DEF f
<1>5. r = [q EXCEPT ![n] = f]
  BY <1>1, Zenon DEF q, f, Below
<1>6. r \in Seq(Frames) /\ Len(r) = n
  <2>1. n \in 1..Len(q)
    BY <1>1, <1>2
  <2>2. [q EXCEPT ![n] = f] \in Seq(Frames) /\ Len([q EXCEPT ![n] = f]) = Len(q)
    BY <1>1, <1>4, <2>1, ExceptSeq
  <2> QED
    BY <1>1, <1>5, <2>2
<1>7. r[n] = f /\ \A i \in 1..n : i # n => r[i] = q[i]
  BY <1>1, <1>2, <1>5
<1>8. \A i \in 1..n : r[i].code = q[i].code /\ (~r[i].long => ~q[i].long)
  BY <1>4, <1>7
<1> QED
  BY <1>1, <1>4, <1>6, <1>7, <1>8 DEF q, n

LEMMA MoreCounts ==
    ASSUME NEW cnt \in Counts, NEW c \in Codes \cup {Root}
    PROVE  /\ More(cnt, c) \in Counts /\ More(cnt, c)[c] = cnt[c] + 1
           /\ \A d \in Codes \cup {Root} : d # c => More(cnt, c)[d] = cnt[d]
<1> QED
  BY DEF Counts, More

\* What returns or raises is a direct callee that is to be listed.
Lists(long) == Len(running) = 2 /\ long /\ running[2].code \notin StdCodes

LEMMA ReturnFromRunning ==
    ASSUME TraceTypes, NEW how \in {"return", "unwind"}, NEW long \in BOOLEAN, ReturnFrom(how, long)
    PROVE  /\ running' \in Seq(Frames) /\ Len(running) \in Nat \ {0}
           /\ Len(running) = 1 \/ Len(running) >= 2
           /\ running[Len(running)] \in Frames
           /\ Len(running) = 1 =>
                 running' = <<>> /\ ended' = how /\ UNCHANGED history
           /\ Len(running) >= 2 =>
                 /\ ended' = ended /\ Len(running') = Len(running) - 1
                 /\ \A i \in 1..Len(running) - 1 : running'[i].code = running[i].code
                 /\ \A i \in 1..Len(running) - 1 : ~running'[i].long => ~running[i].long
                 /\ ~running'[Len(running) - 1].long => ~long
           /\ returned' = IF Lists(long) /\ how = "return" THEN More(returned, running[2].code) ELSE returned
           /\ raised' = IF Lists(long) /\ how = "unwind" THEN More(raised, running[2].code) ELSE raised
           /\ heard' = IF Lists(long) /\ tracing THEN More(heard, running[2].code) ELSE heard
<1> DEFINE n == Len(running)
<1>1. /\ running \in Seq(Frames) /\ running # <<>>
  BY DEF TraceTypes, ReturnFrom
<1>2. n \in Nat \ {0} /\ n \in 1..n /\ running[n] \in Frames
  BY <1>1
<1>3. Front(running) \in Seq(Frames) /\ Len(Front(running)) = n - 1
  BY <1>1, <1>2, FrontFrames
<1>4. CASE n = 1
  <2>1. Front(running) = <<>>
    BY <1>3, <1>4
  <2>2. running' = <<>> /\ ended' = how /\ UNCHANGED history
    BY <1>3, <1>4, <2>1 DEF ReturnFrom, history
  <2>3. ~Lists(long) /\ running' \in Seq(Frames) /\ ~(n >= 2)
    BY <1>4, <2>2 DEF Lists
  <2> QED
    BY <1>2, <1>4, <2>2, <2>3 DEF history
<1>5. CASE n >= 2
  <2>1. Front(running) # <<>>
    BY <1>3, <1>5
  <2>2. running' = Below(running, long) /\ ended' = ended
    BY <2>1, Zenon DEF ReturnFrom, Below
  <2>3. /\ running' \in Seq(Frames) /\ Len(running') = n - 1
        /\ \A i \in 1..n - 1 : running'[i].code = running[i].code
        /\ \A i \in 1..n - 1 : ~running'[i].long => ~running[i].long
        /\ ~running'[n - 1].long => ~long
    BY <1>1, <1>5, <2>2, FramesBelow
  <2>4. Len(Front(running)) = 1 <=> n = 2
    BY <1>2, <1>3
  <2>5. n = 2 => Last(running) = running[2]
    BY DEF Last
  <2>6. /\ returned' = IF Lists(long) /\ how = "return" THEN More(returned, running[2].code) ELSE returned
        /\ raised' = IF Lists(long) /\ how = "unwind" THEN More(raised, running[2].code) ELSE raised
        /\ heard' = IF Lists(long) /\ tracing THEN More(heard, running[2].code) ELSE heard
    BY <2>4, <2>5 DEF ReturnFrom, Lists
  <2>7. ~(n = 1)
    BY <1>2, <1>5
  <2> QED
    BY <1>2, <1>5, <2>2, <2>3, <2>6, <2>7
<1> HIDE DEF n
<1>6. n = 1 \/ n >= 2
  <2>1. \A m \in Nat \ {0} : m = 1 \/ m >= 2
    OBVIOUS
  <2> QED
    BY <1>2, <2>1, Zenon
<1> QED
  BY <1>4, <1>5, <1>6, Zenon

LEMMA TraceTypesStep == TraceTypes /\ [TraceNext]_traceVars => TraceTypes'
<1> SUFFICES ASSUME TraceTypes, [TraceNext]_traceVars PROVE TraceTypes'
  OBVIOUS
<1> USE DEF TraceTypes
<1>1. \A c \in Codes \cup {Root} : Frame(c) \in Frames
  BY DEF Frame, Frames
<1>2. \A i \in 1..Len(running) : running[i] \in Frames
  OBVIOUS
<1>3. ASSUME NEW f \in Frames, NEW long \in BOOLEAN
      PROVE  [f EXCEPT !.long = long] \in Frames /\ [f EXCEPT !.long = @ \/ long] \in Frames
  BY DEF Frames
<1>4. CASE StartTraced
  <2>1. <<Frame(Root)>> \in Seq(Frames)
    BY <1>1
  <2> QED
    BY <1>4, <2>1 DEF StartTraced, history
<1>5. ASSUME NEW c \in Codes, CallCode(c) PROVE TraceTypes'
  <2>1. running' \in Seq(Frames)
    BY <1>1, <1>5, FramesAppend DEF CallCode
  <2> QED
    BY <1>5, <2>1 DEF CallCode, history
<1>6. ASSUME NEW c \in Codes, OtherCall(c) PROVE TraceTypes'
  BY <1>6 DEF OtherCall, history
<1>7. ASSUME NEW how \in {"return", "unwind"}, NEW long \in BOOLEAN, ReturnFrom(how, long)
      PROVE  TraceTypes'
  <2>1. /\ running' \in Seq(Frames) /\ Len(running) \in Nat \ {0}
        /\ Len(running) = 1 => running' = <<>> /\ ended' = how
        /\ Len(running) >= 2 => ended' = ended
    BY <1>7, ReturnFromRunning
  <2>2. returned' \in Counts /\ raised' \in Counts /\ heard' \in Counts
    <3>1. CASE Len(running) = 2
      <4>1. running[2].code \in Codes \cup {Root}
        BY <1>2, <3>1 DEF Frames
      <4> QED
        BY <1>7, <4>1, MoreCounts, ReturnFromRunning DEF Lists
    <3>2. CASE Len(running) # 2
      BY <1>7, <3>2, ReturnFromRunning DEF Lists
    <3> QED
      BY <3>1, <3>2
  <2>3. running # <<>> /\ UNCHANGED <<feature, paused>>
    BY <1>7 DEF ReturnFrom
  <2>4. \A n \in Nat \ {0} : n = 1 \/ n >= 2
    OBVIOUS
  <2> QED
    BY <2>1, <2>2, <2>3, <2>4
<1>8. ASSUME NEW long \in BOOLEAN, Yield(long) PROVE TraceTypes'
  <2>1. running[1] \in Frames /\ Last(running) \in Frames
    BY <1>2, <1>8 DEF Yield, Last
  <2>2. /\ [running[1] EXCEPT !.long = @ \/ long] \in Frames
        /\ [Last(running) EXCEPT !.long = long] \in Frames
    BY <1>3, <2>1
  <2>3. /\ running' = <<[running[1] EXCEPT !.long = @ \/ long]>>
        /\ paused' = paused \cup {[Last(running) EXCEPT !.long = long]}
        /\ UNCHANGED <<feature, ended, returned, raised, heard>>
    BY <1>8, Zenon DEF Yield, history
  <2> DEFINE f == [running[1] EXCEPT !.long = @ \/ long]
             g == [Last(running) EXCEPT !.long = long]
  <2>4. f \in Frames /\ g \in Frames /\ running' = <<f>> /\ paused' = paused \cup {g}
    BY <2>2, <2>3
  <2> HIDE DEF f, g
  <2>5. running' \in Seq(Frames) /\ paused' \subseteq Frames
    BY <2>4
  <2>6. running # <<>>
    <3>1. Len(running) = 2 /\ Len(<<>>) = 0
      BY <1>8 DEF Yield
    <3>2. ASSUME running = <<>> PROVE FALSE
      BY <3>1, <3>2
    <3> QED
      BY <3>2
  <2> QED
    BY <2>3, <2>5, <2>6
<1>9. ASSUME NEW long \in BOOLEAN, OtherReturn(long) PROVE TraceTypes'
  BY <1>9 DEF OtherReturn, history
<1>10. ASSUME NEW g \in paused, Resume(g) PROVE TraceTypes'
  <2>1. running' \in Seq(Frames)
    BY <1>10, FramesAppend DEF Resume
  <2>2. UNCHANGED <<feature, ended, returned, raised, heard>> /\ paused' \subseteq Frames /\ running # <<>>
    BY <1>10 DEF Resume, history
  <2> QED
    BY <2>1, <2>2
<1>11. CASE NestedTrace
  BY <1>11 DEF NestedTrace, history
<1>12. CASE UNCHANGED traceVars
  BY <1>12 DEF traceVars, history
<1> QED
  BY <1>4, <1>5, <1>6, <1>7, <1>8, <1>9, <1>10, <1>11, <1>12 DEF TraceNext, Callable

\* What the execution may contain is given.
LEMMA TraceFeature == [TraceNext]_traceVars => feature' = feature
<1>1. StartTraced \/ UNCHANGED traceVars => feature' = feature
  BY Zenon DEF StartTraced, traceVars
<1>2. \A c \in Codes : CallCode(c) \/ OtherCall(c) => feature' = feature
  BY Zenon DEF CallCode, OtherCall
<1>3. \A how, long : ReturnFrom(how, long) => feature' = feature
  BY Zenon DEF ReturnFrom
<1>4. \A long : Yield(long) \/ OtherReturn(long) => feature' = feature
  BY Zenon DEF Yield, OtherReturn
<1>5. \A g : Resume(g) => feature' = feature
  BY Zenon DEF Resume
<1>6. NestedTrace => feature' = feature
  BY Zenon DEF NestedTrace
<1> QED
  BY <1>1, <1>2, <1>3, <1>4, <1>5, <1>6 DEF TraceNext, Callable

LEMMA SettraceStep == TraceTypes /\ SettraceInv /\ [TraceNext]_traceVars => SettraceInv'
<1> SUFFICES ASSUME TraceTypes, SettraceInv, [TraceNext]_traceVars,
                    "generators" \notin feature, feature' = feature
             PROVE  SettraceInv'
  BY TraceFeature DEF SettraceInv
<1>1. /\ paused = {} /\ callees \in Counts /\ heard \in Counts
      /\ returned \in Counts /\ raised \in Counts
      /\ \A c \in Codes : callees[c] = heard[c]
      /\ tracing => /\ depth = Len(running) /\ calleeStack = Direct
                    /\ \A c \in Codes : heard[c] = returned[c] + raised[c]
  BY DEF SettraceInv, TraceTypes
<1>2. running \in Seq(Frames) /\ Len(running) \in Nat
  BY DEF TraceTypes
<1>3. ASSUME paused' = {}, callees' \in Counts, \A c \in Codes : callees'[c] = heard'[c],
             depth' = Len(running'), calleeStack' = Direct',
             \A c \in Codes : heard'[c] = returned'[c] + raised'[c]
      PROVE  SettraceInv'
  BY <1>3 DEF SettraceInv
<1>4. ASSUME UNCHANGED <<running, paused, settrace, history>> PROVE SettraceInv'
  BY <1>1, <1>4 DEF SettraceInv, settrace, history, Direct
<1>14. ASSUME ~tracing', UNCHANGED <<paused, callees, heard>> PROVE SettraceInv'
  BY <1>1, <1>14 DEF SettraceInv
<1>15. ASSUME NEW c, TraceCall(c), ~tracing, UNCHANGED <<paused, history>> PROVE SettraceInv'
  BY <1>14, <1>15 DEF TraceCall, history
<1>5. CASE StartTraced
  <2>1. /\ running = <<>> /\ running' = <<Frame(Root)>> /\ TraceCall(Root)
        /\ UNCHANGED <<paused, history>>
    BY <1>5, Zenon DEF StartTraced
  <2> SUFFICES ASSUME tracing PROVE SettraceInv'
    BY <1>15, <2>1
  <2>2. depth = 0 /\ calleeStack = <<>>
    BY <1>1, <2>1 DEF Direct
  <2>3. depth' = 1 /\ calleeStack' = <<>> /\ UNCHANGED <<callees, tracing>>
    BY <1>1, <2>1, <2>2 DEF TraceCall
  <2>4. Len(running') = 1 /\ Direct' = <<>>
    BY <2>1 DEF Direct
  <2> QED
    BY <1>1, <1>3, <2>1, <2>3, <2>4 DEF history
<1>6. ASSUME NEW c \in Codes, CallCode(c) PROVE SettraceInv'
  <2>1. /\ running # <<>> /\ running' = Append(running, Frame(c)) /\ TraceCall(c)
        /\ UNCHANGED <<paused, history>>
    BY <1>6, Zenon DEF CallCode
  <2> SUFFICES ASSUME tracing PROVE SettraceInv'
    BY <1>15, <2>1
  <2>2. Frame(c) \in Frames /\ Frame(c).code = c
    BY DEF Frame, Frames
  <2>3. /\ Len(running') = Len(running) + 1
        /\ \A i \in 1..Len(running) : running'[i] = running[i]
        /\ running'[Len(running) + 1].code = c
    BY <1>2, <2>1, <2>2, FramesAppend
  <2>4. /\ depth' = Len(running) + 1 /\ UNCHANGED <<callees, tracing>>
        /\ calleeStack' = IF Len(running) = 1 /\ c \notin StdCodes THEN Append(calleeStack, c) ELSE calleeStack
    BY <1>1, <2>1 DEF TraceCall
  <2>5. calleeStack' = Direct'
    <3>1. CASE Len(running) = 1
      <4>1. Direct = <<>> /\ Direct' = IF c \notin StdCodes THEN <<c>> ELSE <<>>
        BY <2>3, <3>1 DEF Direct
      <4>2. Append(<<>>, c) = <<c>>
        OBVIOUS
      <4> QED
        BY <1>1, <2>4, <3>1, <4>1, <4>2
    <3>2. CASE Len(running) # 1
      <4> DEFINE n == Len(running)
      <4>3. n # 0
        BY <1>2, <2>1
      <4>4. n \in Nat /\ n # 1 /\ Len(running') = n + 1 /\ \A i \in 1..n : running'[i] = running[i]
        BY <1>2, <2>3, <3>2
      <4> HIDE DEF n
      <4>5. n >= 2 /\ Len(running') >= 2 /\ running'[2] = running[2]
        BY <4>3, <4>4
      <4>1. Len(running) >= 2 /\ Len(running') >= 2 /\ running'[2] = running[2]
        BY <4>5 DEF n
      <4>2. Direct' = Direct
        BY <4>1 DEF Direct
      <4> QED
        BY <1>1, <2>4, <3>2, <4>2
    <3> QED
      BY <3>1, <3>2
  <2> QED
    BY <1>1, <1>3, <2>1, <2>3, <2>4, <2>5 DEF history
<1>7. ASSUME NEW c \in Codes, OtherCall(c) PROVE SettraceInv'
  BY <1>4, <1>7, Zenon DEF OtherCall, settrace, history
<1>8. ASSUME NEW how \in {"return", "unwind"}, NEW long \in BOOLEAN, ReturnFrom(how, long)
      PROVE  SettraceInv'
  <2>1. TraceReturn(long) /\ UNCHANGED paused
    BY <1>8, Zenon DEF ReturnFrom
  <2>2. Len(running') = Len(running) - 1 /\ Len(running) \in Nat \ {0}
    <3>1. Len(running) = 1 \/ Len(running) >= 2
      BY <1>8, ReturnFromRunning
    <3> QED
      BY <1>8, <3>1, ReturnFromRunning
  <2>6. CASE ~tracing
    <3>1. ~tracing' /\ callees' = callees
      BY <2>1, <2>6 DEF TraceReturn
    <3>2. heard' = heard
      BY <1>8, <2>6, ReturnFromRunning
    <3> QED
      BY <1>14, <2>1, <3>1, <3>2
  <2> SUFFICES ASSUME tracing PROVE SettraceInv'
    BY <2>6
  <2>3. depth' = Len(running')
    BY <1>1, <2>1, <2>2 DEF TraceReturn, DepthAfter
  <2>4. CASE Len(running) # 2 \/ running[2].code \in StdCodes
    <3>1. Direct = <<>> \/ Len(running) # 2
      BY <2>4 DEF Direct
    <3>2. callees' = callees /\ calleeStack' = calleeStack
      BY <1>1, <2>1, <3>1 DEF TraceReturn
    <3>3. UNCHANGED <<returned, raised, heard>>
      BY <1>8, <2>4, ReturnFromRunning DEF Lists
    <3>4. Direct' = Direct
      <4>1. CASE Len(running) >= 3
        <5>1. running'[2].code = running[2].code /\ Len(running') >= 2
          BY <1>8, <4>1, ReturnFromRunning
        <5> QED
          BY <4>1, <5>1 DEF Direct
      <4>2. CASE Len(running) <= 2
        BY <2>2, <2>4, <4>2 DEF Direct
      <4> QED
        BY <1>2, <4>1, <4>2
    <3> QED
      BY <1>1, <1>3, <2>1, <2>3, <3>2, <3>3, <3>4
  <2>5. CASE Len(running) = 2 /\ running[2].code \notin StdCodes
    <3> DEFINE c == running[2].code
    <3>1. c \in Codes \cup {Root}
      <4>1. running[2] \in Frames
        BY <1>2, <2>5
      <4> QED
        BY <4>1 DEF Frames
    <3>2. calleeStack = <<c>> /\ Last(calleeStack) = c /\ Front(calleeStack) = <<>>
      <4>1. Direct = <<c>>
        BY <2>5 DEF Direct
      <4>2. calleeStack = <<c>>
        BY <1>1, <4>1
      <4> HIDE DEF c
      <4> QED
        BY <4>2 DEF Last, Front
    <3>3. Direct' = <<>>
      BY <2>2, <2>5 DEF Direct
    <3>4. calleeStack' = <<>> /\ callees' = IF long THEN More(callees, c) ELSE callees
      BY <1>1, <2>1, <2>5, <3>2 DEF TraceReturn
    <3>5. Lists(long) <=> long
      BY <2>5 DEF Lists
    <3>6. /\ returned' = IF long /\ how = "return" THEN More(returned, c) ELSE returned
          /\ raised' = IF long /\ how = "unwind" THEN More(raised, c) ELSE raised
          /\ heard' = IF long THEN More(heard, c) ELSE heard
      BY <1>8, <3>5, ReturnFromRunning
    <3> HIDE DEF c
    <3>7. callees' \in Counts
      BY <1>1, <3>1, <3>4, MoreCounts
    <3>8. ASSUME NEW d \in Codes
          PROVE  callees'[d] = heard'[d] /\ heard'[d] = returned'[d] + raised'[d]
      <4>1. CASE ~long
        BY <1>1, <3>4, <3>6, <4>1
      <4>2. CASE long
        <5>1. callees[d] \in Nat /\ returned[d] \in Nat /\ raised[d] \in Nat
              /\ callees[d] = heard[d] /\ heard[d] = returned[d] + raised[d]
          BY <1>1 DEF Counts
        <5>2. CASE d # c
          BY <1>1, <3>1, <3>4, <3>6, <4>2, <5>1, <5>2, MoreCounts
        <5>3. CASE d = c
          <6>1. /\ callees'[d] = callees[d] + 1 /\ heard'[d] = heard[d] + 1
                /\ \/ returned'[d] = returned[d] + 1 /\ raised'[d] = raised[d]
                   \/ returned'[d] = returned[d] /\ raised'[d] = raised[d] + 1
            BY <1>1, <3>1, <3>4, <3>6, <4>2, <5>3, MoreCounts
          <6> QED
            BY <5>1, <6>1
        <5> QED
          BY <5>2, <5>3
      <4> QED
        BY <4>1, <4>2
    <3> QED
      BY <1>1, <1>3, <2>1, <2>3, <3>3, <3>4, <3>7, <3>8
  <2> QED
    BY <2>4, <2>5
<1>9. ASSUME NEW long \in BOOLEAN, Yield(long) PROVE SettraceInv'
  <2>1. "generators" \in feature
    BY <1>9, Zenon DEF Yield
  <2> QED
    BY <2>1
<1>10. ASSUME NEW long \in BOOLEAN, OtherReturn(long) PROVE SettraceInv'
  BY <1>4, <1>10, Zenon DEF OtherReturn, settrace, history
<1>11. ASSUME NEW g \in paused, Resume(g) PROVE SettraceInv'
  BY <1>1, <1>11
<1>12. CASE NestedTrace
  BY <1>12, <1>14 DEF NestedTrace, history
<1>13. CASE UNCHANGED traceVars
  BY <1>4, <1>13, Zenon DEF traceVars, settrace, history
<1> QED
  BY <1>5, <1>6, <1>7, <1>8, <1>9, <1>10, <1>11, <1>12, <1>13 DEF TraceNext, Callable

LEMMA TwoEntries ==
    ASSUME NEW a, NEW b
    PROVE  /\ Append(<<a>>, b) = <<a, b>> /\ Last(<<a, b>>) = b /\ Front(<<a, b>>) = <<a>>
           /\ <<a, b>> # <<>>
<1>1. Len(<<a, b>>) = 2 /\ <<a, b>>[1] = a /\ <<a, b>>[2] = b
  OBVIOUS
<1> DEFINE S == {a, b}  s == <<a, b>>
<1>4. \A q \in Seq(S) : Len(q) = 1 => q = <<q[1]>>
  OBVIOUS
<1>5. \A q \in Seq(S) : Len(q) = 2 => q = <<q[1], q[2]>>
  OBVIOUS
<1>2. SubSeq(s, 1, 1) = <<a>>
  <2>1. s \in Seq(S) /\ \A i \in 1..1 : s[i] \in S
    OBVIOUS
  <2>2. SubSeq(s, 1, 1) \in Seq(S) /\ Len(SubSeq(s, 1, 1)) = 1 /\ SubSeq(s, 1, 1)[1] = a
    BY <2>1, SubSeqProperties
  <2> QED
    BY <1>4, <2>2
<1>3. Append(<<a>>, b) = <<a, b>>
  <2>1. <<a>> \in Seq(S) /\ b \in S /\ Len(<<a>>) = 1 /\ <<a>>[1] = a
    OBVIOUS
  <2>2. /\ Append(<<a>>, b) \in Seq(S) /\ Len(Append(<<a>>, b)) = 2
        /\ Append(<<a>>, b)[1] = a /\ Append(<<a>>, b)[2] = b
    BY <2>1, AppendProperties
  <2> QED
    BY <1>5, <2>2
<1> QED
  BY <1>1, <1>2, <1>3 DEF Last, Front

LEMMA MonitoringStep == TraceTypes /\ MonitoringInv /\ [TraceNext]_traceVars => MonitoringInv'
<1> SUFFICES ASSUME TraceTypes, MonitoringInv, [TraceNext]_traceVars,
                    {"recursion", "generators", "threads"} \cap feature = {}
             PROVE  MonitoringInv'
  BY TraceFeature DEF MonitoringInv
<1>1. /\ paused = {} /\ elsewhere = <<>>
      /\ \A i, j \in 1..Len(running) : running[i].code = running[j].code => i = j
      /\ running # <<>> => running[1].code = Root /\ (~running[1].long => returned = None)
      /\ ended = "no" => /\ completed = <<>>
                         /\ running = <<>> => returned = None /\ callStack = <<>>
      /\ Len(running) = 1 => callStack = <<Entry(Root, returned)>>
      /\ Len(running) >= 2 =>
            callStack = <<Entry(Root, returned), Entry(running[2].code, None)>>
      /\ ended # "no" => MonitoringCallees = IF ended = "return" THEN returned ELSE None
  BY DEF MonitoringInv
<1>2. /\ running \in Seq(Frames) /\ Len(running) \in Nat /\ returned \in Counts
      /\ running # <<>> => ended = "no"
  BY DEF TraceTypes
<1>3. ASSUME UNCHANGED <<running, paused, elsewhere, ended, monitoring, returned>>
      PROVE  MonitoringInv'
  BY <1>1, <1>3 DEF MonitoringInv, monitoring, MonitoringCallees
<1>4. CASE StartTraced
  <2>1. /\ running = <<>> /\ ended = "no" /\ running' = <<Frame(Root)>> /\ MonitorCall(Root)
        /\ UNCHANGED <<paused, elsewhere, ended, completed, returned>>
    BY <1>4, Zenon DEF StartTraced, history
  <2>2. callStack = <<>> /\ returned = None
    BY <1>1, <2>1
  <2>3. callStack' = <<Entry(Root, None)>>
    BY <2>1, <2>2 DEF MonitorCall, Recorded, Entry
  <2>4. Len(running') = 1 /\ running'[1].code = Root /\ running' # <<>>
    BY <2>1 DEF Frame
  <2> QED
    BY <1>1, <2>1, <2>2, <2>3, <2>4 DEF MonitoringInv
<1>5. ASSUME NEW c \in Codes, CallCode(c) PROVE MonitoringInv'
  <2>1. /\ running # <<>> /\ running' = Append(running, Frame(c)) /\ MonitorCall(c)
        /\ (c \in Running => "recursion" \in feature)
        /\ UNCHANGED <<paused, elsewhere, ended, completed, returned>>
    BY <1>5, Zenon DEF CallCode, history
  <2>2. Frame(c) \in Frames /\ Frame(c).code = c
    BY DEF Frame, Frames
  <2> DEFINE n == Len(running)
  <2>3. /\ n \in Nat \ {0} /\ Len(running') = n + 1
        /\ \A i \in 1..n : running'[i] = running[i]
        /\ running'[n + 1].code = c
    BY <1>2, <2>1, <2>2, FramesAppend
  <2>4. \A i \in 1..n : running[i].code # c
    BY <1>2, <2>1 DEF Running
  <2> HIDE DEF n
  <2>5. \A i, j \in 1..n + 1 : running'[i].code = running'[j].code => i = j
    <3> SUFFICES ASSUME NEW i \in 1..n + 1, NEW j \in 1..n + 1, running'[i].code = running'[j].code
                 PROVE  i = j
      OBVIOUS
    <3>1. (i \in 1..n \/ i = n + 1) /\ (j \in 1..n \/ j = n + 1)
      BY <2>3
    <3>2. CASE i \in 1..n /\ j \in 1..n
      BY <1>1, <2>3, <3>2 DEF n
    <3>3. CASE i = n + 1 \/ j = n + 1
      BY <2>3, <2>4, <3>1, <3>3
    <3> QED
      BY <3>1, <3>2, <3>3
  <2>6. running'[1] = running[1] /\ running' # <<>>
    BY <1>2, <2>1, <2>3
  <2>7. Len(running') >= 2 /\ Len(running') # 1 /\ (n = 1 \/ n >= 2)
    BY <2>3
  <2>8. callStack' = <<Entry(Root, returned), Entry(running'[2].code, None)>>
    <3>1. CASE n = 1
      <4>1. callStack = <<Entry(Root, returned)>> /\ running'[2].code = c
        BY <1>1, <2>3, <3>1 DEF n
      <4>2. callStack' = Append(callStack, Entry(c, None))
        BY <2>1, <4>1 DEF MonitorCall, Recorded, Entry
      <4>3. Append(<<Entry(Root, returned)>>, Entry(c, None)) = <<Entry(Root, returned), Entry(c, None)>>
        BY TwoEntries, Zenon
      <4> QED
        BY <4>1, <4>2, <4>3, Zenon
    <3>2. CASE n >= 2
      <4>1. callStack = <<Entry(Root, returned), Entry(running[2].code, None)>>
            /\ running'[2] = running[2]
        BY <1>1, <2>3, <3>2 DEF n
      <4>2. callStack' = callStack
        BY <2>1, <4>1 DEF MonitorCall, Recorded
      <4> QED
        BY <4>1, <4>2
    <3> QED
      BY <2>7, <3>1, <3>2
  <2>9. ended = "no"
    BY <1>2, <2>1
  <2> QED
    BY <1>1, <2>1, <2>3, <2>5, <2>6, <2>7, <2>8, <2>9 DEF MonitoringInv
<1>6. ASSUME NEW c \in Codes, OtherCall(c) PROVE MonitoringInv'
  <2>1. "threads" \in feature
    BY <1>6, Zenon DEF OtherCall
  <2> QED
    BY <2>1
<1>7. ASSUME NEW how \in {"return", "unwind"}, NEW long \in BOOLEAN, ReturnFrom(how, long)
      PROVE  MonitoringInv'
  <2> DEFINE n == Len(running)  c == running[n].code
  <2>1. /\ MonitorReturn(c, how, long) /\ UNCHANGED <<paused, elsewhere>> /\ running # <<>>
        /\ Last(running).long => long
    BY <1>7, Zenon DEF ReturnFrom, Last
  <2>2. ended = "no" /\ completed = <<>> /\ running[1].code = Root
    BY <1>1, <1>2, <2>1
  <2>3. n \in Nat /\ (n = 1 \/ n >= 2)
    BY <1>7, ReturnFromRunning
  <2>4. CASE n = 1
    <3>1. running' = <<>> /\ ended' = how /\ returned' = returned
      BY <1>7, <2>4, ReturnFromRunning DEF history
    <3>2. callStack = <<Entry(Root, returned)>> /\ c = Root
      BY <1>1, <2>2, <2>4
    <3>3. (how = "return" /\ ~long) => returned = None
      BY <1>1, <2>1, <2>4 DEF Last
    <3>4. Last(callStack) = Entry(Root, returned) /\ Front(callStack) = <<>> /\ callStack # <<>>
      BY <3>2 DEF Last, Front
    <3>5. Entry(Root, returned).code = Root /\ Entry(Root, returned).children = returned
          /\ ~Entry(Root, returned).skipped
      BY TraceAssumption DEF Entry
    <3>6. completed' = IF how = "return" /\ long THEN <<returned>> ELSE <<>>
      BY <2>2, <3>2, <3>4, <3>5, <2>1 DEF MonitorReturn
    <3>7. MonitoringCallees' = IF how = "return" THEN returned ELSE None
      BY <3>3, <3>6 DEF MonitoringCallees
    <3>8. Len(running') = 0 /\ ended' # "no"
      BY <3>1
    <3> QED
      BY <1>1, <2>1, <3>1, <3>7, <3>8 DEF MonitoringInv
  <2>5. CASE n >= 2
    <3>1. /\ ended' = ended /\ Len(running') = n - 1
          /\ \A i \in 1..n - 1 : running'[i].code = running[i].code
          /\ \A i \in 1..n - 1 : ~running'[i].long => ~running[i].long
          /\ ~running'[n - 1].long => ~long
          /\ returned' = IF Lists(long) /\ how = "return" THEN More(returned, running[2].code) ELSE returned
          /\ running' \in Seq(Frames)
      BY <1>7, <2>5, ReturnFromRunning
    <3>2. callStack = <<Entry(Root, returned), Entry(running[2].code, None)>>
      BY <1>1, <2>5
    <3>3. Last(callStack) = Entry(running[2].code, None) /\ callStack # <<>>
          /\ Front(callStack) = <<Entry(Root, returned)>>
      BY <3>2, TwoEntries, Zenon
    <3>4. Entry(running[2].code, None).code = running[2].code
          /\ (Entry(running[2].code, None).skipped <=> running[2].code \in StdCodes)
      BY DEF Entry
    <3>5. \A i, j \in 1..n - 1 : running'[i].code = running'[j].code => i = j
      BY <1>1, <2>3, <3>1
    <3>6. running' # <<>> /\ running'[1].code = Root
      BY <2>2, <2>3, <2>5, <3>1
    <3>7. CASE n = 2
      <4>1. c = running[2].code
        BY <3>7
      <4>2. /\ callStack' = IF Lists(long) /\ how = "return"
                            THEN <<Entry(Root, More(returned, c))>> ELSE <<Entry(Root, returned)>>
            /\ completed' = completed
        <5>1. [<<Entry(Root, returned)>> EXCEPT ![1].children = More(@, c)] = <<Entry(Root, More(returned, c))>>
          BY DEF Entry
        <5> QED
          BY <2>1, <3>3, <3>4, <3>7, <4>1, <5>1 DEF MonitorReturn, Lists
      <4>3. callStack' = <<Entry(Root, returned')>>
        BY <3>1, <4>1, <4>2
      <4>4. ~running'[1].long => returned' = None
        BY <1>1, <2>1, <3>1, <3>7 DEF Lists
      <4>5. Len(running') = 1
        BY <3>1, <3>7
      <4> QED
        BY <1>1, <2>1, <2>2, <3>1, <3>5, <3>6, <3>7, <4>2, <4>3, <4>4, <4>5 DEF MonitoringInv
    <3>8. CASE n >= 3
      <4>1. c # running[2].code
        BY <1>1, <2>3, <3>8
      <4>2. callStack' = callStack /\ completed' = completed
        BY <2>1, <3>3, <3>4, <4>1 DEF MonitorReturn
      <4>3. returned' = returned
        BY <3>1, <3>8 DEF Lists
      <4>4. running'[2].code = running[2].code /\ (~running'[1].long => ~running[1].long)
            /\ Len(running') >= 2 /\ Len(running') # 1
        <5> HIDE DEF n
        <5>1. 1 \in 1..n - 1 /\ 2 \in 1..n - 1 /\ n - 1 >= 2 /\ n - 1 # 1
          BY <2>3, <3>8
        <5> QED
          BY <3>1, <5>1
      <4> QED
        BY <1>1, <2>1, <2>2, <3>1, <3>2, <3>5, <3>6, <4>2, <4>3, <4>4 DEF MonitoringInv
    <3>9. n = 2 \/ n >= 3
      <4> HIDE DEF n
      <4> QED
        BY <2>3, <2>5
    <3> QED
      BY <3>7, <3>8, <3>9
  <2> QED
    BY <2>3, <2>4, <2>5
<1>8. ASSUME NEW long \in BOOLEAN, Yield(long) PROVE MonitoringInv'
  <2>1. "generators" \in feature
    BY <1>8, Zenon DEF Yield
  <2> QED
    BY <2>1
<1>9. ASSUME NEW long \in BOOLEAN, OtherReturn(long) PROVE MonitoringInv'
  <2>1. elsewhere # <<>>
    BY <1>9, Zenon DEF OtherReturn
  <2> QED
    BY <1>1, <2>1
<1>10. ASSUME NEW g \in paused, Resume(g) PROVE MonitoringInv'
  BY <1>1, <1>10
<1>11. CASE NestedTrace
  BY <1>3, <1>11, Zenon DEF NestedTrace, history
<1>12. CASE UNCHANGED traceVars
  BY <1>3, <1>12, Zenon DEF traceVars, monitoring, history
<1> QED
  BY <1>4, <1>5, <1>6, <1>7, <1>8, <1>9, <1>10, <1>11, <1>12 DEF TraceNext, Callable

\* Both backends list the direct callees they can see, and those as often as they were
\* called (DirectCalleesListed), however long and deep the execution is and whatever
\* codes there are: settrace, without generators, those that came before a traced
\* callee switched it off, monitoring, without recursion, generators and other threads,
\* all that returned.
THEOREM TraceListsCallees == TraceSpec => []DirectCalleesListed
<1>1. TraceInit => TraceInv
  <2> SUFFICES ASSUME TraceInit PROVE TraceInv
    OBVIOUS
  <2>1. None \in Counts /\ <<>> \in Seq(Frames) /\ Len(<<>>) = 0
    BY DEF None, Counts
  <2>2. \A c \in Codes : None[c] = 0
    BY DEF None
  <2>3. TraceTypes
    BY <2>1 DEF TraceInit, TraceTypes
  <2>4. SettraceInv
    BY <2>1, <2>2 DEF TraceInit, SettraceInv, Direct
  <2>5. MonitoringInv
    BY <2>1 DEF TraceInit, MonitoringInv
  <2> QED
    BY <2>3, <2>4, <2>5 DEF TraceInv
<1>2. TraceInv /\ [TraceNext]_traceVars => TraceInv'
  BY TraceTypesStep, SettraceStep, MonitoringStep DEF TraceInv
<1>3. TraceInv => DirectCalleesListed
  BY DEF TraceInv, SettraceInv, MonitoringInv, DirectCalleesListed
<1> QED
  BY <1>1, <1>2, <1>3, PTL DEF TraceSpec

-----------------------------------------------------------------------------
(* Calls of an instrumented function *)

WrapFrame == [n : 1..Bottom, holds : BOOLEAN, out : Outcomes,
              at : {"prepare", "through", "enter", "below", "after", "leave",
                    "body", "calling", "called"}]

\* The frames of the body are at it; all but the innermost wait for a call.
Stacked(s) ==
    /\ s \in Seq(WrapFrame)
    /\ \A i \in 1..Len(s) :
          /\ s[i].at \in {"body", "calling", "called"} <=> s[i].n = Bottom
          /\ s[i].at \in {"through", "below", "calling"} <=> i < Len(s)

BodiesIn(s) == {i \in 1..Len(s) : s[i].n = Bottom}
Depth(s) == Cardinality(BodiesIn(s))

\* The innermost call of the function has not reached the body yet.
Before(s) == IF s # <<>> /\ s[Len(s)].at \in {"prepare", "enter"} THEN 1 ELSE 0

WrapTypes ==
    /\ scene \in Scenes /\ registered \subseteq DOMAIN scene.chain
    /\ lock \in CallThreads \cup {Free}
    /\ DOMAIN frames = CallThreads
    /\ calls \in [CallThreads -> Nat] /\ asked \in [CallThreads -> Nat] /\ run \in [CallThreads -> Nat]
    /\ want \in [CallThreads -> Outcomes] /\ got \in [CallThreads -> Outcomes]

\* Calls of the function have ended, are in the body or before it; once the outermost
\* body has ended its outcome is what the innermost frame has.
CallSound(s, made, askedOf, runOf, wantOf, gotOf) ==
    /\ Stacked(s)
    /\ runOf + Depth(s) + Before(s) <= askedOf
    /\ ~scene.broken => runOf + Depth(s) + Before(s) = askedOf
    /\ s # <<>> /\ BodiesIn(s) = {} /\ Before(s) = 0 =>
          s[Len(s)].out = wantOf \/ (scene.broken /\ s[Len(s)].out = "exc")
    /\ s = <<>> /\ made > 0 => gotOf = wantOf \/ (scene.broken /\ gotOf = "exc")

CallInv(t) == CallSound(frames[t], calls[t], asked[t], run[t], want[t], got[t])

WrapInv == WrapTypes /\ \A t \in CallThreads : CallInv(t)

LEMMA SeqFacts ==
    ASSUME NEW S, NEW c \in Seq(S)
    PROVE  Len(c) \in Nat /\ DOMAIN c = 1..Len(c) /\ \A n \in 1..Len(c) : c[n] \in S
  OBVIOUS

LEMMA FrontFacts ==
    ASSUME NEW S, NEW c \in Seq(S), c # <<>>
    PROVE  /\ SubSeq(c, 1, Len(c) - 1) \in Seq(S) /\ Len(SubSeq(c, 1, Len(c) - 1)) = Len(c) - 1
           /\ \A i \in 1..(Len(c) - 1) : SubSeq(c, 1, Len(c) - 1)[i] = c[i]
<1> DEFINE k == Len(c)
           r == SubSeq(c, 1, k - 1)
<1>1. k \in Nat /\ k # 0 /\ \A i \in 1..k : c[i] \in S
  OBVIOUS
<1> HIDE DEF k
<1>2. k - 1 \in Nat /\ 1 \in Int /\ k - 1 \in Int /\ \A i \in 1..(k - 1) : c[i] \in S
  BY <1>1
<1>3. r \in Seq(S) /\ Len(r) = (IF 1 <= k - 1 THEN (k - 1) - 1 + 1 ELSE 0)
      /\ \A i \in 1..(k - 1) - 1 + 1 : r[i] = c[1 + i - 1]
  BY <1>2, SubSeqProperties
<1> HIDE DEF r
<1>4. r \in Seq(S) /\ Len(r) = k - 1 /\ \A i \in 1..(k - 1) : r[i] = c[i]
  BY <1>1, <1>3
<1> QED
  BY <1>4 DEF r, k

LEMMA SceneFacts ==
    ASSUME WrapTypes
    PROVE  /\ Bottom \in Nat \ {0} /\ DOMAIN scene.chain = 1..(Bottom - 1)
           /\ \A n \in 1..Bottom - 1 : Probe(n) \in [kind : {"watch", "trace"}, limit : Nat, before : BOOLEAN]
           /\ scene.broken \in BOOLEAN /\ scene.depth \in Nat \ {0}
<1>1. scene.chain \in Seq([kind : {"watch", "trace"}, limit : Nat, before : BOOLEAN])
      /\ scene.broken \in BOOLEAN /\ scene.depth \in Nat \ {0}
  BY CallAssumption DEF WrapTypes
<1> DEFINE c == scene.chain
<1>2. Len(c) \in Nat /\ DOMAIN c = 1..Len(c)
      /\ \A n \in 1..Len(c) : c[n] \in [kind : {"watch", "trace"}, limit : Nat, before : BOOLEAN]
  <2> HIDE DEF c
  <2> QED
    BY <1>1, SeqFacts DEF c
<1> QED
  BY <1>1, <1>2 DEF Bottom, Probe

\* The slot leads to a wrapper or to the body.
LEMMA SlotFacts ==
    ASSUME WrapTypes
    PROVE  Slot \in 1..Bottom
<1>1. registered \cup {Bottom} \in SUBSET Nat
  BY SceneFacts DEF WrapTypes
<1>2. PICK n \in registered \cup {Bottom} : \A k \in registered \cup {Bottom} : n <= k
  BY <1>1, Least
<1>3. Slot \in registered \cup {Bottom}
  BY <1>2 DEF Slot
<1> QED
  BY <1>3, SceneFacts DEF WrapTypes

LEMMA BodiesFinite ==
    ASSUME NEW s, s \in Seq(WrapFrame)
    PROVE  IsFiniteSet(BodiesIn(s)) /\ Depth(s) \in Nat /\ (Depth(s) = 0 <=> BodiesIn(s) = {})
<1>1. Len(s) \in Nat
  OBVIOUS
<1>2. IsFiniteSet(1..Len(s))
  BY <1>1, FS_Interval
<1>3. BodiesIn(s) \subseteq 1..Len(s)
  BY DEF BodiesIn
<1>4. IsFiniteSet(BodiesIn(s))
  BY <1>2, <1>3, FS_Subset
<1> QED
  BY <1>4, FS_CardinalityType, FS_EmptySet DEF Depth

\* The innermost frame goes on as f.
OnAs(s, f) == [s EXCEPT ![Len(s)] = f]

LEMMA GoOn ==
    ASSUME NEW s, Stacked(s), s # <<>>, NEW f \in WrapFrame, f.n = s[Len(s)].n,
           f.at \in {"body", "calling", "called"} <=> f.n = Bottom,
           f.at \notin {"through", "below", "calling"}
    PROVE  /\ Stacked(OnAs(s, f)) /\ OnAs(s, f) # <<>> /\ OnAs(s, f)[Len(OnAs(s, f))] = f
           /\ BodiesIn(OnAs(s, f)) = BodiesIn(s)
<1> DEFINE k == Len(s)
           r == OnAs(s, f)
<1>1. s \in Seq(WrapFrame) /\ k \in Nat /\ k # 0
  BY DEF Stacked
<1>2. r \in Seq(WrapFrame) /\ Len(r) = k /\ r[k] = f /\ \A i \in 1..k : i # k => r[i] = s[i]
  BY <1>1 DEF OnAs
<1>3. BodiesIn(r) = BodiesIn(s)
  BY <1>1, <1>2 DEF BodiesIn
<1>4. Stacked(r)
  BY <1>1, <1>2 DEF Stacked
<1> QED
  BY <1>1, <1>2, <1>3, <1>4

\* It waits as f for a call of n.
CallsOn(s, f, n) == Append(OnAs(s, f), NewFrame(n))

LEMMA CallOn ==
    ASSUME NEW s, Stacked(s), s # <<>>, NEW f \in WrapFrame, f.n = s[Len(s)].n,
           f.at \in {"body", "calling", "called"} <=> f.n = Bottom,
           f.at \in {"through", "below", "calling"}, NEW n \in 1..Bottom, Bottom \in Nat
    PROVE  /\ Stacked(CallsOn(s, f, n)) /\ CallsOn(s, f, n) # <<>>
           /\ Depth(CallsOn(s, f, n)) + Before(CallsOn(s, f, n)) = Depth(s) + 1
           /\ BodiesIn(CallsOn(s, f, n)) = {} => Before(CallsOn(s, f, n)) = 1
<1> DEFINE k == Len(s)
           o == OnAs(s, f)
           r == CallsOn(s, f, n)
           g == NewFrame(n)
<1>1. s \in Seq(WrapFrame) /\ k \in Nat /\ k # 0
  BY DEF Stacked
<1>2. o \in Seq(WrapFrame) /\ Len(o) = k /\ o[k] = f /\ \A i \in 1..k : i # k => o[i] = s[i]
  BY <1>1 DEF OnAs
<1>3. g \in WrapFrame /\ g.n = n /\ g.at = (IF n = Bottom THEN "body" ELSE "prepare")
  BY DEF NewFrame, WrapFrame, Outcomes
<1>4. /\ r \in Seq(WrapFrame) /\ Len(r) = k + 1 /\ r[k + 1] = g
      /\ r[k] = f /\ \A i \in 1..k : i # k => r[i] = s[i]
  <2>1. r = Append(o, g)
    BY DEF CallsOn
  <2> HIDE DEF o, g, r
  <2> QED
    BY <1>1, <1>2, <1>3, <2>1
<1> HIDE DEF r, k, g
<1>5. BodiesIn(r) = BodiesIn(s) \cup (IF n = Bottom THEN {k + 1} ELSE {})
  BY <1>1, <1>3, <1>4 DEF BodiesIn, k
<1>6. k + 1 \notin BodiesIn(s)
  BY <1>1 DEF BodiesIn, k
<1>7. Depth(r) = Depth(s) + (IF n = Bottom THEN 1 ELSE 0)
  <2>1. IsFiniteSet(BodiesIn(s)) /\ Depth(s) \in Nat
    BY <1>1, BodiesFinite
  <2>2. CASE n = Bottom
    <3>1. Cardinality(BodiesIn(s) \cup {k + 1}) = Cardinality(BodiesIn(s)) + 1
      BY <1>6, <2>1, FS_AddElement
    <3> QED
      BY <1>5, <2>2, <3>1 DEF Depth
  <2>3. CASE n # Bottom
    BY <1>5, <2>1, <2>3 DEF Depth
  <2> QED
    BY <2>2, <2>3
<1>8. Before(r) = IF n = Bottom THEN 0 ELSE 1
  BY <1>1, <1>3, <1>4 DEF Before
<1>9. Stacked(r)
  <2> SUFFICES ASSUME NEW i \in 1..(k + 1)
               PROVE  /\ r[i].at \in {"body", "calling", "called"} <=> r[i].n = Bottom
                      /\ r[i].at \in {"through", "below", "calling"} <=> i < k + 1
    BY <1>4 DEF Stacked
  <2>1. CASE i = k + 1
    BY <1>1, <1>3, <1>4, <2>1
  <2>2. CASE i = k
    BY <1>1, <1>4, <2>2 DEF k
  <2>3. CASE i \in 1..k /\ i # k
    BY <1>1, <1>4, <2>3 DEF Stacked, k
  <2> QED
    BY <1>1, <2>1, <2>2, <2>3
<1>10. Depth(s) \in Nat /\ r # <<>>
  BY <1>1, <1>4, BodiesFinite
<1>11. BodiesIn(r) = {} => Before(r) = 1
  BY <1>5, <1>8
<1>12. Depth(r) + Before(r) = Depth(s) + 1
  BY <1>7, <1>8, <1>10
<1> QED
  BY <1>9, <1>10, <1>11, <1>12 DEF r

\* The innermost frame is left with the outcome o, and the one below resumes.
Popped(s, o) == [SubSeq(s, 1, Len(s) - 1) EXCEPT ![Len(s) - 1] = Resumed(s[Len(s) - 1], o)]

LEMMA PopOff ==
    ASSUME NEW s, Stacked(s), s # <<>>, NEW o \in Outcomes
    PROVE  /\ SubSeq(s, 1, Len(s) - 1) = <<>> <=> Len(s) = 1
           /\ Len(s) # 1 => Stacked(Popped(s, o)) /\ Popped(s, o) # <<>>
           /\ Len(s) # 1 => Depth(Popped(s, o)) = Depth(s) - (IF s[Len(s)].n = Bottom THEN 1 ELSE 0)
           /\ Len(s) # 1 => Before(Popped(s, o)) = 0
           /\ Len(s) # 1 /\ BodiesIn(Popped(s, o)) = {} => Popped(s, o)[Len(Popped(s, o))].out = o
           /\ Len(s) = 1 => Depth(s) = (IF s[1].n = Bottom THEN 1 ELSE 0)
<1> DEFINE k == Len(s)
           rest == SubSeq(s, 1, k - 1)
           r == Popped(s, o)
<1>1. s \in Seq(WrapFrame) /\ k \in Nat /\ k # 0
  BY DEF Stacked
<1>2. rest \in Seq(WrapFrame) /\ Len(rest) = k - 1 /\ \A i \in 1..(k - 1) : rest[i] = s[i]
  BY <1>1, FrontFacts
<1>3. rest = <<>> <=> k = 1
  <2> HIDE DEF rest
  <2> QED
    BY <1>1, <1>2
<1>4. ASSUME k = 1 PROVE Depth(s) = (IF s[1].n = Bottom THEN 1 ELSE 0)
  <2>1. BodiesIn(s) = (IF s[1].n = Bottom THEN {1} ELSE {})
    BY <1>1, <1>4 DEF BodiesIn
  <2> QED
    BY <2>1, FS_Singleton, FS_EmptySet DEF Depth
<1>5. ASSUME k # 1
      PROVE  /\ Stacked(r) /\ r # <<>> /\ Depth(r) = Depth(s) - (IF s[k].n = Bottom THEN 1 ELSE 0)
             /\ Before(r) = 0 /\ (BodiesIn(r) = {} => r[Len(r)].out = o)
  <2> DEFINE f == s[k - 1]
             g == Resumed(f, o)
  <2>0. k - 1 \in 1..k /\ k - 1 < k
    <3> HIDE DEF k
    <3> QED
      BY <1>1, <1>5
  <2>1. /\ f \in WrapFrame /\ f.at \in {"through", "below", "calling"}
        /\ f.at = "calling" <=> f.n = Bottom
    BY <1>1, <2>0 DEF Stacked
  <2>2. /\ g \in WrapFrame /\ g.n = f.n /\ g.at \in {"called", "after", "leave"}
        /\ g.at = "called" <=> g.n = Bottom
        /\ g.n # Bottom => g.out = o
    BY <2>1 DEF Resumed, WrapFrame
  <2>3. r = [rest EXCEPT ![k - 1] = g]
    BY DEF Popped
  <2> HIDE DEF rest, g, r
  <2>4. /\ r \in Seq(WrapFrame) /\ Len(r) = k - 1 /\ r[k - 1] = g
        /\ \A i \in 1..(k - 1) : i # k - 1 => r[i] = s[i]
    BY <1>1, <1>2, <1>5, <2>2, <2>3
  <2>5. Stacked(r)
    <3>1. ASSUME NEW i \in 1..(k - 1)
          PROVE  /\ r[i].at \in {"body", "calling", "called"} <=> r[i].n = Bottom
                 /\ r[i].at \in {"through", "below", "calling"} <=> i < k - 1
      <4>1. i \in 1..k /\ i < k /\ (i # k - 1 => i < k - 1) /\ ~(k - 1 < k - 1)
        <5> HIDE DEF k
        <5> QED
          BY <1>1, <3>1
      <4>2. CASE i = k - 1
        BY <2>2, <2>4, <4>1, <4>2
      <4>3. CASE i # k - 1
        <5>1. r[i] = s[i]
          BY <2>4, <3>1, <4>3
        <5>2. /\ s[i].at \in {"body", "calling", "called"} <=> s[i].n = Bottom
              /\ s[i].at \in {"through", "below", "calling"} <=> i < k
          BY <4>1 DEF Stacked
        <5> QED
          BY <4>1, <4>3, <5>1, <5>2
      <4> QED
        BY <4>2, <4>3
    <3> QED
      BY <2>4, <3>1 DEF Stacked
  <2>6. BodiesIn(r) = BodiesIn(s) \ {k}
    BY <1>1, <1>5, <2>1, <2>2, <2>4, SMTT(30) DEF BodiesIn
  <2>7. k \in BodiesIn(s) <=> s[k].n = Bottom
    BY <1>1 DEF BodiesIn
  <2>8. IsFiniteSet(BodiesIn(s)) /\ Depth(s) \in Nat
    BY <1>1, BodiesFinite
  <2>9. Depth(r) = Depth(s) - (IF s[k].n = Bottom THEN 1 ELSE 0)
    <3>1. CASE s[k].n = Bottom
      <4>1. Cardinality(BodiesIn(s) \ {k}) = Cardinality(BodiesIn(s)) - 1
        BY <2>7, <2>8, <3>1, FS_RemoveElement
      <4> QED
        BY <2>6, <3>1, <4>1 DEF Depth
    <3>2. CASE s[k].n # Bottom
      <4>1. BodiesIn(r) = BodiesIn(s)
        BY <2>6, <2>7, <3>2
      <4> QED
        BY <2>8, <3>2, <4>1 DEF Depth
    <3> QED
      BY <3>1, <3>2
  <2>10. Before(r) = 0
    BY <1>1, <1>5, <2>2, <2>4 DEF Before
  <2>11. ASSUME BodiesIn(r) = {} PROVE r[Len(r)].out = o
    <3>1. k - 1 \notin BodiesIn(r)
      BY <2>11
    <3> QED
      BY <1>1, <1>5, <2>2, <2>4, <3>1 DEF BodiesIn
  <2>12. r # <<>>
    BY <1>1, <1>5, <2>4
  <2> QED
    BY <2>5, <2>9, <2>10, <2>11, <2>12
<1> QED
  BY <1>3, <1>4, <1>5

LEMMA CallInvAfter ==
    ASSUME NEW t \in CallThreads, scene' = scene, NEW s, frames'[t] = s,
           CallSound(s, calls'[t], asked'[t], run'[t], want'[t], got'[t])
    PROVE  CallInv(t)'
<1>1. WrapFrame' = WrapFrame /\ Bottom' = Bottom
  BY DEF WrapFrame, Bottom, Outcomes
<1>2. /\ Stacked(s)' <=> Stacked(s)
      /\ BodiesIn(s)' = BodiesIn(s)
  BY <1>1 DEF Stacked, BodiesIn
<1> QED
  BY <1>2 DEF CallInv, CallSound, Depth, Before, Stacked, BodiesIn, WrapFrame, Bottom, Outcomes

LEMMA TopFacts ==
    ASSUME NEW t \in CallThreads, CallInv(t), frames[t] # <<>>
    PROVE  /\ Top(t) \in WrapFrame /\ At(t) = Top(t).at
           /\ At(t) \in {"body", "called"} <=> Top(t).n = Bottom
           /\ At(t) \in {"prepare", "enter", "after", "leave", "body", "called"}
<1> DEFINE s == frames[t]
           k == Len(s)
<1>1. Stacked(s) /\ s # <<>>
  BY DEF CallInv, CallSound
<1>2. k \in 1..k /\ s \in Seq(WrapFrame)
  BY <1>1 DEF Stacked
<1>3. /\ s[k] \in WrapFrame
      /\ s[k].at \in {"body", "calling", "called"} <=> s[k].n = Bottom
      /\ ~(s[k].at \in {"through", "below", "calling"})
  BY <1>1, <1>2 DEF Stacked
<1>4. At(t) = Top(t).at /\ Top(t) = s[k]
  BY DEF At, Top
<1> HIDE DEF k, s
<1> QED
  BY <1>3, <1>4 DEF WrapFrame

\* The innermost frame goes on as f: it has the outcome it had, or an observation raised.
LEMMA GoesOn ==
    ASSUME WrapTypes, NEW t \in CallThreads, CallInv(t), frames[t] # <<>>, NEW f \in WrapFrame,
           f.n = Top(t).n, f.n # Bottom, f.at \in {"prepare", "enter", "after", "leave"},
           \/ f.at \in {"prepare", "enter"} /\ At(t) \in {"prepare", "enter"}
           \/ f.at \in {"after", "leave"} /\ At(t) \in {"after", "leave"} /\ f.out = Top(t).out
           \/ f.at \in {"after", "leave"} /\ scene.broken /\ f.out = "exc"
    PROVE  CallSound(OnAs(frames[t], f), calls[t], asked[t], run[t], want[t], got[t])
<1> DEFINE s == frames[t]
           r == OnAs(s, f)
<1>1. Stacked(s) /\ s \in Seq(WrapFrame)
  BY DEF CallInv, CallSound, Stacked
<1>2. /\ Stacked(r) /\ r # <<>> /\ r[Len(r)] = f /\ BodiesIn(r) = BodiesIn(s)
  BY <1>1, GoOn DEF Top
<1>3. Depth(r) = Depth(s) /\ Depth(s) \in Nat
  BY <1>1, <1>2, BodiesFinite DEF Depth
<1>4. Before(r) = IF f.at \in {"prepare", "enter"} THEN 1 ELSE 0
  BY <1>2 DEF Before
<1>5. Before(s) = IF At(t) \in {"prepare", "enter"} THEN 1 ELSE 0
  BY DEF Before, At, Top
<1>6. run[t] \in Nat /\ asked[t] \in Nat /\ scene.broken \in BOOLEAN
  BY SceneFacts DEF WrapTypes
<1>7. /\ run[t] + Depth(r) + Before(r) <= asked[t]
      /\ ~scene.broken => run[t] + Depth(r) + Before(r) = asked[t]
  <2> HIDE DEF s, r
  <2>1. /\ run[t] + Depth(s) + Before(s) <= asked[t]
        /\ ~scene.broken => run[t] + Depth(s) + Before(s) = asked[t]
    BY DEF CallInv, CallSound, s
  <2>2. /\ Before(r) \in {0, 1} /\ Before(s) \in {0, 1} /\ Before(r) <= Before(s)
        /\ ~scene.broken => Before(r) = Before(s)
    BY <1>4, <1>5
  <2> QED
    BY <1>3, <1>6, <2>1, <2>2
<1>8. BodiesIn(r) = {} /\ Before(r) = 0 => f.out = want[t] \/ (scene.broken /\ f.out = "exc")
  BY <1>2, <1>4, <1>5 DEF CallInv, CallSound, At, Top
<1> QED
  BY <1>2, <1>7, <1>8 DEF CallSound

LEMMA SameSums ==
    ASSUME NEW a \in Nat, NEW b \in Nat, NEW c \in Nat, NEW d \in Nat, NEW e \in Nat, b + c = d + e
    PROVE  a + b + c = a + d + e
  OBVIOUS

\* It calls on from where the function was not reached yet.
LEMMA GoesDown ==
    ASSUME WrapTypes, NEW t \in CallThreads, CallInv(t), frames[t] # <<>>, NEW f \in WrapFrame,
           f.n = Top(t).n, f.n # Bottom, At(t) \in {"prepare", "enter"},
           f.at \in {"through", "below"}, NEW n \in 1..Bottom
    PROVE  CallSound(CallsOn(frames[t], f, n), calls[t], asked[t], run[t], want[t], got[t])
<1> DEFINE s == frames[t]
           r == CallsOn(s, f, n)
<1>1. Stacked(s) /\ s \in Seq(WrapFrame)
  BY DEF CallInv, CallSound, Stacked
<1>2. /\ Stacked(r) /\ r # <<>> /\ Depth(r) + Before(r) = Depth(s) + 1
      /\ BodiesIn(r) = {} => Before(r) = 1
  BY <1>1, CallOn, SceneFacts DEF Top
<1>3. Before(s) = 1
  BY DEF Before, At, Top
<1>4. /\ run[t] \in Nat /\ asked[t] \in Nat /\ scene.broken \in BOOLEAN
      /\ Depth(s) \in Nat /\ Depth(r) \in Nat /\ Before(r) \in Nat
  BY <1>1, <1>2, BodiesFinite, SceneFacts DEF WrapTypes, Stacked, Before
<1>5. /\ run[t] + Depth(r) + Before(r) <= asked[t]
      /\ ~scene.broken => run[t] + Depth(r) + Before(r) = asked[t]
  <2> HIDE DEF s, r
  <2>1. /\ run[t] + Depth(s) + Before(s) <= asked[t]
        /\ ~scene.broken => run[t] + Depth(s) + Before(s) = asked[t]
    BY DEF CallInv, CallSound, s
  <2>2. Depth(r) + Before(r) = Depth(s) + Before(s) /\ Before(s) \in Nat
    BY <1>2, <1>3
  <2>3. run[t] + Depth(r) + Before(r) = run[t] + Depth(s) + Before(s)
    BY <1>3, <1>4, <2>2, SameSums, SMTT(30)
  <2> QED
    BY <2>1, <2>3
<1> QED
  BY <1>2, <1>5 DEF CallSound

\* The body calls the function again.
LEMMA GoesDeeper ==
    ASSUME WrapTypes, NEW t \in CallThreads, CallInv(t), frames[t] # <<>>, At(t) = "body",
           NEW n \in 1..Bottom
    PROVE  CallSound(CallsOn(frames[t], [Top(t) EXCEPT !.at = "calling"], n),
                     calls[t], asked[t] + 1, run[t], want[t], got[t])
<1> DEFINE s == frames[t]
           f == [Top(t) EXCEPT !.at = "calling"]
           r == CallsOn(s, f, n)
<1>1. Stacked(s) /\ s \in Seq(WrapFrame)
  BY DEF CallInv, CallSound, Stacked
<1>2. f \in WrapFrame /\ f.at = "calling" /\ f.n = Top(t).n /\ f.n = Bottom
  BY TopFacts DEF WrapFrame
<1>3. /\ Stacked(r) /\ r # <<>> /\ Depth(r) + Before(r) = Depth(s) + 1
      /\ BodiesIn(r) = {} => Before(r) = 1
  <2> HIDE DEF f
  <2> QED
    BY <1>1, <1>2, CallOn, SceneFacts, ZenonT(30) DEF Top
<1>4. Before(s) = 0
  BY DEF Before, At, Top
<1>5. /\ run[t] \in Nat /\ asked[t] \in Nat /\ scene.broken \in BOOLEAN
      /\ Depth(s) \in Nat /\ Depth(r) \in Nat /\ Before(r) \in Nat
  BY <1>1, <1>3, BodiesFinite, SceneFacts DEF WrapTypes, Stacked, Before
<1>6. /\ run[t] + Depth(r) + Before(r) <= asked[t] + 1
      /\ ~scene.broken => run[t] + Depth(r) + Before(r) = asked[t] + 1
  <2> HIDE DEF s, r
  <2>1. /\ run[t] + Depth(s) + Before(s) <= asked[t]
        /\ ~scene.broken => run[t] + Depth(s) + Before(s) = asked[t]
    BY DEF CallInv, CallSound, s
  <2> QED
    BY <1>3, <1>4, <1>5, <2>1, SMTT(20)
<1> QED
  BY <1>3, <1>6 DEF CallSound

\* A call begins.
LEMMA Begins ==
    ASSUME WrapTypes, NEW n \in 1..Bottom, NEW made, NEW gotOf
    PROVE  CallSound(<<NewFrame(n)>>, made, 1, 0, "none", gotOf)
<1> DEFINE f == NewFrame(n)
           s == <<f>>
<1>1. f \in WrapFrame /\ f.n = n /\ f.at = (IF n = Bottom THEN "body" ELSE "prepare")
  BY DEF NewFrame, WrapFrame, Outcomes
<1> HIDE DEF f
<1>2. s \in Seq(WrapFrame) /\ Len(s) = 1 /\ s[1] = f /\ s # <<>>
  BY <1>1
<1> HIDE DEF s
<1>3. Stacked(s)
  BY <1>1, <1>2 DEF Stacked
<1>4. BodiesIn(s) = IF n = Bottom THEN {1} ELSE {}
  BY <1>1, <1>2 DEF BodiesIn
<1>5. Depth(s) = (IF n = Bottom THEN 1 ELSE 0)
  BY <1>4, FS_Singleton, FS_EmptySet DEF Depth
<1>6. Before(s) = IF n = Bottom THEN 0 ELSE 1
  BY <1>1, <1>2 DEF Before
<1>7. 0 + Depth(s) + Before(s) = 1
  BY <1>5, <1>6
<1> QED
  BY <1>2, <1>3, <1>4, <1>6, <1>7 DEF CallSound, s, f

LEMMA NoFrames == Stacked(<<>>) /\ Depth(<<>>) = 0 /\ Before(<<>>) = 0
<1>1. <<>> \in Seq(WrapFrame) /\ Len(<<>>) = 0
  OBVIOUS
<1>2. BodiesIn(<<>>) = {}
  BY <1>1 DEF BodiesIn
<1> QED
  BY <1>1, <1>2, FS_EmptySet DEF Stacked, Depth, Before

\* The frames after a return, and what the application saw.
AfterReturn(s, o) == IF Len(s) = 1 THEN <<>> ELSE Popped(s, o)

LEMMA LeavesSound ==
    ASSUME WrapTypes, NEW t \in CallThreads, CallInv(t), frames[t] # <<>>, At(t) = "leave", NEW gotOf,
           Len(frames[t]) = 1 => gotOf = Top(t).out
    PROVE  CallSound(AfterReturn(frames[t], Top(t).out), calls[t], asked[t], run[t], want[t], gotOf)
<1> DEFINE s == frames[t]
           o == Top(t).out
           r == AfterReturn(s, o)
<1>1. /\ Stacked(s) /\ s \in Seq(WrapFrame) /\ o \in Outcomes /\ Top(t).n # Bottom
  BY TopFacts DEF CallInv, CallSound, Stacked, WrapFrame
<1>2. Before(s) = 0 /\ Top(t) = s[Len(s)]
  BY DEF Before, At, Top
<1>3. /\ run[t] \in Nat /\ asked[t] \in Nat /\ scene.broken \in BOOLEAN /\ Depth(s) \in Nat
      /\ Depth(s) = 0 <=> BodiesIn(s) = {}
  BY <1>1, BodiesFinite, SceneFacts DEF WrapTypes
<1>4. /\ run[t] + Depth(s) + Before(s) <= asked[t]
      /\ ~scene.broken => run[t] + Depth(s) + Before(s) = asked[t]
      /\ Depth(s) = 0 => o = want[t] \/ (scene.broken /\ o = "exc")
  BY <1>2, <1>3 DEF CallInv, CallSound
<1>5. CASE Len(s) = 1
  <2>1. r = <<>> /\ Depth(s) = 0 /\ gotOf = o
    BY <1>1, <1>2, <1>5, PopOff DEF AfterReturn
  <2> QED
    BY <1>2, <1>3, <1>4, <2>1, NoFrames DEF CallSound
<1>6. CASE Len(s) # 1
  <2>1. r = Popped(s, o)
    BY <1>6 DEF AfterReturn
  <2>2. /\ Stacked(r) /\ r # <<>> /\ Depth(r) = Depth(s) /\ Before(r) = 0
        /\ BodiesIn(r) = {} => r[Len(r)].out = o
    BY <1>1, <1>2, <1>3, <1>6, <2>1, PopOff
  <2>3. BodiesIn(r) = {} => Depth(r) = 0
    BY <2>2, BodiesFinite DEF Stacked
  <2> HIDE DEF r, s, o
  <2>4. CallSound(r, calls[t], asked[t], run[t], want[t], gotOf)
    BY <1>2, <1>3, <1>4, <2>2, <2>3 DEF CallSound
  <2> QED
    BY <2>4 DEF r, s, o
<1> QED
  BY <1>5, <1>6

LEMMA EndsSound ==
    ASSUME WrapTypes, NEW t \in CallThreads, CallInv(t), frames[t] # <<>>, At(t) \in {"body", "called"},
           NEW o \in Outcomes, NEW gotOf, Len(frames[t]) = 1 => gotOf = o,
           NEW wantOf, Depth(frames[t]) = 1 => wantOf = o
    PROVE  CallSound(AfterReturn(frames[t], o), calls[t], asked[t], run[t] + 1, wantOf, gotOf)
<1> DEFINE s == frames[t]
           r == AfterReturn(s, o)
<1>1. /\ Stacked(s) /\ s \in Seq(WrapFrame) /\ Top(t).n = Bottom
  BY TopFacts DEF CallInv, CallSound, Stacked
<1>2. Before(s) = 0 /\ Top(t) = s[Len(s)]
  BY DEF Before, At, Top
<1>3. /\ run[t] \in Nat /\ asked[t] \in Nat /\ scene.broken \in BOOLEAN /\ Depth(s) \in Nat
      /\ Depth(s) = 0 <=> BodiesIn(s) = {}
  BY <1>1, BodiesFinite, SceneFacts DEF WrapTypes
<1>4. /\ run[t] + Depth(s) + Before(s) <= asked[t]
      /\ ~scene.broken => run[t] + Depth(s) + Before(s) = asked[t]
  BY DEF CallInv, CallSound
<1>5. CASE Len(s) = 1
  <2>1. r = <<>> /\ Depth(s) = 1 /\ gotOf = o
    BY <1>1, <1>2, <1>5, PopOff DEF AfterReturn
  <2> HIDE DEF r, s
  <2>2. wantOf = o
    BY <2>1 DEF s
  <2>3. CallSound(r, calls[t], asked[t], run[t] + 1, wantOf, gotOf)
    BY <1>2, <1>3, <1>4, <2>1, <2>2, NoFrames DEF CallSound
  <2> QED
    BY <2>3 DEF r, s
<1>6. CASE Len(s) # 1
  <2>1. r = Popped(s, o)
    BY <1>6 DEF AfterReturn
  <2>2. /\ Stacked(r) /\ r # <<>> /\ Depth(r) = Depth(s) - 1 /\ Before(r) = 0
        /\ BodiesIn(r) = {} => r[Len(r)].out = o
    BY <1>1, <1>2, <1>6, <2>1, PopOff
  <2>3. BodiesIn(r) = {} => Depth(r) = 0
    BY <2>2, BodiesFinite DEF Stacked
  <2> HIDE DEF r, s
  <2>4. BodiesIn(r) = {} => wantOf = o
    BY <1>3, <2>2, <2>3 DEF s
  <2>5. /\ (run[t] + 1) + Depth(r) + Before(r) <= asked[t]
        /\ ~scene.broken => (run[t] + 1) + Depth(r) + Before(r) = asked[t]
    BY <1>2, <1>3, <1>4, <2>2
  <2>6. CallSound(r, calls[t], asked[t], run[t] + 1, wantOf, gotOf)
    BY <2>2, <2>4, <2>5 DEF CallSound
  <2> QED
    BY <2>6 DEF r, s
<1> QED
  BY <1>5, <1>6

LEMMA ReturnIs ==
    ASSUME WrapTypes, NEW t \in CallThreads, CallInv(t), frames[t] # <<>>, NEW o \in Outcomes, Return(t, o)
    PROVE  /\ frames' = [frames EXCEPT ![t] = AfterReturn(frames[t], o)]
           /\ Len(frames[t]) = 1 => got'[t] = o
           /\ got' \in [CallThreads -> Outcomes]
           /\ \A u \in CallThreads \ {t} : got'[u] = got[u]
<1> DEFINE s == frames[t]
           k == Len(s)
           rest == SubSeq(s, 1, k - 1)
<1>1. Stacked(s) /\ s \in Seq(WrapFrame) /\ k \in Nat /\ k # 0
  BY DEF CallInv, CallSound, Stacked
<1>2. /\ Len(rest) = k - 1 /\ \A i \in 1..(k - 1) : rest[i] = s[i]
      /\ rest = <<>> <=> k = 1
  BY <1>1, FrontFacts, PopOff
<1>3. CASE k = 1
  BY <1>2, <1>3 DEF Return, AfterReturn, WrapTypes
<1>4. CASE k # 1
  <2>1. k - 1 \in 1..(k - 1)
    <3> HIDE DEF k
    <3> QED
      BY <1>1, <1>4
  <2>2. rest[Len(rest)] = s[k - 1]
    BY <1>2, <2>1
  <2>3. /\ frames' = [frames EXCEPT ![t] = [rest EXCEPT ![Len(rest)] = Resumed(rest[Len(rest)], o)]]
        /\ got' = got
    BY <1>2, <1>4 DEF Return
  <2> QED
    BY <1>2, <1>4, <2>2, <2>3 DEF AfterReturn, Popped, WrapTypes
<1> QED
  BY <1>3, <1>4

\* A step of one thread leaves the calls of the others alone.
LEMMA OtherCalls ==
    ASSUME WrapInv, NEW t \in CallThreads, scene' = scene,
           \A u \in CallThreads \ {t} :
              /\ frames'[u] = frames[u] /\ calls'[u] = calls[u] /\ asked'[u] = asked[u]
              /\ run'[u] = run[u] /\ want'[u] = want[u] /\ got'[u] = got[u],
           CallSound(frames'[t], calls'[t], asked'[t], run'[t], want'[t], got'[t])
    PROVE  \A u \in CallThreads : CallInv(u)'
<1> SUFFICES ASSUME NEW u \in CallThreads PROVE CallInv(u)'
  OBVIOUS
<1>1. CASE u = t
  BY <1>1, CallInvAfter
<1>2. CASE u # t
  <2>1. CallSound(frames'[u], calls'[u], asked'[u], run'[u], want'[u], got'[u])
    BY <1>2 DEF WrapInv, CallInv
  <2> QED
    BY <2>1, CallInvAfter
<1> QED
  BY <1>1, <1>2

\* What a step within the wrappers leaves alone.
Within == UNCHANGED <<scene, calls, asked, run, want>>

LEMMA StepInWrappers ==
    ASSUME WrapInv, NEW t \in CallThreads, NEW s, frames' = [frames EXCEPT ![t] = s], Within, got' = got,
           registered' = registered, lock' \in CallThreads \cup {Free},
           CallSound(s, calls[t], asked[t], run[t], want[t], got[t])
    PROVE  WrapInv'
<1>1. DOMAIN frames = CallThreads /\ frames'[t] = s /\ \A u \in CallThreads \ {t} : frames'[u] = frames[u]
  BY DEF WrapInv, WrapTypes
<1>2. WrapTypes'
  BY DEF WrapInv, WrapTypes, Within, Outcomes
<1>3. CallSound(frames'[t], calls'[t], asked'[t], run'[t], want'[t], got'[t])
  BY <1>1 DEF Within
<1>4. \A u \in CallThreads : CallInv(u)'
  BY <1>1, <1>3, OtherCalls DEF Within
<1> QED
  BY <1>2, <1>4 DEF WrapInv

LEMMA WrapStep == WrapInv /\ [CallNext]_callVars => WrapInv'
<1> SUFFICES ASSUME WrapInv, [CallNext]_callVars PROVE WrapInv'
  OBVIOUS
<1>0. WrapTypes /\ \A t \in CallThreads : CallInv(t)
  BY DEF WrapInv
<1>1. ASSUME NEW t \in CallThreads, At(t) # "idle" PROVE frames[t] # <<>>
  BY <1>1 DEF At
<1>2. ASSUME NEW t \in CallThreads, frames[t] # <<>>, At(t) \in {"prepare", "enter", "after", "leave"}
      PROVE  /\ Top(t) \in WrapFrame /\ Top(t).n # Bottom /\ Top(t).n + 1 \in 1..Bottom /\ At(t) = Top(t).at
  <2>1. Top(t) \in WrapFrame /\ Top(t).n # Bottom /\ At(t) = Top(t).at
    BY <1>0, <1>2, TopFacts
  <2> QED
    BY <1>0, <2>1, SceneFacts DEF WrapFrame
\* The function is called on from t's wrapper, or the wrapper goes on.
<1>3. ASSUME NEW t \in CallThreads, frames[t] # <<>>, At(t) \in {"prepare", "enter"}, NEW f \in WrapFrame,
             f.n = Top(t).n, f.at \in {"through", "below"}, Descend(t, f, Top(t).n + 1),
             Within, got' = got, registered' = registered, lock' \in CallThreads \cup {Free}
      PROVE  WrapInv'
  <2>1. CallSound(CallsOn(frames[t], f, Top(t).n + 1), calls[t], asked[t], run[t], want[t], got[t])
    BY <1>0, <1>2, <1>3, GoesDown
  <2>2. frames' = [frames EXCEPT ![t] = CallsOn(frames[t], f, Top(t).n + 1)]
    BY <1>3 DEF Descend, CallsOn, OnAs, Replaced
  <2> QED
    BY <1>3, <2>1, <2>2, StepInWrappers
<1>4. ASSUME NEW t \in CallThreads, frames[t] # <<>>, NEW f \in WrapFrame, f.n = Top(t).n, Top(t).n # Bottom,
             f.at \in {"prepare", "enter", "after", "leave"}, Become(t, f),
             \/ f.at \in {"prepare", "enter"} /\ At(t) \in {"prepare", "enter"}
             \/ f.at \in {"after", "leave"} /\ At(t) \in {"after", "leave"} /\ f.out = Top(t).out
             \/ f.at \in {"after", "leave"} /\ scene.broken /\ f.out = "exc",
             Within, got' = got, registered' = registered, lock' \in CallThreads \cup {Free}
      PROVE  WrapInv'
  <2>1. CallSound(OnAs(frames[t], f), calls[t], asked[t], run[t], want[t], got[t])
    BY <1>0, <1>4, GoesOn
  <2>2. frames' = [frames EXCEPT ![t] = OnAs(frames[t], f)]
    BY <1>4 DEF Become, OnAs, Replaced
  <2> QED
    BY <1>4, <2>1, <2>2, StepInWrappers
<1>5. ASSUME NEW t \in CallThreads, PrepareWatch(t) PROVE WrapInv'
  <2> DEFINE f == Top(t)
  <2>1. frames[t] # <<>> /\ At(t) = "prepare"
    BY <1>1, <1>5 DEF PrepareWatch
  <2>2. f \in WrapFrame /\ f.n # Bottom
    BY <1>2, <2>1
  <2>3. Within /\ got' = got /\ registered' = registered /\ lock' \in CallThreads \cup {Free}
    BY <1>0, <1>5 DEF PrepareWatch, tally, Within, WrapTypes
  <2>4. \/ Descend(t, [f EXCEPT !.at = "through"], f.n + 1)
        \/ Become(t, [f EXCEPT !.at = "enter"])
        \/ Descend(t, [f EXCEPT !.at = "below"], f.n + 1)
    BY <1>5 DEF PrepareWatch
  <2>5. \A x \in {"through", "below", "enter"} :
            [f EXCEPT !.at = x] \in WrapFrame /\ [f EXCEPT !.at = x].n = f.n /\ [f EXCEPT !.at = x].at = x
    BY <2>2 DEF WrapFrame
  <2> HIDE DEF f
  <2>6. CASE Descend(t, [f EXCEPT !.at = "through"], f.n + 1)
    BY <1>3, <2>1, <2>3, <2>5, <2>6 DEF f
  <2>7. CASE Become(t, [f EXCEPT !.at = "enter"])
    BY <1>4, <2>1, <2>2, <2>3, <2>5, <2>7 DEF f
  <2>8. CASE Descend(t, [f EXCEPT !.at = "below"], f.n + 1)
    BY <1>3, <2>1, <2>3, <2>5, <2>8 DEF f
  <2> QED
    BY <2>4, <2>6, <2>7, <2>8
<1>6. ASSUME NEW t \in CallThreads, TracePassesThrough(t) \/ BeginTrace(t) PROVE WrapInv'
  <2>1. frames[t] # <<>> /\ At(t) = "prepare"
    BY <1>1, <1>6 DEF TracePassesThrough, BeginTrace
  <2>2. Top(t) \in WrapFrame
    BY <1>2, <2>1
  <2>3. Within /\ got' = got /\ registered' = registered /\ lock' \in CallThreads \cup {Free}
    BY <1>0, <1>6 DEF TracePassesThrough, BeginTrace, tally, Within, WrapTypes
  <2>4. PICK f \in {[Top(t) EXCEPT !.at = "through", !.holds = TRUE], [Top(t) EXCEPT !.at = "below"]} :
           Descend(t, f, Top(t).n + 1)
    BY <1>6 DEF TracePassesThrough, BeginTrace
  <2>5. f \in WrapFrame /\ f.n = Top(t).n /\ f.at \in {"through", "below"}
    BY <2>2, <2>4 DEF WrapFrame
  <2> QED
    BY <1>3, <2>1, <2>3, <2>4, <2>5
<1>7. ASSUME NEW t \in CallThreads, SkipWatch(t) \/ SkipTrace(t) PROVE WrapInv'
  <2>1. frames[t] # <<>> /\ At(t) \in {"enter", "after"}
    BY <1>1, <1>7 DEF SkipWatch, SkipTrace
  <2>2. Top(t) \in WrapFrame /\ Top(t).n # Bottom
    BY <1>2, <2>1
  <2>3. Within /\ got' = got /\ registered' = registered /\ lock' \in CallThreads \cup {Free}
    BY <1>0, <1>7 DEF SkipWatch, SkipTrace, tally, Within, WrapTypes
  <2>4. \/ At(t) = "enter" /\ Descend(t, [Top(t) EXCEPT !.at = "below"], Top(t).n + 1)
        \/ At(t) = "after" /\ Become(t, [Top(t) EXCEPT !.at = "leave"])
    BY <1>7 DEF SkipWatch, SkipTrace
  <2>5. \A x \in {"below", "leave"} :
            /\ [Top(t) EXCEPT !.at = x] \in WrapFrame /\ [Top(t) EXCEPT !.at = x].n = Top(t).n
            /\ [Top(t) EXCEPT !.at = x].at = x /\ [Top(t) EXCEPT !.at = x].out = Top(t).out
    BY <2>2 DEF WrapFrame
  <2>6. CASE At(t) = "enter" /\ Descend(t, [Top(t) EXCEPT !.at = "below"], Top(t).n + 1)
    BY <1>3, <2>1, <2>3, <2>5, <2>6
  <2>7. CASE At(t) = "after" /\ Become(t, [Top(t) EXCEPT !.at = "leave"])
    BY <1>4, <2>1, <2>2, <2>3, <2>5, <2>7
  <2> QED
    BY <2>4, <2>6, <2>7
<1>8. ASSUME NEW t \in CallThreads, ObserveWatch(t) \/ ObserveTrace(t) PROVE WrapInv'
  <2>1. frames[t] # <<>> /\ At(t) \in {"enter", "after"}
    BY <1>1, <1>8 DEF ObserveWatch, ObserveTrace
  <2>2. Top(t) \in WrapFrame /\ Top(t).n # Bottom /\ At(t) = Top(t).at
    BY <1>2, <2>1
  <2>3. Within /\ got' = got /\ registered' = registered /\ lock' \in CallThreads \cup {Free}
    BY <1>0, <1>8 DEF ObserveWatch, ObserveTrace, tally, Within, WrapTypes
  <2>4. \/ At(t) = "enter" /\ Descend(t, [Top(t) EXCEPT !.at = "below"], Top(t).n + 1)
        \/ At(t) = "after" /\ scene.broken /\ Become(t, [Top(t) EXCEPT !.out = "exc"])
        \/ At(t) = "after" /\ Become(t, [Top(t) EXCEPT !.at = "leave"])
        \/ At(t) = "enter" /\ scene.broken /\ Become(t, [Top(t) EXCEPT !.at = "leave", !.out = "exc"])
    BY <1>8, <2>2 DEF ObserveWatch, ObserveTrace, Raises
  <2>5. \A x \in {"below", "leave"} :
            /\ [Top(t) EXCEPT !.at = x] \in WrapFrame /\ [Top(t) EXCEPT !.at = x].n = Top(t).n
            /\ [Top(t) EXCEPT !.at = x].at = x /\ [Top(t) EXCEPT !.at = x].out = Top(t).out
    BY <2>2 DEF WrapFrame
  <2>6. \A f \in {[Top(t) EXCEPT !.out = "exc"], [Top(t) EXCEPT !.at = "leave", !.out = "exc"]} :
            /\ f \in WrapFrame /\ f.n = Top(t).n /\ f.out = "exc"
            /\ f.at \in {Top(t).at, "leave"}
    BY <2>2 DEF WrapFrame, Outcomes
  <2>7. CASE At(t) = "enter" /\ Descend(t, [Top(t) EXCEPT !.at = "below"], Top(t).n + 1)
    BY <1>3, <2>1, <2>3, <2>5, <2>7
  <2>8. CASE At(t) = "after" /\ Become(t, [Top(t) EXCEPT !.at = "leave"])
    BY <1>4, <2>1, <2>2, <2>3, <2>5, <2>8
  <2>9. CASE At(t) = "after" /\ scene.broken /\ Become(t, [Top(t) EXCEPT !.out = "exc"])
    BY <1>4, <2>1, <2>2, <2>3, <2>6, <2>9
  <2>10. CASE At(t) = "enter" /\ scene.broken /\ Become(t, [Top(t) EXCEPT !.at = "leave", !.out = "exc"])
    <3> DEFINE f == [Top(t) EXCEPT !.at = "leave", !.out = "exc"]
    <3>1. f \in WrapFrame /\ f.n = Top(t).n /\ f.out = "exc" /\ f.at = "leave" /\ Become(t, f)
      BY <2>2, <2>10 DEF WrapFrame, Outcomes
    <3> HIDE DEF f
    <3> QED
      BY <1>4, <2>1, <2>2, <2>3, <2>10, <3>1
  <2> QED
    BY <2>4, <2>7, <2>8, <2>9, <2>10
<1>9. ASSUME NEW t \in CallThreads, Leave(t) PROVE WrapInv'
  <2> DEFINE s == AfterReturn(frames[t], Top(t).out)
  <2>1. frames[t] # <<>> /\ At(t) = "leave" /\ Return(t, Top(t).out)
    BY <1>1, <1>9 DEF Leave
  <2>2. Top(t).out \in Outcomes
    BY <1>2, <2>1 DEF WrapFrame
  <2>3. /\ frames' = [frames EXCEPT ![t] = s] /\ got' \in [CallThreads -> Outcomes]
        /\ Len(frames[t]) = 1 => got'[t] = Top(t).out
        /\ \A u \in CallThreads \ {t} : got'[u] = got[u]
    BY <1>0, <2>1, <2>2, ReturnIs
  <2>4. CallSound(s, calls[t], asked[t], run[t], want[t], got'[t])
    BY <1>0, <2>1, <2>3, LeavesSound
  <2>5. Within /\ registered' = registered /\ lock' \in CallThreads \cup {Free}
    BY <1>0, <1>9 DEF Leave, LockAfter, Within, WrapTypes
  <2> HIDE DEF s
  <2>6. WrapTypes'
    BY <1>0, <2>3, <2>5 DEF WrapTypes, Within, Outcomes
  <2>7. /\ CallSound(frames'[t], calls'[t], asked'[t], run'[t], want'[t], got'[t])
        /\ \A u \in CallThreads \ {t} : frames'[u] = frames[u]
    BY <1>0, <2>3, <2>4, <2>5 DEF WrapTypes, Within
  <2> QED
    BY <2>3, <2>5, <2>6, <2>7, OtherCalls DEF WrapInv, Within
<1>10. ASSUME NEW t \in CallThreads, NEW o \in {"ok", "exc", "exit"}, BodyEnds(t, o) PROVE WrapInv'
  <2> DEFINE s == AfterReturn(frames[t], o)
  <2>1. frames[t] # <<>> /\ At(t) \in {"body", "called"} /\ Return(t, o) /\ o \in Outcomes
    BY <1>1, <1>10 DEF BodyEnds, Outcomes
  <2>2. /\ frames' = [frames EXCEPT ![t] = s] /\ got' \in [CallThreads -> Outcomes]
        /\ Len(frames[t]) = 1 => got'[t] = o
        /\ \A u \in CallThreads \ {t} : got'[u] = got[u]
    BY <1>0, <2>1, ReturnIs
  <2>3. Bodies(t) = BodiesIn(frames[t])
    BY <1>0, SeqFacts DEF Bodies, BodiesIn, CallInv, CallSound, Stacked
  <2>4. /\ Depth(frames[t]) = 1 => want'[t] = o
        /\ want' \in [CallThreads -> Outcomes] /\ \A u \in CallThreads \ {t} : want'[u] = want[u]
        /\ run' = [run EXCEPT ![t] = @ + 1]
        /\ UNCHANGED <<scene, registered, count, lock, calls, asked>>
    BY <1>0, <1>10, <2>1, <2>3 DEF BodyEnds, Depth, WrapTypes
  <2>5. CallSound(s, calls[t], asked[t], run[t] + 1, want'[t], got'[t])
    BY <1>0, <2>1, <2>2, <2>4, EndsSound
  <2> HIDE DEF s
  <2>6. WrapTypes'
    BY <1>0, <2>2, <2>4 DEF WrapTypes, Outcomes
  <2>7. /\ CallSound(frames'[t], calls'[t], asked'[t], run'[t], want'[t], got'[t])
        /\ \A u \in CallThreads \ {t} : frames'[u] = frames[u] /\ run'[u] = run[u]
    BY <1>0, <2>2, <2>4, <2>5 DEF WrapTypes
  <2> QED
    BY <2>2, <2>4, <2>6, <2>7, OtherCalls DEF WrapInv
<1>11. ASSUME NEW t \in CallThreads, BodyRecurses(t) PROVE WrapInv'
  <2> DEFINE s == CallsOn(frames[t], [Top(t) EXCEPT !.at = "calling"], Slot)
  <2>1. frames[t] # <<>> /\ At(t) = "body" /\ Slot \in 1..Bottom
    BY <1>0, <1>1, <1>11, SlotFacts DEF BodyRecurses
  <2>2. CallSound(s, calls[t], asked[t] + 1, run[t], want[t], got[t])
    BY <1>0, <2>1, GoesDeeper
  <2>3. frames' = [frames EXCEPT ![t] = s]
    BY <1>11 DEF BodyRecurses, Descend, CallsOn, OnAs, Replaced
  <2>4. /\ UNCHANGED <<scene, registered, count, lock, calls, run, want, got>>
        /\ asked' = [asked EXCEPT ![t] = @ + 1]
    BY <1>11 DEF BodyRecurses
  <2> HIDE DEF s
  <2>5. WrapTypes'
    BY <1>0, <2>3, <2>4 DEF WrapTypes, Outcomes
  <2>6. /\ CallSound(frames'[t], calls'[t], asked'[t], run'[t], want'[t], got'[t])
        /\ \A u \in CallThreads \ {t} : frames'[u] = frames[u] /\ asked'[u] = asked[u]
    BY <1>0, <2>2, <2>3, <2>4 DEF WrapTypes
  <2> QED
    BY <2>4, <2>5, <2>6, OtherCalls DEF WrapInv
<1>12. ASSUME NEW t \in CallThreads, Call(t) PROVE WrapInv'
  <2> DEFINE s == <<NewFrame(Slot)>>
  <2>1. CallSound(s, calls[t] + 1, 1, 0, "none", got[t])
    BY <1>0, SlotFacts, Begins
  <2>2. /\ UNCHANGED <<scene, registered, count, lock, got>>
        /\ frames' = [frames EXCEPT ![t] = s]
        /\ calls' = [calls EXCEPT ![t] = @ + 1]
        /\ asked' = [asked EXCEPT ![t] = 1] /\ run' = [run EXCEPT ![t] = 0]
        /\ want' = [want EXCEPT ![t] = "none"]
    BY <1>12 DEF Call
  <2> HIDE DEF s
  <2>3. WrapTypes'
    BY <1>0, <2>2 DEF WrapTypes, Outcomes
  <2>4. /\ CallSound(frames'[t], calls'[t], asked'[t], run'[t], want'[t], got'[t])
        /\ \A u \in CallThreads \ {t} :
              /\ frames'[u] = frames[u] /\ calls'[u] = calls[u] /\ asked'[u] = asked[u]
              /\ run'[u] = run[u] /\ want'[u] = want[u] /\ got'[u] = got[u]
    BY <1>0, <2>1, <2>2 DEF WrapTypes
  <2> QED
    BY <2>2, <2>3, <2>4, OtherCalls DEF WrapInv
<1>13. ASSUME UNCHANGED <<scene, frames, calls, tally>>, registered' \subseteq registered,
              lock' \in CallThreads \cup {Free}
       PROVE  WrapInv'
  <2>1. WrapTypes'
    BY <1>0, <1>13 DEF WrapTypes, tally, Outcomes
  <2>2. ASSUME NEW u \in CallThreads PROVE CallInv(u)'
    <3>1. CallSound(frames'[u], calls'[u], asked'[u], run'[u], want'[u], got'[u])
      BY <1>0, <1>13 DEF CallInv, tally
    <3> QED
      BY <1>13, <3>1, CallInvAfter
  <2> QED
    BY <2>1, <2>2 DEF WrapInv
<1>14. ASSUME NEW n \in DOMAIN scene.chain, RemoveProbe(n) PROVE WrapInv'
  BY <1>0, <1>13, <1>14 DEF RemoveProbe, WrapTypes
<1>15. CASE UNCHANGED callVars
  BY <1>0, <1>13, <1>15 DEF callVars, tally, WrapTypes
<1> QED
  BY <1>5, <1>6, <1>7, <1>8, <1>9, <1>10, <1>11, <1>12, <1>14, <1>15 DEF CallNext, StepOfCall

\* However many wrappers a call passes, and whatever they do, the body runs once for every
\* call and the application sees its outcome; if an observation may raise, that or the
\* observation's exception, and the body runs at most once.
THEOREM CallsAreTransparent == CallSpec => []Transparent
<1>1. CallInit => WrapInv
  <2> SUFFICES ASSUME CallInit PROVE WrapInv
    OBVIOUS
  <2>1. WrapTypes
    BY DEF CallInit, WrapTypes, Outcomes
  <2>2. ASSUME NEW t \in CallThreads PROVE CallInv(t)
    BY NoFrames DEF CallInit, CallInv, CallSound
  <2> QED
    BY <2>1, <2>2 DEF WrapInv
<1>2. WrapInv => Transparent
  <2> SUFFICES ASSUME WrapInv, NEW t \in CallThreads, At(t) = "idle", calls[t] > 0
               PROVE  \/ run[t] = asked[t] /\ got[t] = want[t]
                      \/ scene.broken /\ run[t] <= asked[t] /\ got[t] \in {want[t], "exc"}
    BY DEF Transparent
  <2>1. frames[t] = <<>>
    BY TopFacts DEF WrapInv, At
  <2>2. run[t] \in Nat /\ asked[t] \in Nat
    BY DEF WrapInv, WrapTypes
  <2> QED
    BY <2>1, <2>2, NoFrames DEF WrapInv, CallInv, CallSound
<1> QED
  BY <1>1, <1>2, WrapStep, PTL DEF CallSpec

-----------------------------------------------------------------------------
(* Observations of the calls in progress *)

Twice(n) == IF Raises(n) THEN 1 ELSE 0

\* The observations a frame may still count.
Remaining(f) == IF f.at = "enter" THEN PerCall(f.n)
                ELSE IF f.at = "below" THEN 1 + Twice(f.n)
                ELSE IF f.at = "after" THEN 1 + (IF f.out = "ok" THEN Twice(f.n) ELSE 0)
                ELSE 0

\* How many bodies a frame is in.
UpTo(s, i) == {b \in 1..i : s[b].n = Bottom}
Level(s, i) == Cardinality(UpTo(s, i))

\* Below a wrapper is the next one or the body, and a body calls the function only
\* scene.depth deep; before the call only the probes are at it that observe then.
Climbs(s) ==
    /\ \A i \in 1..Len(s) - 1 : s[i].n # Bottom => s[i + 1].n = s[i].n + 1
    /\ \A i \in 1..Len(s) : s[i].n # Bottom => Level(s, i) < scene.depth
    /\ \A i \in 1..Len(s) : s[i].at = "enter" => Probe(s[i].n).before

\* The observations of n that are due: by how deep the call is, and counted down.
Grid(n) == (0..scene.depth - 1) \X (1..PerCall(n))
Due(s, n) == {x \in Grid(n) : \E i \in 1..Len(s) :
                 s[i].n = n /\ Level(s, i) = x[1] /\ x[2] <= Remaining(s[i])}
AllDue(n) == {x \in CallThreads \X Grid(n) : x[2] \in Due(frames[x[1]], n)}

Allowed(n) == Probe(n).limit - 1 + PerCall(n) * scene.depth * Cardinality(CallThreads)

CountWithin(n) == Probe(n).limit > 0 => count[n] + Cardinality(AllDue(n)) <= Allowed(n)

CountInv ==
    /\ count \in [DOMAIN scene.chain -> Nat]
    /\ \A t \in CallThreads : Climbs(frames[t])
    /\ \A n \in DOMAIN scene.chain : CountWithin(n)

LEMMA PerCallFacts ==
    ASSUME WrapTypes, NEW n \in DOMAIN scene.chain
    PROVE  /\ PerCall(n) \in Nat \ {0} /\ Twice(n) \in {0, 1}
           /\ PerCall(n) = (IF Probe(n).before THEN 2 ELSE 1) + Twice(n)
           /\ Probe(n).limit \in Nat
<1>1. Probe(n).before \in BOOLEAN /\ Probe(n).limit \in Nat
  BY SceneFacts
<1> QED
  BY <1>1 DEF PerCall, Twice

LEMMA GridFinite ==
    ASSUME WrapTypes, NEW n \in DOMAIN scene.chain
    PROVE  /\ IsFiniteSet(CallThreads \X Grid(n)) /\ Cardinality(CallThreads) \in Nat
           /\ Cardinality(CallThreads \X Grid(n)) = PerCall(n) * scene.depth * Cardinality(CallThreads)
<1> DEFINE D == scene.depth
           P == PerCall(n)
           C == Cardinality(CallThreads)
<1>1. D \in Nat \ {0} /\ P \in Nat \ {0} /\ IsFiniteSet(CallThreads) /\ C \in Nat
  BY SceneFacts, PerCallFacts, CallAssumption, FS_CardinalityType
<1> HIDE DEF D, P
<1>2. /\ IsFiniteSet(0..D - 1) /\ Cardinality(0..D - 1) = D
      /\ IsFiniteSet(1..P) /\ Cardinality(1..P) = P
  <2>1. D - 1 \in Int /\ 0 \in Int /\ 1 \in Int /\ P \in Int /\ ~(0 > D - 1) /\ ~(1 > P)
    BY <1>1
  <2>2. /\ IsFiniteSet(0..D - 1) /\ Cardinality(0..D - 1) = D - 1 - 0 + 1
        /\ IsFiniteSet(1..P) /\ Cardinality(1..P) = P - 1 + 1
    BY <2>1, FS_Interval
  <2> QED
    BY <1>1, <2>2
<1>3. IsFiniteSet(Grid(n)) /\ Cardinality(Grid(n)) = D * P
  BY <1>2, FS_Product, ZenonT(30) DEF Grid, D, P
<1>4. IsFiniteSet(CallThreads \X Grid(n)) /\ Cardinality(CallThreads \X Grid(n)) = C * (D * P)
  BY <1>1, <1>3, FS_Product
<1> HIDE DEF C
<1>5. C * (D * P) = P * D * C
  BY <1>1
<1> QED
  BY <1>1, <1>4, <1>5 DEF C, D, P

LEMMA DueFinite ==
    ASSUME WrapTypes, NEW n \in DOMAIN scene.chain
    PROVE  /\ IsFiniteSet(AllDue(n)) /\ Cardinality(AllDue(n)) \in Nat
           /\ Cardinality(AllDue(n)) <= PerCall(n) * scene.depth * Cardinality(CallThreads)
           /\ PerCall(n) * scene.depth * Cardinality(CallThreads) \in Nat
<1>1. AllDue(n) \in SUBSET (CallThreads \X Grid(n))
  BY DEF AllDue
<1>2. /\ IsFiniteSet(CallThreads \X Grid(n))
      /\ Cardinality(CallThreads \X Grid(n)) = PerCall(n) * scene.depth * Cardinality(CallThreads)
  BY GridFinite
<1>3. IsFiniteSet(AllDue(n)) /\ Cardinality(AllDue(n)) <= Cardinality(CallThreads \X Grid(n))
  BY <1>1, <1>2, FS_Subset
<1> QED
  BY <1>2, <1>3, FS_CardinalityType

\* The frames that two stacks share are equally deep.
LEMMA SameLevel ==
    ASSUME NEW s, NEW r, NEW k \in Nat, \A i \in 1..k : r[i].n = s[i].n, NEW i \in 1..k
    PROVE  Level(r, i) = Level(s, i)
<1>1. UpTo(r, i) = UpTo(s, i)
  BY DEF UpTo
<1> QED
  BY <1>1 DEF Level

\* No two frames of a wrapper are equally deep.
LEMMA Deeper ==
    ASSUME WrapTypes, NEW s \in Seq(WrapFrame), Climbs(s), NEW k \in 1..Len(s), s[k].n # Bottom,
           NEW i \in 1..Len(s), i < k, Level(s, i) = Level(s, k)
    PROVE  s[i].n # s[k].n
<1>1. Len(s) \in Nat /\ k \in Nat /\ i \in Nat /\ \A j \in 1..Len(s) : s[j].n \in Nat
  <2>1. \A j \in 1..Len(s) : s[j] \in WrapFrame
    OBVIOUS
  <2> QED
    BY <2>1, SceneFacts, SMTT(30) DEF WrapFrame
<1>2. UpTo(s, i) = UpTo(s, k)
  <2>1. UpTo(s, i) \in SUBSET UpTo(s, k)
    BY <1>1 DEF UpTo
  <2>2. IsFiniteSet(1..k) /\ UpTo(s, k) \in SUBSET (1..k)
    BY <1>1, FS_Interval DEF UpTo
  <2>3. IsFiniteSet(UpTo(s, k))
    BY <2>2, FS_Subset
  <2> QED
    BY <2>1, <2>3, FS_Subset DEF Level
<1>3. \A j \in i + 1..k : s[j].n # Bottom
  <2> SUFFICES ASSUME NEW j \in i + 1..k, s[j].n = Bottom PROVE FALSE
    OBVIOUS
  <2>1. j \in 1..k /\ j \notin 1..i
    BY <1>1
  <2> QED
    BY <1>2, <2>1 DEF UpTo
<1> SUFFICES ASSUME s[i].n # Bottom PROVE s[i].n # s[k].n
  OBVIOUS
<1>4. \A j \in i..k : s[j].n = s[i].n + (j - i)
  <2> DEFINE bad == {j \in i..k : s[j].n # s[i].n + (j - i)}
  <2> SUFFICES ASSUME bad # {} PROVE FALSE
    OBVIOUS
  <2>1. bad \in SUBSET Nat
    BY <1>1
  <2>2. PICK j \in bad : \A h \in bad : j <= h
    BY <2>1, Least
  <2>3. j \in i..k /\ s[j].n # s[i].n + (j - i) /\ j - 1 \notin bad
    BY <1>1, <2>1, <2>2
  <2>4. j # i
    BY <1>1, <2>3
  <2>5. j - 1 \in i..k /\ j - 1 \in 1..Len(s) - 1 /\ s[j - 1].n = s[i].n + (j - 1 - i) /\ (j - 1 = i \/ j - 1 \in i + 1..k)
    BY <1>1, <2>3, <2>4
  <2>6. s[j - 1].n # Bottom
    BY <1>3, <2>5
  <2>7. s[j - 1 + 1].n = s[j - 1].n + 1
    BY <2>5, <2>6 DEF Climbs
  <2>8. j - 1 + 1 = j /\ s[i].n \in Nat
    BY <1>1, <2>3
  <2>9. s[j].n = s[j - 1].n + 1
    BY <2>7, <2>8
  <2>10. s[i].n + (j - 1 - i) + 1 = s[i].n + (j - i)
    <3>1. \A a, b, c \in Nat : a + (b - 1 - c) + 1 = a + (b - c)
      OBVIOUS
    <3>2. i \in Nat /\ j \in Nat /\ s[i].n \in Nat
      BY <1>1, <2>3, <2>8
    <3> QED
      BY <3>1, <3>2
  <2> QED
    BY <2>3, <2>5, <2>9, <2>10
<1> QED
  BY <1>1, <1>4

\* A thread that gets on without one more observation of n due.
Quieter(s, r, n) ==
    \A i \in 1..Len(r) : r[i].n = n /\ Remaining(r[i]) > 0 =>
        /\ i \in 1..Len(s) /\ r[i].n = s[i].n /\ Remaining(r[i]) <= Remaining(s[i])
        /\ Level(r, i) = Level(s, i)

LEMMA QuieterDue ==
    ASSUME WrapTypes, NEW s, NEW r, NEW n \in DOMAIN scene.chain, Quieter(s, r, n),
           \A i \in 1..Len(s) : Remaining(s[i]) \in Nat, \A i \in 1..Len(r) : Remaining(r[i]) \in Nat
    PROVE  Due(r, n) \subseteq Due(s, n)
<1> SUFFICES ASSUME NEW x \in Due(r, n) PROVE x \in Due(s, n)
  OBVIOUS
<1>1. x \in Grid(n) /\ x[2] \in 1..PerCall(n)
  BY DEF Due, Grid
<1>2. PICK i \in 1..Len(r) : r[i].n = n /\ Level(r, i) = x[1] /\ x[2] <= Remaining(r[i])
  BY DEF Due
<1>3. x[2] \in Nat /\ x[2] > 0
  BY <1>1, PerCallFacts
<1>4. Remaining(r[i]) > 0
  BY <1>2, <1>3
<1>5. i \in 1..Len(s) /\ s[i].n = n /\ Level(s, i) = x[1] /\ x[2] <= Remaining(s[i])
  BY <1>2, <1>3, <1>4 DEF Quieter
<1> QED
  BY <1>1, <1>5 DEF Due

\* One that has just counted the observation of its innermost frame.
LEMMA ObservedDue ==
    ASSUME WrapTypes, NEW s \in Seq(WrapFrame), s # <<>>, Climbs(s), NEW r,
           NEW n \in DOMAIN scene.chain, Quieter(s, r, n),
           \A i \in 1..Len(s) : Remaining(s[i]) \in Nat, \A i \in 1..Len(r) : Remaining(r[i]) \in Nat,
           s[Len(s)].n = n, Remaining(s[Len(s)]) \in 1..PerCall(n),
           Len(s) \in 1..Len(r) => Remaining(r[Len(s)]) < Remaining(s[Len(s)])
    PROVE  \E x \in Due(s, n) : Due(r, n) \subseteq Due(s, n) \ {x}
<1> DEFINE k == Len(s)
           x == <<Level(s, k), Remaining(s[k])>>
<1>1. k \in Nat /\ k \in 1..k /\ n # Bottom /\ n \in 1..Bottom - 1 /\ Bottom \in Nat
  BY SceneFacts
<1>2. Level(s, k) \in 0..scene.depth - 1
  <2>1. Level(s, k) < scene.depth /\ scene.depth \in Nat
    BY <1>1, SceneFacts DEF Climbs
  <2>2. IsFiniteSet(1..k) /\ UpTo(s, k) \in SUBSET (1..k)
    BY <1>1, FS_Interval DEF UpTo
  <2>3. Level(s, k) \in Nat
    BY <2>2, FS_Subset, FS_CardinalityType DEF Level
  <2> QED
    BY <2>1, <2>3
<1>3. x \in Due(s, n) /\ x[1] = Level(s, k) /\ x[2] = Remaining(s[k])
  <2>1. x \in Grid(n)
    BY <1>2 DEF Grid
  <2>2. Remaining(s[k]) <= Remaining(s[k])
    BY PerCallFacts
  <2> QED
    BY <1>1, <2>1, <2>2 DEF Due
<1>4. x \notin Due(r, n)
  <2> SUFFICES ASSUME NEW i \in 1..Len(r), r[i].n = n, Level(r, i) = x[1], x[2] <= Remaining(r[i]) PROVE FALSE
    BY DEF Due
  <2>1. Remaining(r[i]) > 0
    BY <1>3, PerCallFacts
  <2>2. i \in 1..k /\ s[i].n = n /\ Level(s, i) = Level(s, k)
    BY <1>3, <2>1 DEF Quieter
  <2>3. i = k
    <3>1. ~(i < k)
      <4> SUFFICES ASSUME i < k PROVE FALSE
        OBVIOUS
      <4>1. i \in 1..Len(s) /\ k \in 1..Len(s) /\ s[k].n # Bottom /\ s[i].n = s[k].n
        BY <1>1, <2>2
      <4> QED
        BY <2>2, <4>1, Deeper
    <3> QED
      BY <1>1, <2>2, <3>1
  <2> QED
    BY <1>1, <1>3, <2>3, PerCallFacts
<1>5. Due(r, n) \subseteq Due(s, n)
  BY QuieterDue
<1> HIDE DEF x
<1> QED
  BY <1>3, <1>4, <1>5

\* The frames of the body are at it.
Fits(f) == f \in WrapFrame /\ (f.at \in {"body", "calling", "called"} <=> f.n = Bottom)

LEMMA RemainingFacts ==
    ASSUME WrapTypes, NEW f, Fits(f)
    PROVE  /\ Remaining(f) \in Nat
           /\ Remaining(f) > 0 => f.n \in DOMAIN scene.chain
           /\ Remaining(f) > 0 /\ (f.at = "enter" => Probe(f.n).before) => Remaining(f) \in 1..PerCall(f.n)
           /\ f.n # Bottom => f.n \in DOMAIN scene.chain
<1>1. f.n \in 1..Bottom /\ Bottom \in Nat /\ DOMAIN scene.chain = 1..Bottom - 1
  BY SceneFacts DEF WrapFrame, Fits
<1>2. CASE f.n # Bottom
  <2>1. f.n \in DOMAIN scene.chain
    BY <1>1, <1>2
  <2>2. /\ PerCall(f.n) \in Nat \ {0} /\ Twice(f.n) \in {0, 1}
        /\ PerCall(f.n) = (IF Probe(f.n).before THEN 2 ELSE 1) + Twice(f.n)
    BY <2>1, PerCallFacts
  <2> QED
    BY <2>1, <2>2 DEF Remaining
<1>3. CASE f.n = Bottom
  <2>1. Remaining(f) = 0
    BY <1>3 DEF Remaining, Fits
  <2> QED
    BY <2>1, <1>3
<1> QED
  BY <1>2, <1>3

LEMMA AllFit ==
    ASSUME WrapTypes, NEW s, Stacked(s)
    PROVE  \A i \in 1..Len(s) : Fits(s[i]) /\ Remaining(s[i]) \in Nat
<1>1. \A i \in 1..Len(s) : Fits(s[i])
  BY DEF Stacked, Fits
<1> QED
  BY <1>1, RemainingFacts

LEMMA ShapeOn ==
    ASSUME NEW s \in Seq(WrapFrame), s # <<>>, NEW f \in WrapFrame
    PROVE  /\ OnAs(s, f) \in Seq(WrapFrame) /\ Len(OnAs(s, f)) = Len(s) /\ OnAs(s, f)[Len(s)] = f
           /\ \A i \in 1..Len(s) : i # Len(s) => OnAs(s, f)[i] = s[i]
           /\ Len(s) \in Nat \ {0}
  BY DEF OnAs

\* The innermost frame goes on as f.
LEMMA GoesOnQuietly ==
    ASSUME WrapTypes, NEW s, Stacked(s), Climbs(s), s # <<>>, NEW f, Fits(f), f.n = s[Len(s)].n,
           f.at = "enter" => Probe(f.n).before, NEW r, r = OnAs(s, f)
    PROVE  /\ Climbs(r) /\ Len(r) = Len(s) /\ r[Len(s)] = f
           /\ \A i \in 1..Len(r) : Remaining(r[i]) \in Nat
           /\ \A n : f.n # n \/ Remaining(f) <= Remaining(s[Len(s)]) => Quieter(s, r, n)
<1> DEFINE k == Len(s)
<1>1. /\ k \in Nat \ {0} /\ Len(r) = k /\ r[k] = f /\ s \in Seq(WrapFrame)
      /\ \A i \in 1..k : i # k => r[i] = s[i]
  BY ShapeOn, ZenonT(30) DEF Stacked, Fits
<1>2. \A i \in 1..k : r[i].n = s[i].n
  BY <1>1
<1>3. \A i \in 1..k : Remaining(s[i]) \in Nat
  BY AllFit
<1>4. Remaining(f) \in Nat
  BY RemainingFacts
<1> HIDE DEF k
<1>5. \A i \in 1..k : Level(r, i) = Level(s, i)
  <2> SUFFICES ASSUME NEW i \in 1..k PROVE Level(r, i) = Level(s, i)
    OBVIOUS
  <2>1. k \in Nat /\ \A j \in 1..k : r[j].n = s[j].n
    BY <1>1, <1>2
  <2> QED
    BY <2>1, SameLevel
<1>6. Climbs(r)
  <2>1. \A i \in 1..k - 1 : i \in 1..k /\ i + 1 \in 1..k
    BY <1>1
  <2>2. \A i \in 1..k - 1 : r[i].n # Bottom => r[i + 1].n = r[i].n + 1
    BY <1>2, <2>1 DEF Climbs, k
  <2>3. \A i \in 1..k : r[i].n # Bottom => Level(r, i) < scene.depth
    BY <1>2, <1>5 DEF Climbs, k
  <2>4. \A i \in 1..k : r[i].at = "enter" => Probe(r[i].n).before
    BY <1>1 DEF Climbs, k
  <2> QED
    BY <1>1, <2>2, <2>3, <2>4 DEF Climbs
<1>7. \A i \in 1..k : Remaining(r[i]) \in Nat
  BY <1>1, <1>3, <1>4
<1>8. ASSUME NEW n, f.n # n \/ Remaining(f) <= Remaining(s[k]) PROVE Quieter(s, r, n)
  <2>1. \A i \in 1..k : Remaining(s[i]) <= Remaining(s[i])
    BY <1>3
  <2> QED
    BY <1>1, <1>2, <1>5, <1>8, <2>1 DEF Quieter, k
<1> QED
  BY <1>1, <1>6, <1>7, <1>8 DEF k

LEMMA NewFits ==
    ASSUME NEW m \in 1..Bottom
    PROVE  /\ Fits(NewFrame(m)) /\ NewFrame(m).n = m /\ Remaining(NewFrame(m)) = 0
           /\ NewFrame(m).at # "enter"
  BY DEF NewFrame, Fits, WrapFrame, Outcomes, Remaining

\* It waits as f for a call of m.
LEMMA CallsOnQuietly ==
    ASSUME WrapTypes, NEW s, Stacked(s), Climbs(s), s # <<>>, NEW f, Fits(f), f.n = s[Len(s)].n,
           f.at # "enter", NEW m \in 1..Bottom, NEW r, r = CallsOn(s, f, m),
           s[Len(s)].n # Bottom => m = s[Len(s)].n + 1,
           s[Len(s)].n = Bottom /\ m # Bottom => Depth(s) < scene.depth
    PROVE  /\ Climbs(r) /\ Len(r) = Len(s) + 1 /\ r[Len(s)] = f
           /\ \A i \in 1..Len(r) : Remaining(r[i]) \in Nat
           /\ \A n : f.n # n \/ Remaining(f) <= Remaining(s[Len(s)]) => Quieter(s, r, n)
<1> DEFINE k == Len(s)
           o == OnAs(s, f)
           g == NewFrame(m)
<1>1. /\ Climbs(o) /\ Len(o) = k /\ o[k] = f /\ \A i \in 1..k : Remaining(o[i]) \in Nat
      /\ \A n : f.n # n \/ Remaining(f) <= Remaining(s[k]) => Quieter(s, o, n)
  BY GoesOnQuietly
<1>2. o \in Seq(WrapFrame) /\ k \in Nat \ {0} /\ g \in WrapFrame /\ s \in Seq(WrapFrame)
      /\ \A i \in 1..k : i # k => o[i] = s[i]
  BY ShapeOn, NewFits DEF Stacked, Fits
<1>3. r = Append(o, g)
  BY DEF CallsOn
<1>4. g.n = m /\ Remaining(g) = 0 /\ g.at # "enter"
  BY NewFits
<1> HIDE DEF o, g
<1>5. Len(r) = k + 1 /\ r[k + 1] = g /\ \A i \in 1..k : r[i] = o[i]
  BY <1>1, <1>2, <1>3
<1> HIDE DEF k
<1>6. \A i \in 1..k : Level(r, i) = Level(o, i)
  <2> SUFFICES ASSUME NEW i \in 1..k PROVE Level(r, i) = Level(o, i)
    OBVIOUS
  <2>1. k \in Nat /\ \A j \in 1..k : r[j].n = o[j].n
    BY <1>2, <1>5
  <2> QED
    BY <2>1, SameLevel
<1>7. m # Bottom => Level(r, k + 1) < scene.depth
  <2> SUFFICES ASSUME m # Bottom PROVE Level(r, k + 1) < scene.depth
    OBVIOUS
  <2>1. UpTo(r, k + 1) = UpTo(s, k)
    <3>1. \A j \in 1..k : r[j].n = s[j].n
      BY <1>1, <1>2, <1>5 DEF k
    <3>2. r[k + 1].n # Bottom
      BY <1>4, <1>5
    <3>3. \A j : j \in 1..k + 1 <=> j \in 1..k \/ j = k + 1
      BY <1>2
    <3> QED
      BY <3>1, <3>2, <3>3 DEF UpTo
  <2>2. s[k].n # Bottom => Level(s, k) < scene.depth
    BY <1>2 DEF Climbs, k
  <2>3. s[k].n = Bottom => Depth(s) < scene.depth
    BY DEF k
  <2>4. BodiesIn(s) = UpTo(s, k)
    BY DEF BodiesIn, UpTo, k
  <2> QED
    BY <2>1, <2>2, <2>3, <2>4 DEF Level, Depth
<1>8. Climbs(r)
  <2>1. \A i : i \in 1..k + 1 <=> i \in 1..k \/ i = k + 1
    BY <1>2
  <2>2. \A i \in 1..(k + 1) - 1 : r[i].n # Bottom => r[i + 1].n = r[i].n + 1
    <3> SUFFICES ASSUME NEW i \in 1..(k + 1) - 1, r[i].n # Bottom PROVE r[i + 1].n = r[i].n + 1
      OBVIOUS
    <3>1. i \in 1..k /\ (i = k \/ (i \in 1..k - 1 /\ i + 1 \in 1..k))
      BY <1>2
    <3>2. CASE i = k
      BY <1>1, <1>2, <1>4, <1>5, <3>1, <3>2 DEF k
    <3>3. CASE i \in 1..k - 1 /\ i + 1 \in 1..k
      BY <1>1, <1>5, <3>1, <3>3, SMTT(30) DEF Climbs
    <3> QED
      BY <3>1, <3>2, <3>3
  <2>3. \A i \in 1..k + 1 : r[i].n # Bottom => Level(r, i) < scene.depth
    BY <1>1, <1>4, <1>5, <1>6, <1>7, <2>1 DEF Climbs
  <2>4. \A i \in 1..k + 1 : r[i].at = "enter" => Probe(r[i].n).before
    BY <1>1, <1>4, <1>5, <2>1 DEF Climbs
  <2> QED
    BY <1>5, <2>2, <2>3, <2>4 DEF Climbs
<1>9. \A i \in 1..k + 1 : Remaining(r[i]) \in Nat
  <2>1. \A i : i \in 1..k + 1 <=> i \in 1..k \/ i = k + 1
    BY <1>2
  <2> QED
    BY <1>1, <1>4, <1>5, <2>1
<1>10. ASSUME NEW n, Quieter(s, o, n) PROVE Quieter(s, r, n)
  <2>1. \A i : i \in 1..k + 1 <=> i \in 1..k \/ i = k + 1
    BY <1>2
  <2>2. ~(Remaining(r[k + 1]) > 0)
    BY <1>4, <1>5
  <2> QED
    BY <1>1, <1>5, <1>6, <1>10, <2>1, <2>2 DEF Quieter
<1> QED
  BY <1>1, <1>5, <1>8, <1>9, <1>10 DEF k

\* The innermost frame is left, and the one below resumes.
LEMMA ReturnsQuietly ==
    ASSUME WrapTypes, NEW s, Stacked(s), Climbs(s), s # <<>>, NEW o \in Outcomes, NEW r, r = AfterReturn(s, o)
    PROVE  /\ Climbs(r) /\ (\A n : Quieter(s, r, n)) /\ \A i \in 1..Len(r) : Remaining(r[i]) \in Nat
           /\ Len(r) = Len(s) - 1
<1> DEFINE k == Len(s)
           rest == SubSeq(s, 1, k - 1)
           f == s[k - 1]
           g == Resumed(f, o)
<1>1. s \in Seq(WrapFrame) /\ k \in Nat \ {0}
  BY DEF Stacked
<1>2. rest \in Seq(WrapFrame) /\ Len(rest) = k - 1 /\ \A i \in 1..(k - 1) : rest[i] = s[i]
  BY <1>1, FrontFacts
<1>3. CASE k = 1
  <2>1. r = <<>>
    BY <1>3 DEF AfterReturn
  <2>2. Len(r) = 0 /\ 1..0 = {} /\ 1..0 - 1 = {}
    BY <2>1
  <2> QED
    BY <1>3, <2>2 DEF Climbs, Quieter
<1>4. CASE k # 1
  <2>0. k - 1 \in 1..k /\ k - 1 < k /\ k - 1 \in 1..k - 1
    <3> HIDE DEF k
    <3> QED
      BY <1>1, <1>4
  <2>1. /\ f \in WrapFrame /\ f.at \in {"through", "below", "calling"}
        /\ f.at = "calling" <=> f.n = Bottom
    BY <1>1, <2>0 DEF Stacked
  <2>2. /\ g \in WrapFrame /\ g.n = f.n /\ g.at \in {"called", "after", "leave"}
        /\ g.at = "called" <=> g.n = Bottom
        /\ g.at = "after" => f.at = "below"
    BY <2>1 DEF Resumed, WrapFrame
  <2>3. r = OnAs(rest, g)
    BY <1>2, <1>4 DEF AfterReturn, Popped, OnAs
  <2>4. rest # <<>>
    <3> HIDE DEF rest
    <3> QED
      BY <1>1, <1>2, <1>4
  <2> HIDE DEF rest, g
  <2>5. /\ Len(r) = k - 1 /\ r[k - 1] = g /\ \A i \in 1..(k - 1) : i # k - 1 => r[i] = s[i]
    <3>1. /\ Len(r) = Len(rest) /\ r[Len(rest)] = g
          /\ \A i \in 1..Len(rest) : i # Len(rest) => r[i] = rest[i]
      <4>1. rest \in Seq(WrapFrame) /\ g \in WrapFrame
        BY <1>2, <2>2
      <4>2. /\ Len(OnAs(rest, g)) = Len(rest) /\ OnAs(rest, g)[Len(rest)] = g
            /\ \A i \in 1..Len(rest) : i # Len(rest) => OnAs(rest, g)[i] = rest[i]
        BY <4>1, <2>4, ShapeOn
      <4> QED
        BY <2>3, <4>2
    <3> QED
      BY <1>2, <3>1
  <2>6. Fits(g) /\ Remaining(g) <= Remaining(f) /\ Remaining(g) \in Nat /\ Remaining(f) \in Nat
    <3>1. Fits(g) /\ Fits(f)
      BY <2>1, <2>2 DEF Fits
    <3>2. Remaining(g) \in Nat /\ Remaining(f) \in Nat /\ (f.n # Bottom => f.n \in DOMAIN scene.chain)
      BY <3>1, RemainingFacts
    <3>3. f.n # Bottom => Twice(f.n) \in {0, 1}
      BY <3>2, PerCallFacts
    <3>4. CASE g.at = "after"
      <4>1. f.at = "below" /\ g.n = f.n /\ Twice(f.n) \in {0, 1}
        BY <2>1, <2>2, <3>3, <3>4
      <4>2. Remaining(f) = 1 + Twice(f.n) /\ Remaining(g) \in {1, 1 + Twice(f.n)}
        BY <3>4, <4>1 DEF Remaining
      <4>3. \A x \in {0, 1} : \A y \in {1, 1 + x} : y <= 1 + x
        OBVIOUS
      <4> QED
        BY <3>1, <3>2, <4>1, <4>2, <4>3
    <3>5. CASE g.at # "after"
      <4>1. Remaining(g) = 0
        BY <2>2, <3>5 DEF Remaining
      <4> QED
        BY <3>1, <3>2, <4>1
    <3> QED
      BY <3>1, <3>2, <3>4, <3>5
  <2>7. \A i \in 1..k : Remaining(s[i]) \in Nat
    BY AllFit
  <2> HIDE DEF k, f
  <2>8. \A i \in 1..k - 1 : i \in 1..k /\ r[i].n = s[i].n
    BY <1>1, <2>2, <2>5 DEF f
  <2>9. \A i \in 1..k - 1 : Level(r, i) = Level(s, i)
    <3> SUFFICES ASSUME NEW i \in 1..k - 1 PROVE Level(r, i) = Level(s, i)
      OBVIOUS
    <3>1. k - 1 \in Nat /\ \A j \in 1..k - 1 : r[j].n = s[j].n
      BY <1>1, <2>8
    <3> QED
      BY <3>1, SameLevel
  <2>10. Climbs(r)
    <3>1. \A i \in 1..(k - 1) - 1 : i \in 1..k - 1 /\ i + 1 \in 1..k - 1
      BY <1>1
    <3>2. \A i \in 1..(k - 1) - 1 : r[i].n # Bottom => r[i + 1].n = r[i].n + 1
      BY <2>8, <3>1 DEF Climbs, k
    <3>3. \A i \in 1..k - 1 : r[i].n # Bottom => Level(r, i) < scene.depth
      BY <2>8, <2>9 DEF Climbs, k
    <3>4. \A i \in 1..k - 1 : r[i].at = "enter" => Probe(r[i].n).before
      BY <2>2, <2>5, <2>8 DEF Climbs, k
    <3> QED
      BY <2>5, <3>2, <3>3, <3>4 DEF Climbs
  <2>11. \A i \in 1..k - 1 : Remaining(r[i]) \in Nat /\ Remaining(r[i]) <= Remaining(s[i])
    BY <2>5, <2>6, <2>7, <2>8 DEF f
  <2> QED
    BY <2>5, <2>8, <2>9, <2>10, <2>11 DEF Quieter, k
<1> QED
  BY <1>3, <1>4

-----------------------------------------------------------------------------
LEMMA SceneSame ==
    ASSUME scene' = scene, NEW n
    PROVE  /\ Allowed(n)' = Allowed(n) /\ Probe(n)' = Probe(n)
           /\ AllDue(n)' = {x \in CallThreads \X Grid(n) : x[2] \in Due(frames'[x[1]], n)}
  BY DEF AllDue, Due, Grid, Level, UpTo, Remaining, Twice, PerCall, Probe, Raises, Bottom, Allowed

LEMMA ClimbsAfter ==
    ASSUME scene' = scene, NEW t, NEW s, frames'[t] = s, Climbs(s)
    PROVE  Climbs(frames[t])'
  BY DEF Climbs, Level, UpTo, Probe, Bottom

\* The observations of one thread that are due, and what is counted.
LEMMA ThreadDue ==
    ASSUME WrapTypes, scene' = scene, NEW t \in CallThreads, NEW r, frames' = [frames EXCEPT ![t] = r],
           NEW n \in DOMAIN scene.chain, CountWithin(n), count[n] \in Nat, count'[n] \in Nat,
           \/ count'[n] = count[n] /\ Due(r, n) \subseteq Due(frames[t], n)
           \/ count'[n] <= Probe(n).limit - 1
           \/ /\ count'[n] <= count[n] + 1
              /\ \E x \in Due(frames[t], n) : Due(r, n) \subseteq Due(frames[t], n) \ {x}
    PROVE  CountWithin(n)'
<1> DEFINE after == {x \in CallThreads \X Grid(n) : x[2] \in Due(frames'[x[1]], n)}
           A == Cardinality(AllDue(n))
           B == Cardinality(after)
           M == PerCall(n) * scene.depth * Cardinality(CallThreads)
           L == Probe(n).limit
<1>1. frames'[t] = r /\ \A u \in CallThreads \ {t} : frames'[u] = frames[u]
  BY DEF WrapTypes
<1>2. after \in SUBSET (CallThreads \X Grid(n))
  OBVIOUS
<1>3. IsFiniteSet(AllDue(n)) /\ A \in Nat /\ M \in Nat
  BY DueFinite
<1>4. B \in Nat /\ B <= M
  <2>1. IsFiniteSet(CallThreads \X Grid(n)) /\ Cardinality(CallThreads \X Grid(n)) = M
    BY GridFinite
  <2>2. IsFiniteSet(after) /\ B <= Cardinality(CallThreads \X Grid(n))
    BY <1>2, <2>1, FS_Subset
  <2> QED
    BY <2>1, <2>2, FS_CardinalityType
<1>5. L \in Nat
  BY PerCallFacts
<1>6. \A x \in after : x[1] # t => x \in AllDue(n)
  BY <1>1 DEF AllDue
<1>7. \A x \in after : x[1] = t => x[2] \in Due(r, n)
  BY <1>1
<1>8. Due(r, n) \subseteq Due(frames[t], n) => B <= A
  <2> SUFFICES ASSUME Due(r, n) \subseteq Due(frames[t], n) PROVE B <= A
    OBVIOUS
  <2>1. after \in SUBSET AllDue(n)
    BY <1>6, <1>7 DEF AllDue
  <2> QED
    BY <1>3, <2>1, FS_Subset
<1>9. ASSUME NEW x \in Due(frames[t], n), Due(r, n) \subseteq Due(frames[t], n) \ {x} PROVE B <= A - 1
  <2> DEFINE y == <<t, x>>
  <2>1. y \in AllDue(n) /\ y[1] = t /\ y[2] = x
    BY <1>9 DEF AllDue, Due
  <2>2. y \notin after
    BY <1>7, <1>9, <2>1
  <2>3. after \in SUBSET (AllDue(n) \ {y})
    BY <1>6, <1>7, <1>9, <2>2 DEF AllDue
  <2>4. IsFiniteSet(AllDue(n) \ {y}) /\ Cardinality(AllDue(n) \ {y}) = A - 1
    BY <1>3, <2>1, FS_RemoveElement
  <2> QED
    BY <2>3, <2>4, FS_Subset
<1>10. CountWithin(n)' <=> (L > 0 => count'[n] + B <= L - 1 + M)
  BY SceneSame DEF CountWithin, Allowed
<1>11. L > 0 => count[n] + A <= L - 1 + M
  BY DEF CountWithin, Allowed
<1> HIDE DEF after, A, B, M, L
<1>12. CASE count'[n] = count[n] /\ Due(r, n) \subseteq Due(frames[t], n)
  BY <1>3, <1>4, <1>5, <1>8, <1>10, <1>11, <1>12
<1>13. CASE count'[n] <= L - 1
  BY <1>3, <1>4, <1>5, <1>10, <1>13
<1>14. ASSUME NEW x \in Due(frames[t], n), count'[n] <= count[n] + 1,
              Due(r, n) \subseteq Due(frames[t], n) \ {x}
       PROVE  CountWithin(n)'
  BY <1>3, <1>4, <1>5, <1>9, <1>10, <1>11, <1>14
<1> QED
  BY <1>12, <1>13, <1>14 DEF L

\* What a step of one thread does to the observations of n.
Settles(s, r, n) ==
    \/ Probe(n).limit = 0
    \/ count'[n] = count[n] /\ Due(r, n) \subseteq Due(s, n)
    \/ count'[n] <= Probe(n).limit - 1
    \/ /\ count'[n] <= count[n] + 1
       /\ \E x \in Due(s, n) : Due(r, n) \subseteq Due(s, n) \ {x}

LEMMA OneThread ==
    ASSUME WrapTypes, CountInv, scene' = scene, NEW t \in CallThreads, NEW r,
           frames' = [frames EXCEPT ![t] = r], Climbs(r),
           count' \in [DOMAIN scene.chain -> Nat],
           \A n \in DOMAIN scene.chain : Settles(frames[t], r, n)
    PROVE  CountInv'
<1>1. frames'[t] = r /\ \A u \in CallThreads \ {t} : frames'[u] = frames[u]
  BY DEF WrapTypes
<1>2. ASSUME NEW u \in CallThreads PROVE Climbs(frames[u])'
  <2>1. Climbs(frames'[u])
    BY <1>1 DEF CountInv
  <2> QED
    BY <2>1, ClimbsAfter
<1>3. ASSUME NEW n \in DOMAIN scene.chain PROVE CountWithin(n)'
  <2>1. CountWithin(n) /\ count[n] \in Nat /\ count'[n] \in Nat
    BY DEF CountInv
  <2>2. CASE Probe(n).limit = 0
    BY <2>2, SceneSame DEF CountWithin
  <2>3. CASE Probe(n).limit # 0
    BY <2>1, <2>3, ThreadDue DEF Settles
  <2> QED
    BY <2>2, <2>3
<1> QED
  BY <1>2, <1>3 DEF CountInv

LEMMA QuietSettles ==
    ASSUME WrapTypes, NEW s, Stacked(s), NEW r, \A i \in 1..Len(r) : Remaining(r[i]) \in Nat,
           NEW n \in DOMAIN scene.chain, count' = count, Quieter(s, r, n)
    PROVE  Settles(s, r, n)
<1>1. Due(r, n) \subseteq Due(s, n)
  BY AllFit, QuieterDue
<1> QED
  BY <1>1 DEF Settles

\* A wrapper that lets the call pass, or ends, has no observation left to count; one that
\* has found its probe below the limit has those of one call.
LEMMA Tests ==
    ASSUME WrapInv, NEW n \in DOMAIN scene.chain, ~PassesThrough(n), CountInv, NEW s, NEW r, count' = count
    PROVE  Settles(s, r, n)
<1>1. Probe(n).limit \in Nat /\ count[n] \in Nat
  BY PerCallFacts DEF WrapInv, CountInv
<1> QED
  BY <1>1 DEF PassesThrough, Settles

LEMMA TopShape ==
    ASSUME WrapInv, CountInv, NEW t \in CallThreads, At(t) # "idle"
    PROVE  /\ frames[t] # <<>> /\ Stacked(frames[t]) /\ frames[t] \in Seq(WrapFrame) /\ Climbs(frames[t])
           /\ Top(t) = frames[t][Len(frames[t])] /\ Fits(Top(t)) /\ At(t) = Top(t).at
           /\ Top(t).n # Bottom => Top(t).n \in DOMAIN scene.chain /\ Top(t).n + 1 \in 1..Bottom
           /\ Top(t).at = "enter" => Probe(Top(t).n).before
           /\ Len(frames[t]) \in 1..Len(frames[t])
<1> DEFINE s == frames[t]
<1>1. s # <<>> /\ Stacked(s) /\ s \in Seq(WrapFrame) /\ Climbs(s) /\ WrapTypes
  BY DEF At, WrapInv, CallInv, CallSound, CountInv, Stacked
<1>2. Len(s) \in 1..Len(s)
  BY <1>1
<1>3. Fits(s[Len(s)])
  BY <1>1, <1>2, AllFit
<1>4. Top(t) = s[Len(s)] /\ At(t) = Top(t).at
  BY <1>1 DEF Top, At
<1>5. Top(t).n # Bottom => Top(t).n \in DOMAIN scene.chain /\ Top(t).n + 1 \in 1..Bottom
  BY <1>1, <1>3, <1>4, SceneFacts DEF Fits, WrapFrame
<1>6. Top(t).at = "enter" => Probe(Top(t).n).before
  BY <1>1, <1>2, <1>4 DEF Climbs
<1> QED
  BY <1>1, <1>2, <1>3, <1>4, <1>5, <1>6

\* A step of a wrapper that counts nothing: it lets the call pass, or skips its observation,
\* or has found its probe below the limit.
LEMMA WrapperQuiet ==
    ASSUME WrapInv, CountInv, scene' = scene, count' = count, NEW t \in CallThreads, At(t) # "idle",
           Top(t).n # Bottom, NEW f, Fits(f), f.n = Top(t).n,
           \/ f.at # "enter" /\ Descend(t, f, Top(t).n + 1)
           \/ (f.at = "enter" => Probe(f.n).before) /\ Become(t, f),
           Remaining(f) <= Remaining(Top(t)) \/ ~PassesThrough(f.n)
    PROVE  CountInv'
<1> DEFINE s == frames[t]
<1>1. /\ s # <<>> /\ Stacked(s) /\ Climbs(s) /\ Top(t) = s[Len(s)] /\ WrapTypes
      /\ f.n \in DOMAIN scene.chain /\ Top(t).n + 1 \in 1..Bottom
  BY TopShape DEF WrapInv
<1>2. PICK r : /\ frames' = [frames EXCEPT ![t] = r] /\ Climbs(r)
               /\ \A i \in 1..Len(r) : Remaining(r[i]) \in Nat
               /\ \A n : f.n # n \/ Remaining(f) <= Remaining(Top(t)) => Quieter(s, r, n)
  <2>1. CASE f.at # "enter" /\ Descend(t, f, Top(t).n + 1)
    <3> DEFINE r == CallsOn(s, f, Top(t).n + 1)
    <3>1. frames' = [frames EXCEPT ![t] = r]
      BY <2>1 DEF Descend, CallsOn, OnAs, Replaced
    <3>2. /\ Climbs(r) /\ \A i \in 1..Len(r) : Remaining(r[i]) \in Nat
          /\ \A n : f.n # n \/ Remaining(f) <= Remaining(Top(t)) => Quieter(s, r, n)
      BY <1>1, <2>1, CallsOnQuietly
    <3> QED
      BY <3>1, <3>2
  <2>2. CASE (f.at = "enter" => Probe(f.n).before) /\ Become(t, f)
    <3> DEFINE r == OnAs(s, f)
    <3>1. frames' = [frames EXCEPT ![t] = r]
      BY <2>2 DEF Become, OnAs, Replaced
    <3>2. /\ Climbs(r) /\ \A i \in 1..Len(r) : Remaining(r[i]) \in Nat
          /\ \A n : f.n # n \/ Remaining(f) <= Remaining(Top(t)) => Quieter(s, r, n)
      BY <1>1, <2>2, GoesOnQuietly
    <3> QED
      BY <3>1, <3>2
  <2> QED
    BY <2>1, <2>2
<1>3. ASSUME NEW n \in DOMAIN scene.chain PROVE Settles(s, r, n)
  <2>1. CASE Quieter(s, r, n)
    BY <1>1, <1>2, <2>1, QuietSettles
  <2>2. CASE f.n = n /\ ~PassesThrough(n)
    BY <2>2, Tests
  <2> QED
    BY <1>2, <2>1, <2>2
<1>4. count' \in [DOMAIN scene.chain -> Nat]
  BY DEF CountInv
<1> QED
  BY <1>1, <1>2, <1>3, <1>4, OneThread

\* A frame that goes on elsewhere, or with another outcome.
LEMMA FrameUpdates ==
    ASSUME NEW f, Fits(f), f.n # Bottom
    PROVE  /\ \A x \in {"through", "enter", "below", "after", "leave"} :
                 LET g == [f EXCEPT !.at = x] IN Fits(g) /\ g.n = f.n /\ g.at = x /\ g.out = f.out
           /\ LET g == [f EXCEPT !.at = "through", !.holds = TRUE]
              IN  Fits(g) /\ g.n = f.n /\ g.at = "through"
           /\ LET g == [f EXCEPT !.out = "exc"]
              IN  Fits(g) /\ g.n = f.n /\ g.at = f.at /\ g.out = "exc"
           /\ LET g == [f EXCEPT !.at = "leave", !.out = "exc"]
              IN  Fits(g) /\ g.n = f.n /\ g.at = "leave"
  BY DEF Fits, WrapFrame, Outcomes

LEMMA PrepareCounts ==
    ASSUME WrapInv, CountInv, NEW t \in CallThreads,
           PrepareWatch(t) \/ TracePassesThrough(t) \/ BeginTrace(t)
    PROVE  CountInv'
<1> DEFINE f == Top(t)
<1>1. At(t) = "prepare" /\ scene' = scene /\ count' = count
  BY DEF PrepareWatch, TracePassesThrough, BeginTrace
<1>2. Fits(f) /\ f.at = "prepare" /\ f.n # Bottom
  BY <1>1, TopShape DEF Fits
<1>3. PICK g : /\ Fits(g) /\ g.n = f.n
               /\ \/ g.at # "enter" /\ Descend(t, g, f.n + 1)
                  \/ (g.at = "enter" => Probe(g.n).before) /\ Become(t, g)
               /\ g.at = "through" \/ ~PassesThrough(g.n)
  <2>1. CASE Descend(t, [f EXCEPT !.at = "through"], f.n + 1)
    <3> DEFINE g == [f EXCEPT !.at = "through"]
    <3>1. Fits(g) /\ g.n = f.n /\ g.at = "through"
      BY <1>2, FrameUpdates
    <3> HIDE DEF g
    <3> QED
      BY <2>1, <3>1 DEF g
  <2>2. CASE ~PassesThrough(f.n) /\ Probe(f.n).before /\ Become(t, [f EXCEPT !.at = "enter"])
    <3> DEFINE g == [f EXCEPT !.at = "enter"]
    <3>1. Fits(g) /\ g.n = f.n /\ g.at = "enter"
      BY <1>2, FrameUpdates
    <3>2. Become(t, g) /\ ~PassesThrough(g.n) /\ Probe(g.n).before
      BY <2>2, <3>1
    <3> HIDE DEF g
    <3> QED
      BY <3>1, <3>2
  <2>3. CASE ~PassesThrough(f.n) /\ Descend(t, [f EXCEPT !.at = "below"], f.n + 1)
    <3> DEFINE g == [f EXCEPT !.at = "below"]
    <3>1. Fits(g) /\ g.n = f.n /\ g.at = "below"
      BY <1>2, FrameUpdates
    <3>2. Descend(t, g, f.n + 1) /\ ~PassesThrough(g.n)
      BY <2>3, <3>1
    <3> HIDE DEF g
    <3> QED
      BY <3>1, <3>2
  <2>4. CASE Descend(t, [f EXCEPT !.at = "through", !.holds = TRUE], f.n + 1)
    <3> DEFINE g == [f EXCEPT !.at = "through", !.holds = TRUE]
    <3>1. Fits(g) /\ g.n = f.n /\ g.at = "through"
      BY <1>2, FrameUpdates
    <3> HIDE DEF g
    <3> QED
      BY <2>4, <3>1 DEF g
  <2> QED
    BY <2>1, <2>2, <2>3, <2>4 DEF PrepareWatch, TracePassesThrough, BeginTrace
<1>4. g.at = "through" => Remaining(g) <= Remaining(f)
  BY <1>2 DEF Remaining
<1> QED
  BY <1>1, <1>2, <1>3, <1>4, WrapperQuiet

LEMMA SkipCounts ==
    ASSUME WrapInv, CountInv, NEW t \in CallThreads, SkipWatch(t) \/ SkipTrace(t)
    PROVE  CountInv'
<1> DEFINE f == Top(t)
<1>1. At(t) \in {"enter", "after"} /\ scene' = scene /\ count' = count
  BY DEF SkipWatch, SkipTrace
<1>2. /\ Fits(f) /\ f.at = At(t) /\ f.n # Bottom /\ f.n \in DOMAIN scene.chain
      /\ f.at = "enter" => Probe(f.n).before
  BY <1>1, TopShape DEF Fits
<1>3. PICK g : /\ Fits(g) /\ g.n = f.n
               /\ \/ f.at = "enter" /\ g.at = "below" /\ Descend(t, g, f.n + 1)
                  \/ g.at = "leave" /\ Become(t, g)
  <2>1. CASE f.at = "enter" /\ Descend(t, [f EXCEPT !.at = "below"], f.n + 1)
    <3> DEFINE g == [f EXCEPT !.at = "below"]
    <3>1. Fits(g) /\ g.n = f.n /\ g.at = "below"
      BY <1>2, FrameUpdates
    <3> HIDE DEF g
    <3> QED
      BY <2>1, <3>1 DEF g
  <2>2. CASE Become(t, [f EXCEPT !.at = "leave"])
    <3> DEFINE g == [f EXCEPT !.at = "leave"]
    <3>1. Fits(g) /\ g.n = f.n /\ g.at = "leave"
      BY <1>2, FrameUpdates
    <3> HIDE DEF g
    <3> QED
      BY <2>2, <3>1 DEF g
  <2> QED
    BY <1>2, <2>1, <2>2 DEF SkipWatch, SkipTrace
<1>4. Remaining(g) <= Remaining(f)
  <2>1. /\ PerCall(f.n) \in Nat /\ Twice(f.n) \in {0, 1} /\ WrapTypes
        /\ PerCall(f.n) = (IF Probe(f.n).before THEN 2 ELSE 1) + Twice(f.n)
    BY <1>2, PerCallFacts DEF WrapInv
  <2>2. Remaining(f) \in Nat
    BY <1>2, <2>1, RemainingFacts
  <2>3. CASE g.at = "leave"
    BY <2>2, <2>3 DEF Remaining
  <2>4. CASE f.at = "enter" /\ g.at = "below"
    <3>1. Remaining(f) = 2 + Twice(f.n) /\ Remaining(g) = 1 + Twice(f.n)
      BY <1>2, <1>3, <2>1, <2>4 DEF Remaining
    <3> QED
      BY <2>1, <3>1
  <2> QED
    BY <1>3, <2>3, <2>4
<1>5. At(t) # "idle" /\ (g.at # "enter")
  BY <1>1, <1>3
<1> QED
  BY <1>1, <1>2, <1>3, <1>4, <1>5, WrapperQuiet

\* The count of an observation is one that was due.
LEMMA ObserveCounts ==
    ASSUME WrapInv, CountInv, NEW t \in CallThreads, ObserveWatch(t) \/ ObserveTrace(t)
    PROVE  CountInv'
<1> DEFINE f == Top(t)
           s == frames[t]
<1>1. At(t) \in {"enter", "after"} /\ scene' = scene /\ count' = CountOf(f.n)
  BY DEF ObserveWatch, ObserveTrace
<1>2. /\ Fits(f) /\ f.at = At(t) /\ f.n # Bottom /\ f.n \in DOMAIN scene.chain
      /\ f.at = "enter" => Probe(f.n).before
      /\ s # <<>> /\ Stacked(s) /\ s \in Seq(WrapFrame) /\ Climbs(s) /\ f = s[Len(s)] /\ f.n + 1 \in 1..Bottom
      /\ Len(s) \in 1..Len(s) /\ WrapTypes
  BY <1>1, TopShape DEF Fits, WrapInv
<1>3. /\ count' \in [DOMAIN scene.chain -> Nat]
      /\ \A n \in DOMAIN scene.chain : count[n] \in Nat /\ count'[n] <= count[n] + 1 /\ (n # f.n => count'[n] = count[n])
  BY <1>1, <1>2 DEF CountInv, CountOf
<1>4. /\ PerCall(f.n) \in Nat /\ Twice(f.n) \in {0, 1}
      /\ PerCall(f.n) = (IF Probe(f.n).before THEN 2 ELSE 1) + Twice(f.n)
      /\ Twice(f.n) = (IF Raises(f.n) THEN 1 ELSE 0)
  BY <1>2, PerCallFacts DEF Twice
<1>5. PICK g : /\ Fits(g) /\ g.n = f.n /\ g.at # "enter"
               /\ Descend(t, g, f.n + 1) \/ Become(t, g)
               /\ Remaining(g) < Remaining(f)
  <2>1. CASE f.at = "enter" /\ ~Raises(f.n) /\ Descend(t, [f EXCEPT !.at = "below"], f.n + 1)
    <3> DEFINE g == [f EXCEPT !.at = "below"]
    <3>1. Fits(g) /\ g.n = f.n /\ g.at = "below"
      BY <1>2, FrameUpdates
    <3> HIDE DEF g
    <3>2. Remaining(g) = 1 /\ Remaining(f) = 2
      BY <1>2, <1>4, <2>1, <3>1 DEF Remaining
    <3>3. Remaining(g) < Remaining(f)
      BY <3>2
    <3>4. Descend(t, g, f.n + 1)
      BY <2>1 DEF g
    <3> QED
      BY <3>1, <3>3, <3>4
  <2>2. CASE f.at = "after" /\ Raises(f.n) /\ f.out = "ok" /\ Become(t, [f EXCEPT !.out = "exc"])
    <3> DEFINE g == [f EXCEPT !.out = "exc"]
    <3>1. Fits(g) /\ g.n = f.n /\ g.at = "after" /\ g.out = "exc"
      BY <1>2, <2>2, FrameUpdates
    <3> HIDE DEF g
    <3>2. Remaining(g) = 1 /\ Remaining(f) = 2
      BY <1>2, <1>4, <2>2, <3>1 DEF Remaining
    <3>3. Remaining(g) < Remaining(f)
      BY <3>2
    <3>4. Become(t, g)
      BY <2>2 DEF g
    <3> QED
      BY <3>1, <3>3, <3>4
  <2>3. ASSUME NEW g, Fits(g), g.n = f.n, g.at = "leave", Become(t, g)
        PROVE  Remaining(g) < Remaining(f)
    <3>1. Remaining(g) = 0
      BY <2>3 DEF Remaining
    <3>2. Remaining(f) \in {1, 2, 3}
      BY <1>1, <1>2, <1>4 DEF Remaining
    <3> QED
      BY <3>1, <3>2
  <2>4. CASE Become(t, [f EXCEPT !.at = "leave"])
    <3> DEFINE g == [f EXCEPT !.at = "leave"]
    <3>1. Fits(g) /\ g.n = f.n /\ g.at = "leave"
      BY <1>2, FrameUpdates
    <3> HIDE DEF g
    <3> QED
      BY <2>3, <2>4, <3>1 DEF g
  <2>5. CASE Become(t, [f EXCEPT !.at = "leave", !.out = "exc"])
    <3> DEFINE g == [f EXCEPT !.at = "leave", !.out = "exc"]
    <3>1. Fits(g) /\ g.n = f.n /\ g.at = "leave"
      BY <1>2, FrameUpdates
    <3> HIDE DEF g
    <3> QED
      BY <2>3, <2>5, <3>1 DEF g
  <2> QED
    BY <2>1, <2>2, <2>4, <2>5 DEF ObserveWatch, ObserveTrace
<1> HIDE DEF f, s
<1>6. PICK r : /\ frames' = [frames EXCEPT ![t] = r] /\ Climbs(r) /\ r[Len(s)] = g
               /\ \A i \in 1..Len(r) : Remaining(r[i]) \in Nat
               /\ \A n : Quieter(s, r, n)
  <2>0. Remaining(g) <= Remaining(f)
    <3>1. Remaining(g) \in Nat /\ Remaining(f) \in Nat
      BY <1>2, <1>5, RemainingFacts
    <3> QED
      BY <1>5, <3>1
  <2>1. CASE Descend(t, g, f.n + 1)
    <3> DEFINE r == CallsOn(s, g, f.n + 1)
    <3>1. frames' = [frames EXCEPT ![t] = r]
      BY <2>1 DEF Descend, CallsOn, OnAs, Replaced, s
    <3>2. /\ Climbs(r) /\ r[Len(s)] = g /\ \A i \in 1..Len(r) : Remaining(r[i]) \in Nat
          /\ \A n : Quieter(s, r, n)
      BY <1>2, <1>5, <2>0, CallsOnQuietly
    <3> QED
      BY <3>1, <3>2
  <2>2. CASE Become(t, g)
    <3> DEFINE r == OnAs(s, g)
    <3>1. frames' = [frames EXCEPT ![t] = r]
      BY <2>2 DEF Become, OnAs, Replaced, s
    <3>2. /\ Climbs(r) /\ r[Len(s)] = g /\ \A i \in 1..Len(r) : Remaining(r[i]) \in Nat
          /\ \A n : Quieter(s, r, n)
      BY <1>2, <1>5, <2>0, GoesOnQuietly
    <3> QED
      BY <3>1, <3>2
  <2> QED
    BY <1>5, <2>1, <2>2
<1>7. ASSUME NEW n \in DOMAIN scene.chain PROVE Settles(s, r, n)
  <2>1. Quieter(s, r, n) /\ \A i \in 1..Len(s) : Remaining(s[i]) \in Nat
    BY <1>2, <1>6, AllFit
  <2>2. CASE n # f.n
    <3>1. Due(r, n) \subseteq Due(s, n)
      BY <1>2, <1>6, <2>1, QuieterDue
    <3> QED
      BY <1>3, <2>2, <3>1 DEF Settles
  <2>3. CASE n = f.n
    <3>1. Remaining(f) \in 1..PerCall(n)
      <4>1. Remaining(g) \in Nat /\ Remaining(f) \in Nat
        BY <1>2, <1>5, RemainingFacts
      <4>2. Remaining(f) > 0
        BY <1>5, <4>1
      <4> QED
        BY <1>2, <2>3, <4>2, RemainingFacts
    <3>2. s[Len(s)].n = n /\ Remaining(s[Len(s)]) \in 1..PerCall(n) /\ Remaining(r[Len(s)]) < Remaining(s[Len(s)])
      BY <1>2, <1>5, <1>6, <2>3, <3>1
    <3>4. s \in Seq(WrapFrame) /\ s # <<>> /\ Climbs(s) /\ WrapTypes /\ Quieter(s, r, n)
          /\ (\A i \in 1..Len(s) : Remaining(s[i]) \in Nat) /\ \A i \in 1..Len(r) : Remaining(r[i]) \in Nat
      BY <1>2, <1>6, <2>1
    <3>5. Len(s) \in 1..Len(r) => Remaining(r[Len(s)]) < Remaining(s[Len(s)])
      BY <3>2
    <3>3. \E x \in Due(s, n) : Due(r, n) \subseteq Due(s, n) \ {x}
      BY <3>2, <3>4, <3>5, <2>3, ObservedDue
    <3> QED
      BY <1>3, <3>3 DEF Settles
  <2> QED
    BY <2>2, <2>3
<1> QED
  BY <1>1, <1>2, <1>3, <1>6, <1>7, OneThread DEF s

LEMMA ReturnCounts ==
    ASSUME WrapInv, CountInv, NEW t \in CallThreads, scene' = scene, count' = count,
           At(t) # "idle", NEW o \in Outcomes, Return(t, o)
    PROVE  CountInv'
<1> DEFINE s == frames[t]
           r == AfterReturn(s, o)
<1>1. s # <<>> /\ Stacked(s) /\ Climbs(s) /\ WrapTypes /\ CallInv(t)
  BY TopShape DEF WrapInv
<1>2. frames' = [frames EXCEPT ![t] = r]
  BY <1>1, ReturnIs
<1>3. Climbs(r) /\ (\A n : Quieter(s, r, n)) /\ \A i \in 1..Len(r) : Remaining(r[i]) \in Nat
  BY <1>1, ReturnsQuietly
<1> HIDE DEF r
<1>4. \A n \in DOMAIN scene.chain : Settles(s, r, n)
  BY <1>1, <1>3, QuietSettles
<1>5. count' \in [DOMAIN scene.chain -> Nat]
  BY DEF CountInv
<1> QED
  BY <1>1, <1>2, <1>3, <1>4, <1>5, OneThread

LEMMA RecurseCounts ==
    ASSUME WrapInv, CountInv, NEW t \in CallThreads, BodyRecurses(t)
    PROVE  CountInv'
<1> DEFINE s == frames[t]
           f == [Top(t) EXCEPT !.at = "calling"]
           r == CallsOn(s, f, Slot)
<1>1. /\ s # <<>> /\ Stacked(s) /\ Climbs(s) /\ WrapTypes /\ Top(t) = s[Len(s)] /\ Fits(Top(t))
      /\ Top(t).at = "body" /\ scene' = scene /\ count' = count /\ Cardinality(Bodies(t)) < scene.depth
  BY TopShape DEF WrapInv, BodyRecurses
<1>2. Fits(f) /\ f.n = Bottom /\ Top(t).n = Bottom /\ f.at = "calling"
  BY <1>1 DEF Fits, WrapFrame
<1>3. Slot \in 1..Bottom /\ Depth(s) < scene.depth
  <2>1. Bodies(t) = BodiesIn(s)
    BY <1>1, SeqFacts DEF Bodies, BodiesIn, Stacked
  <2> QED
    BY <1>1, <2>1, SlotFacts DEF Depth
<1>4. frames' = [frames EXCEPT ![t] = r]
  BY DEF BodyRecurses, Descend, CallsOn, OnAs, Replaced
<1>5. Remaining(f) <= Remaining(s[Len(s)])
  BY <1>1, <1>2 DEF Remaining
<1> HIDE DEF f
<1>6. Climbs(r) /\ (\A n : Quieter(s, r, n)) /\ \A i \in 1..Len(r) : Remaining(r[i]) \in Nat
  BY <1>1, <1>2, <1>3, <1>5, CallsOnQuietly
<1> HIDE DEF r
<1>7. \A n \in DOMAIN scene.chain : Settles(s, r, n)
  BY <1>1, <1>6, QuietSettles
<1>8. count' \in [DOMAIN scene.chain -> Nat]
  BY <1>1 DEF CountInv
<1> QED
  BY <1>1, <1>4, <1>6, <1>7, <1>8, OneThread

LEMMA CallCounts ==
    ASSUME WrapInv, CountInv, NEW t \in CallThreads, Call(t)
    PROVE  CountInv'
<1> DEFINE g == NewFrame(Slot)
           r == <<g>>
<1>1. WrapTypes /\ frames' = [frames EXCEPT ![t] = r] /\ scene' = scene /\ count' = count /\ frames[t] = <<>>
  BY TopFacts DEF WrapInv, Call, At
<1>2. Slot \in 1..Bottom
  BY <1>1, SlotFacts
<1>3. Fits(g) /\ g.n = Slot /\ Remaining(g) = 0 /\ g.at # "enter"
  BY <1>2, NewFits
<1> HIDE DEF g
<1>4. Len(r) = 1 /\ r[1] = g
  OBVIOUS
<1> HIDE DEF r
<1>5. Climbs(r)
  <2>1. g.n # Bottom => UpTo(r, 1) = {}
    BY <1>4 DEF UpTo
  <2>2. g.n # Bottom => Level(r, 1) < scene.depth
    <3> SUFFICES ASSUME g.n # Bottom PROVE Level(r, 1) < scene.depth
      OBVIOUS
    <3>1. Level(r, 1) = 0
      BY <2>1, FS_EmptySet DEF Level
    <3> QED
      BY <1>1, <3>1, SceneFacts
  <2>3. 1..1 = {1} /\ 1..1 - 1 = {}
    OBVIOUS
  <2> QED
    BY <1>3, <1>4, <2>2, <2>3 DEF Climbs
<1>6. \A i \in 1..Len(r) : Remaining(r[i]) = 0
  BY <1>3, <1>4
<1>7. \A n : Quieter(frames[t], r, n)
  BY <1>6 DEF Quieter
<1>8. Stacked(frames[t])
  BY DEF WrapInv, CallInv, CallSound
<1>9. \A n \in DOMAIN scene.chain : Settles(frames[t], r, n)
  BY <1>1, <1>6, <1>7, <1>8, QuietSettles
<1>10. count' \in [DOMAIN scene.chain -> Nat]
  BY <1>1 DEF CountInv
<1> QED
  BY <1>1, <1>5, <1>9, <1>10, OneThread

LEMMA OthersCount ==
    ASSUME CountInv, UNCHANGED <<scene, frames, count>>
    PROVE  CountInv'
<1>1. ASSUME NEW u \in CallThreads PROVE Climbs(frames[u])'
  <2>1. Climbs(frames'[u])
    BY DEF CountInv
  <2> QED
    BY <2>1, ClimbsAfter
<1>2. ASSUME NEW n \in DOMAIN scene.chain PROVE CountWithin(n)'
  <2>1. AllDue(n)' = AllDue(n)
    BY SceneSame DEF AllDue
  <2> QED
    BY <2>1, SceneSame DEF CountInv, CountWithin
<1> QED
  BY <1>1, <1>2 DEF CountInv

LEMMA CountStep == WrapInv /\ CountInv /\ [CallNext]_callVars => CountInv'
<1> SUFFICES ASSUME WrapInv, CountInv, [CallNext]_callVars PROVE CountInv'
  OBVIOUS
<1>1. ASSUME NEW t \in CallThreads, Leave(t) PROVE CountInv'
  <2>1. At(t) # "idle" /\ Return(t, Top(t).out) /\ scene' = scene /\ count' = count
    BY <1>1 DEF Leave
  <2>2. Top(t).out \in Outcomes
    BY <2>1, TopShape DEF Fits, WrapFrame
  <2> QED
    BY <2>1, <2>2, ReturnCounts
<1>2. ASSUME NEW t \in CallThreads, NEW o \in {"ok", "exc", "exit"}, BodyEnds(t, o) PROVE CountInv'
  BY <1>2, ReturnCounts DEF BodyEnds, Outcomes
<1>3. ASSUME NEW n \in DOMAIN scene.chain, RemoveProbe(n) PROVE CountInv'
  BY <1>3, OthersCount DEF RemoveProbe
<1>4. CASE UNCHANGED callVars
  BY <1>4, OthersCount DEF callVars
<1> QED
  BY <1>1, <1>2, <1>3, <1>4, PrepareCounts, SkipCounts, ObserveCounts, RecurseCounts, CallCounts
     DEF CallNext, StepOfCall

THEOREM LimitsAreKept == CallSpec => []LimitOvershoot
<1>1. CallInit => WrapInv /\ CountInv
  <2> SUFFICES ASSUME CallInit PROVE WrapInv /\ CountInv
    OBVIOUS
  <2>1. WrapInv
    BY NoFrames DEF CallInit, WrapTypes, Outcomes, WrapInv, CallInv, CallSound
  <2>2. Len(<<>>) = 0 /\ 1..0 = {} /\ 1..0 - 1 = {}
    OBVIOUS
  <2>3. \A t \in CallThreads : frames[t] = <<>> /\ Climbs(frames[t])
    BY <2>2 DEF CallInit, Climbs
  <2>4. ASSUME NEW n \in DOMAIN scene.chain PROVE CountWithin(n)
    <3>1. AllDue(n) = {}
      BY <2>2, <2>3 DEF AllDue, Due
    <3>2. Cardinality(AllDue(n)) = 0 /\ count[n] = 0
      BY <3>1, FS_EmptySet DEF CallInit
    <3>3. PerCall(n) * scene.depth * Cardinality(CallThreads) \in Nat /\ Probe(n).limit \in Nat
      BY <2>1, DueFinite, PerCallFacts DEF WrapInv
    <3> DEFINE M == PerCall(n) * scene.depth * Cardinality(CallThreads)
               L == Probe(n).limit
    <3> HIDE DEF M, L
    <3>4. L > 0 => 0 + 0 <= L - 1 + M
      BY <3>3 DEF M, L
    <3> QED
      BY <3>2, <3>4 DEF CountWithin, Allowed, M, L
  <2> QED
    BY <2>1, <2>3, <2>4 DEF CountInv, CallInit
<1>2. WrapInv /\ CountInv => LimitOvershoot
  <2> SUFFICES ASSUME WrapInv, CountInv, NEW n \in DOMAIN scene.chain, Probe(n).limit > 0
               PROVE  count[n] <= Allowed(n)
    BY DEF LimitOvershoot, Allowed
  <2>1. count[n] + Cardinality(AllDue(n)) <= Allowed(n) /\ count[n] \in Nat
    BY DEF CountInv, CountWithin
  <2>2. Cardinality(AllDue(n)) \in Nat /\ PerCall(n) * scene.depth * Cardinality(CallThreads) \in Nat /\ Probe(n).limit \in Nat
    BY DueFinite, PerCallFacts DEF WrapInv
  <2>3. Allowed(n) \in Int
    BY <2>2 DEF Allowed
  <2> QED
    BY <2>1, <2>2, <2>3
<1> QED
  BY <1>1, <1>2, WrapStep, CountStep, PTL DEF CallSpec

-----------------------------------------------------------------------------
(* Coroutines and async generators *)

Endings3 == Caught \cup {"exit", "closed"}
Awaiting == [at : {"idle", "down", "up"}, n : 0..Layers + 1, seen : SUBSET (1..Layers),
             out : Endings3 \cup {"none"}, want : Endings3 \cup {"none"}, cancel : BOOLEAN]
Operation == [at : {"idle", "asked"}, kind : {"none", "anext", "athrow", "aclose"},
              made : Nat, cancel : BOOLEAN]

AwaitTypes ==
    /\ hooked \subseteq 1..Layers /\ await \in [AsyncTasks -> Awaiting]
    /\ profiles = [x \in (AsyncTasks \cup {"all"}) \X (1..Layers) |-> profiles[x]]
    /\ gen \in {"none", "new", "suspended", "running", "finished"} /\ proxies \subseteq 1..Layers
    /\ ops \in [AsyncTasks -> Operation] /\ values \in Nat /\ counted \in [1..Layers -> Nat]
    /\ mixed \in BOOLEAN

\* On the way down nothing is said; on the way up those it has passed have said what
\* CoroutinesAccounted says, and it is as it ended unless one of them failed.
SoundCall(c, said) ==
    /\ c.at # "up" =>
          /\ \A m \in 1..Layers : said[m] = <<>>
          /\ c.out = "none" /\ c.want = "none"
    /\ c.at = "up" =>
          /\ c.n <= Layers /\ \A m \in 1..c.n : said[m] = <<>>
          /\ c.want = "none" => c.out = "raised" /\ Failing # {}
          /\ c.want \in Caught =>
                c.out = c.want \/ (c.out = "raised" /\ \E k \in Failing : k > c.n)
          /\ c.want \in {"exit", "closed"} => c.out = c.want
          /\ \A m \in 1..Layers : m > c.n =>
                IF m \in c.seen /\ c.want \in Caught
                THEN \E x \in Caught : said[m] = <<x>> /\ ((\A k \in Failing : k <= m) => x = c.want)
                ELSE said[m] = <<>> \/ (said[m] = <<"raised">> /\ c.want = "none")

Said(t) == [m \in 1..Layers |-> profiles[<<t, m>>]]
TaskSound(t) == SoundCall(await[t], Said(t))

\* One operation at a time is in the generator; what its proxies said, they said at its end.
GeneratorSound ==
    /\ \A t \in AsyncTasks : ops[t].at = "asked" => gen = "running"
    /\ \A t, u \in AsyncTasks : ops[t].at = "asked" /\ ops[u].at = "asked" => t = u
    /\ gen = "none" => values = 0 /\ \A n \in 1..Layers : counted[n] = 0
    /\ \A n \in proxies : counted[n] = values
    /\ \A n \in 1..Layers :
          \/ profiles[<<"all", n>>] = <<>>
          \/ \E how, yields : /\ profiles[<<"all", n>>] = <<[how |-> how, yields |-> yields]>>
                              /\ ~mixed => gen = "finished" /\ yields = values

AsyncInv == AwaitTypes /\ (\A t \in AsyncTasks : TaskSound(t)) /\ GeneratorSound

\* A step that leaves the calls and what was said of them alone.
LEMMA CallsAlone ==
    ASSUME AsyncInv, await' = await,
           \A t \in AsyncTasks : \A m \in 1..Layers : profiles'[<<t, m>>] = profiles[<<t, m>>]
    PROVE  \A t \in AsyncTasks : TaskSound(t)'
<1>1. \A t \in AsyncTasks : Said(t)' = Said(t)
  BY DEF Said
<1> QED
  BY <1>1 DEF AsyncInv, TaskSound

\* ... or the generator and what was said of it.
LEMMA GeneratorAlone ==
    ASSUME AsyncInv, UNCHANGED generatorSide,
           \A n \in 1..Layers : profiles'[<<"all", n>>] = profiles[<<"all", n>>]
    PROVE  GeneratorSound'
  BY DEF AsyncInv, GeneratorSound, generatorSide

\* A step of one call.
LEMMA OneCall ==
    ASSUME AsyncInv, NEW t \in AsyncTasks, NEW c \in Awaiting, Goes(t, c), UNCHANGED generatorSide,
           hooked' = hooked,
           profiles' = [x \in DOMAIN profiles |-> profiles'[x]],
           \A x \in DOMAIN profiles : x[1] # t => profiles'[x] = profiles[x],
           TaskSound(t)'
    PROVE  AsyncInv'
<1>1. await'[t] = c /\ \A u \in AsyncTasks \ {t} : await'[u] = await[u]
  BY DEF Goes, AsyncInv, AwaitTypes
<1>2. \A u \in AsyncTasks \ {t} : \A m \in 1..Layers : profiles'[<<u, m>>] = profiles[<<u, m>>]
  BY DEF AsyncInv, AwaitTypes
<1>3. \A u \in AsyncTasks : TaskSound(u)'
  <2>1. \A u \in AsyncTasks \ {t} : Said(u)' = Said(u)
    BY <1>2 DEF Said
  <2> QED
    BY <1>1, <2>1 DEF AsyncInv, TaskSound
<1>4. \A n \in 1..Layers : profiles'[<<"all", n>>] = profiles[<<"all", n>>]
  BY AsyncAssumption DEF AsyncInv, AwaitTypes
<1>5. AwaitTypes'
  <2>1. DOMAIN profiles = (AsyncTasks \cup {"all"}) \X (1..Layers)
    BY DEF AsyncInv, AwaitTypes
  <2>2. profiles' = [x \in (AsyncTasks \cup {"all"}) \X (1..Layers) |-> profiles'[x]]
    BY <2>1
  <2> QED
    BY <2>2 DEF AsyncInv, AwaitTypes, Goes, generatorSide, Awaiting, Endings3, Caught, Operation
<1> QED
  BY <1>3, <1>4, <1>5, GeneratorAlone DEF AsyncInv

\* An updated call is a call.
LEMMA CallUpdates ==
    ASSUME NEW c \in Awaiting, NEW n \in 0..Layers + 1
    PROVE  /\ [c EXCEPT !.n = n] \in Awaiting
           /\ \A m \in 1..Layers : [c EXCEPT !.n = n, !.seen = @ \cup {m}] \in Awaiting
           /\ \A o \in Endings3 : /\ [c EXCEPT !.n = n, !.out = o] \in Awaiting
                                  /\ [c EXCEPT !.at = "up", !.n = n, !.out = o] \in Awaiting
                                  /\ [c EXCEPT !.at = "up", !.n = n, !.out = o, !.want = o] \in Awaiting
<1> HIDE DEF Endings3
<1> QED
  BY DEF Awaiting

LEMMA ProfilesAFunction ==
    ASSUME AsyncInv
    PROVE  \A x \in DOMAIN profiles : [profiles EXCEPT ![x] = profiles[x]] = profiles
  BY DEF AsyncInv, AwaitTypes

LEMMA CallShape ==
    ASSUME AsyncInv, NEW t \in AsyncTasks
    PROVE  /\ await[t] \in Awaiting /\ SoundCall(await[t], Said(t))
           /\ \A m \in 1..Layers : Said(t)[m] = profiles[<<t, m>>]
           /\ Layers \in Nat /\ Failing \subseteq 1..Layers
  BY AsyncAssumption DEF AsyncInv, AwaitTypes, TaskSound, Said

\* Nothing is said on the way down.
LEMMA DownStep ==
    ASSUME AsyncInv, NEW t \in AsyncTasks, NEW c \in Awaiting, Goes(t, c),
           UNCHANGED <<hooked, profiles, generatorSide>>,
           SoundCall(c, Said(t))
    PROVE  AsyncInv'
<1>1. Said(t)' = Said(t)
  BY DEF Said
<1>2. await'[t] = c
  BY DEF Goes, AsyncInv, AwaitTypes
<1>3. TaskSound(t)'
  BY <1>1, <1>2 DEF TaskSound
<1>4. profiles = [x \in DOMAIN profiles |-> profiles[x]]
  BY DEF AsyncInv, AwaitTypes
<1> QED
  BY <1>3, <1>4, OneCall DEF generatorSide

\* Down or, if an observation raises, up: nothing is said yet.
LEMMA DownSound ==
    ASSUME NEW c \in Awaiting, NEW d \in Awaiting, NEW said, c.at = "down", SoundCall(c, said),
           d.at \in {"down", "up"}, d.want = c.want, d.at = "down" => d.out = c.out,
           d.at = "up" => d.out = "raised" /\ d.n <= Layers /\ Failing # {}
    PROVE  SoundCall(d, said)
  BY AsyncAssumption DEF SoundCall, Awaiting, Caught

LEMMA EnterStep ==
    ASSUME AsyncInv, NEW t \in AsyncTasks, Enter(t)
    PROVE  AsyncInv'
<1> DEFINE c == await[t]
           down == [c EXCEPT !.n = c.n + 1]
           seen == [c EXCEPT !.n = c.n + 1, !.seen = c.seen \cup {c.n}]
           up == [c EXCEPT !.at = "up", !.n = c.n - 1, !.out = "raised"]
<1>1. c \in Awaiting /\ SoundCall(c, Said(t)) /\ c.at = "down" /\ c.n <= Layers
      /\ Layers \in Nat /\ Failing \subseteq 1..Layers /\ hooked \subseteq 1..Layers
  BY CallShape DEF Enter, AsyncInv, AwaitTypes
<1>2. c.n + 1 \in 0..Layers + 1 /\ "raised" \in Endings3
  BY <1>1 DEF Awaiting, Endings3, Caught
<1>3. CASE Goes(t, down)
  <2>1. down \in Awaiting
    BY <1>1, <1>2, CallUpdates
  <2>2. down.at = c.at /\ down.want = c.want /\ down.out = c.out
    BY <1>1 DEF Awaiting
  <2>3. SoundCall(down, Said(t))
    BY <1>1, <2>1, <2>2, DownSound
  <2> QED
    BY <1>3, <2>1, <2>3, DownStep DEF Enter
<1>4. CASE c.n \in hooked /\ Goes(t, seen)
  <2>1. seen \in Awaiting
    <3>1. c.n \in 1..Layers
      BY <1>1, <1>4
    <3> QED
      BY <1>1, <1>2, <3>1, CallUpdates
  <2>2. seen.at = c.at /\ seen.want = c.want /\ seen.out = c.out
    BY <1>1 DEF Awaiting
  <2>3. SoundCall(seen, Said(t))
    BY <1>1, <2>1, <2>2, DownSound
  <2> QED
    BY <1>4, <2>1, <2>3, DownStep DEF Enter
<1>5. CASE c.n \in hooked \cap Failing /\ Goes(t, up)
  <2>1. c.n \in 1..Layers /\ c.n - 1 \in 0..Layers + 1 /\ c.n - 1 <= Layers /\ Failing # {}
    BY <1>1, <1>5
  <2>2. up \in Awaiting
    BY <1>1, <1>2, <2>1, CallUpdates
  <2>3. up.at = "up" /\ up.want = c.want /\ up.out = "raised" /\ up.n = c.n - 1
    BY <1>1 DEF Awaiting
  <2>4. SoundCall(up, Said(t))
    <3> HIDE DEF up
    <3> QED
      BY <1>1, <2>1, <2>2, <2>3, DownSound
  <2> QED
    BY <1>5, <2>2, <2>4, DownStep DEF Enter
<1> QED
  BY <1>3, <1>4, <1>5 DEF Enter

LEMMA CoroutineEndsStep ==
    ASSUME AsyncInv, NEW t \in AsyncTasks, NEW o \in Caught \cup {"exit", "closed"}, CoroutineEnds(t, o)
    PROVE  AsyncInv'
<1> DEFINE c == await[t]
           d == [c EXCEPT !.at = "up", !.n = Layers, !.out = o, !.want = o]
<1>1. c \in Awaiting /\ SoundCall(c, Said(t)) /\ c.at = "down" /\ Layers \in Nat
  BY CallShape DEF CoroutineEnds
<1>2. d \in Awaiting /\ d.at = "up" /\ d.n = Layers /\ d.out = o /\ d.want = o
  <2>1. o \in Endings3 /\ Layers \in 0..Layers + 1
    BY <1>1 DEF Endings3
  <2>2. d \in Awaiting
    BY <1>1, <2>1, CallUpdates
  <2> QED
    BY <1>1, <2>2 DEF Awaiting
<1>3. SoundCall(d, Said(t))
  <2> HIDE DEF d
  <2> QED
    BY <1>1, <1>2 DEF SoundCall, Caught
<1> QED
  BY <1>2, <1>3, DownStep DEF CoroutineEnds

\* What a wrapper says on the way up, if it saw the call and catches how it ended, is
\* what the call it wraps has come to.
LEMMA UpSound ==
    ASSUME NEW c \in Awaiting, NEW d \in Awaiting, NEW before, NEW after, NEW n \in 1..Layers,
           NEW prints \in BOOLEAN, prints <=> (n \in c.seen /\ c.out \in Caught),
           c.at = "up", c.n = n, SoundCall(c, before),
           d.at = "up", d.n = n - 1, d.want = c.want, d.seen = c.seen,
           d.out = c.out \/ (d.out = "raised" /\ prints /\ n \in Failing),
           after[n] = IF prints THEN <<c.out>> ELSE <<>>,
           \A m \in 1..Layers \ {n} : after[m] = before[m]
    PROVE  SoundCall(d, after)
<1>1. Layers \in Nat /\ Failing \subseteq 1..Layers /\ n \in Nat
  BY AsyncAssumption
<1>2. /\ c.want = "none" => c.out = "raised" /\ Failing # {}
      /\ c.want \in Caught => c.out = c.want \/ (c.out = "raised" /\ \E k \in Failing : k > n)
      /\ c.want \in {"exit", "closed"} => c.out = c.want
  BY DEF SoundCall
<1>3. /\ d.want = "none" => d.out = "raised" /\ Failing # {}
      /\ d.want \in Caught => d.out = d.want \/ (d.out = "raised" /\ \E k \in Failing : k > d.n)
      /\ d.want \in {"exit", "closed"} => d.out = d.want
  <2>1. \A k \in Failing : k > n => k > d.n
    BY <1>1
  <2>2. n \in Failing => \E k \in Failing : k > d.n
    BY <1>1
  <2>3. "exit" \notin Caught /\ "closed" \notin Caught
    BY DEF Caught
  <2> QED
    BY <1>2, <2>1, <2>2, <2>3
<1>4. \A m \in 1..d.n : after[m] = <<>>
  <2>1. \A m \in 1..d.n : m \in 1..n /\ m \in 1..Layers \ {n}
    BY <1>1
  <2> QED
    BY <2>1 DEF SoundCall
<1>5. ASSUME NEW m \in 1..Layers, m > d.n
      PROVE  IF m \in d.seen /\ d.want \in Caught
             THEN \E x \in Caught : after[m] = <<x>> /\ ((\A k \in Failing : k <= m) => x = d.want)
             ELSE after[m] = <<>> \/ (after[m] = <<"raised">> /\ d.want = "none")
  <2>1. CASE m # n
    <3>1. m > n /\ after[m] = before[m]
      BY <2>1, <1>1, <1>5
    <3> QED
      BY <3>1 DEF SoundCall
  <2>2. CASE m = n
    <3>1. CASE m \in d.seen /\ d.want \in Caught
      <4>1. c.out \in Caught /\ prints
        BY <3>1, <2>2, <1>2 DEF Caught
      <4>2. (\A k \in Failing : k <= m) => c.out = d.want
        BY <3>1, <2>2, <1>1, <1>2
      <4> QED
        BY <3>1, <4>1, <4>2, <2>2
    <3>2. CASE ~(m \in d.seen /\ d.want \in Caught)
      <4>1. prints => c.want = "none" /\ c.out = "raised"
        BY <3>2, <2>2, <1>2 DEF Caught, Awaiting, Endings3
      <4> QED
        BY <3>2, <4>1, <2>2
    <3> QED
      BY <3>1, <3>2
  <2> QED
    BY <2>1, <2>2
<1>6. d.n <= Layers
  BY <1>1
<1> QED
  BY <1>3, <1>4, <1>5, <1>6 DEF SoundCall

\* What the wrapper of layer n says, if it was there and it ends as is caught.
LEMMA PassUpStep ==
    ASSUME AsyncInv, NEW t \in AsyncTasks, PassUp(t)
    PROVE  AsyncInv'
<1> DEFINE c == await[t]
           n == c.n
           prints == n \in c.seen /\ c.out \in Caught
<1>1. /\ c \in Awaiting /\ SoundCall(c, Said(t)) /\ c.at = "up" /\ n > 0 /\ Layers \in Nat
      /\ Failing \subseteq 1..Layers /\ \A m \in 1..Layers : Said(t)[m] = profiles[<<t, m>>]
  BY CallShape DEF PassUp
<1>2. n \in 1..Layers /\ profiles[<<t, n>>] = <<>> /\ <<t, n>> \in DOMAIN profiles
  <2>1. n \in 1..Layers
    BY <1>1 DEF SoundCall, Awaiting
  <2>2. n \in 1..n
    BY <1>1, <2>1
  <2>3. Said(t)[n] = <<>>
    BY <1>1, <2>2 DEF SoundCall
  <2>4. DOMAIN profiles = (AsyncTasks \cup {"all"}) \X (1..Layers)
    BY DEF AsyncInv, AwaitTypes
  <2> QED
    BY <1>1, <2>1, <2>3, <2>4
<1> DEFINE said == IF prints THEN <<c.out>> ELSE <<>>
<1>3. /\ said = IF prints THEN <<c.out>> ELSE <<>>
      /\ Printed(<<>>, c.out) = <<c.out>> /\ \A y : Printed(<<c.out>>, y) = <<c.out>>
  BY DEF Printed
<1>4. profiles' = [profiles EXCEPT ![<<t, n>>] = said]
  <2>1. CASE prints
    BY <1>2, <1>3, <2>1 DEF PassUp
  <2>2. CASE ~prints
    <3>1. profiles' = profiles
      BY <2>2 DEF PassUp
    <3>2. said = profiles[<<t, n>>]
      BY <1>2, <2>2
    <3> HIDE DEF said, n
    <3> QED
      BY <1>2, <3>1, <3>2, ProfilesAFunction
  <2> QED
    BY <2>1, <2>2
<1>5. Said(t)' = [Said(t) EXCEPT ![n] = said]
  BY <1>2, <1>4 DEF Said, AsyncInv, AwaitTypes
<1>6. /\ profiles' = [x \in DOMAIN profiles |-> profiles'[x]]
      /\ \A x \in DOMAIN profiles : x[1] # t => profiles'[x] = profiles[x]
  <2> HIDE DEF said, n
  <2>1. \A x \in DOMAIN profiles : x[1] # t => x # <<t, n>>
    OBVIOUS
  <2>2. \A x \in DOMAIN profiles : x # <<t, n>> => profiles'[x] = profiles[x]
    BY <1>4
  <2>3. profiles' = [x \in DOMAIN profiles |-> profiles'[x]]
    BY <1>4
  <2> QED
    BY <2>1, <2>2, <2>3
<1>7. ASSUME NEW d \in Awaiting, Goes(t, d),
             d.at = "up", d.n = n - 1, d.want = c.want, d.seen = c.seen,
             d.out = c.out \/ (d.out = "raised" /\ prints /\ n \in Failing)
      PROVE  AsyncInv'
  <2>1. await'[t] = d
    BY <1>7 DEF Goes, AsyncInv, AwaitTypes
  <2>2. Said(t)'[n] = said /\ \A m \in 1..Layers \ {n} : Said(t)'[m] = Said(t)[m]
    BY <1>2, <1>5 DEF Said
  <2>3. SoundCall(d, Said(t)')
    <3> DEFINE before == Said(t)
               after == Said(t)'
    <3>1. /\ c \in Awaiting /\ n \in 1..Layers /\ prints \in BOOLEAN
          /\ (prints <=> (n \in c.seen /\ c.out \in Caught))
          /\ c.at = "up" /\ c.n = n /\ SoundCall(c, before)
          /\ after[n] = IF prints THEN <<c.out>> ELSE <<>>
          /\ \A m \in 1..Layers \ {n} : after[m] = before[m]
      BY <1>1, <1>2, <2>2
    <3> HIDE DEF before, after, c, n, prints, said
    <3>2. SoundCall(d, after)
      BY <3>1, <1>7, UpSound, SMTT(20)
    <3> QED
      BY <3>2 DEF after
  <2>4. TaskSound(t)'
    BY <2>1, <2>3 DEF TaskSound
  <2> QED
    BY <1>6, <1>7, <2>4, OneCall DEF PassUp
<1>8. n - 1 \in 0..Layers + 1 /\ "raised" \in Endings3 /\ c.out \in Endings3 \cup {"none"}
  BY <1>1, <1>2 DEF Awaiting, Endings3, Caught
<1> DEFINE plain == [c EXCEPT !.n = n - 1]
           failed == [c EXCEPT !.n = n - 1, !.out = "raised"]
<1>9. CASE Goes(t, plain)
  <2>1. plain \in Awaiting
    BY <1>1, <1>8, CallUpdates
  <2>2. plain.at = "up" /\ plain.n = n - 1 /\ plain.want = c.want /\ plain.seen = c.seen /\ plain.out = c.out
    BY <1>1 DEF Awaiting
  <2> HIDE DEF plain
  <2> QED
    BY <1>7, <1>9, <2>1, <2>2
<1>10. CASE prints /\ n \in Failing /\ Goes(t, failed)
  <2>1. failed \in Awaiting
    BY <1>1, <1>8, CallUpdates
  <2>2. /\ failed.at = "up" /\ failed.n = n - 1 /\ failed.want = c.want
        /\ failed.seen = c.seen /\ failed.out = "raised"
    BY <1>1 DEF Awaiting
  <2> HIDE DEF failed
  <2> QED
    BY <1>7, <1>10, <2>1, <2>2
<1> QED
  BY <1>9, <1>10 DEF PassUp

LEMMA CallCoroutineStep ==
    ASSUME AsyncInv, NEW t \in AsyncTasks, CallCoroutine(t)
    PROVE  AsyncInv'
<1> DEFINE c == [NoCall EXCEPT !.at = "down", !.n = 1]
<1>1. c \in Awaiting /\ c.at = "down" /\ c.out = "none" /\ c.want = "none"
  <2>1. 1 \in 0..Layers + 1
    BY AsyncAssumption
  <2> QED
    BY <2>1 DEF NoCall, Awaiting
<1>2. SoundCall(await[t], Said(t)) /\ await[t].at = "idle"
  BY CallShape DEF CallCoroutine
<1>3. SoundCall(c, Said(t))
  BY <1>1, <1>2 DEF SoundCall
<1> QED
  BY <1>1, <1>3, DownStep DEF CallCoroutine

LEMMA CancelStep ==
    ASSUME AsyncInv, NEW t \in AsyncTasks, Cancel(t)
    PROVE  AsyncInv'
<1> DEFINE c == await[t]
           d == [c EXCEPT !.cancel = TRUE]
<1>1. c \in Awaiting /\ SoundCall(c, Said(t)) /\ c.at = "down"
  BY CallShape DEF Cancel
<1>2. d \in Awaiting /\ d.at = "down" /\ d.want = c.want /\ d.out = c.out
  BY <1>1 DEF Awaiting
<1>3. SoundCall(d, Said(t))
  BY <1>1, <1>2, DownSound
<1> QED
  BY <1>2, <1>3, DownStep DEF Cancel

LEMMA UnhookStep ==
    ASSUME AsyncInv, NEW n \in 1..Layers, Unhook(n)
    PROVE  AsyncInv'
<1>1. \A t \in AsyncTasks : TaskSound(t)'
  BY CallsAlone DEF Unhook, coroutineSide
<1>2. GeneratorSound'
  BY GeneratorAlone DEF Unhook
<1>3. AwaitTypes'
  BY DEF Unhook, coroutineSide, generatorSide, AsyncInv, AwaitTypes
<1> QED
  BY <1>1, <1>2, <1>3 DEF AsyncInv

LEMMA MakeGeneratorStep ==
    ASSUME AsyncInv, MakeGenerator
    PROVE  AsyncInv'
<1>1. \A t \in AsyncTasks : TaskSound(t)'
  BY CallsAlone DEF MakeGenerator, coroutineSide
<1>2. GeneratorSound'
  BY DEF MakeGenerator, AsyncInv, AwaitTypes, GeneratorSound
<1>3. AwaitTypes'
  BY DEF MakeGenerator, coroutineSide, AsyncInv, AwaitTypes
<1> QED
  BY <1>1, <1>2, <1>3 DEF AsyncInv

\* What comes through the proxies leaves the calls alone, is counted by each of them,
\* and is said if it is an end.
Ends == {"exhausted", "errored", "closed"}

LEMMA PassedUpKeeps ==
    ASSUME AsyncInv, NEW o, PassedUp(o), await' = await
    PROVE  /\ \A t \in AsyncTasks : TaskSound(t)'
           /\ profiles' = [x \in (AsyncTasks \cup {"all"}) \X (1..Layers) |-> profiles'[x]]
           /\ values' \in Nat /\ counted' \in [1..Layers -> Nat]
           /\ values' = IF o = "value" THEN values + 1 ELSE values
           /\ \A n \in proxies : counted'[n] = values'
           /\ \A n \in 1..Layers : profiles'[<<"all", n>>] =
                 IF n \in proxies /\ o \in Ends
                 THEN Printed(profiles[<<"all", n>>], [how |-> o, yields |-> counted[n]])
                 ELSE profiles[<<"all", n>>]
<1>1. DOMAIN profiles = (AsyncTasks \cup {"all"}) \X (1..Layers)
  BY DEF AsyncInv, AwaitTypes
<1>2. \A t \in AsyncTasks : \A m \in 1..Layers :
         <<t, m>> \in DOMAIN profiles /\ <<t, m>>[1] # "all"
  BY <1>1, AsyncAssumption
<1>3. \A t \in AsyncTasks : \A m \in 1..Layers : profiles'[<<t, m>>] = profiles[<<t, m>>]
  BY <1>2 DEF PassedUp
<1>4. \A t \in AsyncTasks : TaskSound(t)'
  BY <1>3, CallsAlone
<1>5. profiles' = [x \in (AsyncTasks \cup {"all"}) \X (1..Layers) |-> profiles'[x]]
  <2>1. profiles' = [x \in DOMAIN profiles |-> profiles'[x]]
    BY DEF PassedUp
  <2> QED
    BY <2>1, <1>1
<1>6. /\ values' = IF o = "value" THEN values + 1 ELSE values
      /\ counted' \in [1..Layers -> Nat] /\ values' \in Nat
      /\ \A n \in proxies : counted'[n] = values'
  BY DEF PassedUp, AsyncInv, AwaitTypes, GeneratorSound
<1>7. \A n \in 1..Layers : profiles'[<<"all", n>>] =
         IF n \in proxies /\ o \in Ends
         THEN Printed(profiles[<<"all", n>>], [how |-> o, yields |-> counted[n]])
         ELSE profiles[<<"all", n>>]
  <2>1. \A n \in 1..Layers :
           <<"all", n>> \in DOMAIN profiles /\ <<"all", n>>[1] = "all" /\ <<"all", n>>[2] = n
    BY <1>1
  <2> QED
    BY <2>1 DEF PassedUp, Ends
<1> QED
  BY <1>4, <1>5, <1>6, <1>7

\* What was said stays said, and what is said now is said at the end.
LEMMA EndSaid ==
    ASSUME AsyncInv, NEW o, PassedUp(o), await' = await,
           o \in Ends => mixed' \/ gen' = "finished",
           mixed => mixed',
           gen = "finished" /\ ~mixed' => gen' = "finished" /\ o # "value",
           NEW n \in 1..Layers
    PROVE  \/ profiles'[<<"all", n>>] = <<>>
           \/ \E how, yields : /\ profiles'[<<"all", n>>] = <<[how |-> how, yields |-> yields]>>
                               /\ ~mixed' => gen' = "finished" /\ yields = values'
<1> DEFINE said == profiles[<<"all", n>>]
           after == profiles'[<<"all", n>>]
<1>1. /\ after = IF n \in proxies /\ o \in Ends
                 THEN Printed(said, [how |-> o, yields |-> counted[n]]) ELSE said
      /\ values' = IF o = "value" THEN values + 1 ELSE values
  BY PassedUpKeeps
<1>2. \/ said = <<>>
      \/ \E how, yields : said = <<[how |-> how, yields |-> yields]>>
                          /\ (~mixed => gen = "finished" /\ yields = values)
  BY DEF AsyncInv, GeneratorSound
<1>3. n \in proxies => counted[n] = values
  BY DEF AsyncInv, GeneratorSound
<1>4. "value" \notin Ends
  BY DEF Ends
<1> HIDE DEF said, after
<1>5. CASE said = <<>>
  <2>1. CASE n \in proxies /\ o \in Ends
    <3>1. after = <<[how |-> o, yields |-> values]>> /\ values' = values
      BY <1>1, <1>3, <1>4, <1>5, <2>1 DEF Printed
    <3> QED
      BY <3>1, <2>1 DEF after
  <2>2. CASE ~(n \in proxies /\ o \in Ends)
    BY <1>1, <1>5, <2>2 DEF after
  <2> QED
    BY <2>1, <2>2
<1>6. ASSUME NEW how, NEW yields, said = <<[how |-> how, yields |-> yields]>>,
             ~mixed => gen = "finished" /\ yields = values
      PROVE  \E h, y : after = <<[how |-> h, yields |-> y]>>
                       /\ (~mixed' => gen' = "finished" /\ y = values')
  <2>1. Printed(said, [how |-> o, yields |-> counted[n]]) = said
    BY <1>6 DEF Printed
  <2>2. after = <<[how |-> how, yields |-> yields]>>
    BY <1>1, <1>6, <2>1
  <2>3. ~mixed' => gen' = "finished" /\ yields = values'
    BY <1>1, <1>6
  <2> QED
    BY <2>2, <2>3
<1> QED
  BY <1>2, <1>5, <1>6 DEF after

LEMMA AskStep ==
    ASSUME AsyncInv, NEW t \in AsyncTasks, NEW kind \in {"anext", "athrow", "aclose"}, Ask(t, kind)
    PROVE  AsyncInv'
<1>1. /\ form' = form /\ hooked' = hooked /\ await' = await /\ proxies' = proxies
      /\ gen # "none" /\ ops[t] \in Operation /\ ops[t].at = "idle"
  BY DEF Ask, coroutineSide, AsyncInv, AwaitTypes
<1>2. CASE AtOnce(kind) = "later"
  <2>1. gen \in {"new", "suspended"} /\ gen' = "running" /\ UNCHANGED <<profiles, values, counted, mixed>>
    BY <1>1, <1>2 DEF Ask, AtOnce, AsyncInv, AwaitTypes
  <2> DEFINE d == [at |-> "asked", kind |-> kind, made |-> ops[t].made + 1, cancel |-> FALSE]
  <2>2. ops' = [ops EXCEPT ![t] = d] /\ d \in Operation
    <3>1. ops' = [ops EXCEPT ![t] = d]
      BY <1>2 DEF Ask
    <3>2. d \in Operation
      BY <1>1 DEF Operation
    <3> QED
      BY <3>1, <3>2
  <2> HIDE DEF d
  <2>3. \A u \in AsyncTasks : TaskSound(u)'
    BY <1>1, <2>1, CallsAlone
  <2>4. GeneratorSound'
    BY <1>1, <2>1, <2>2 DEF AsyncInv, AwaitTypes, GeneratorSound
  <2>5. AwaitTypes'
    BY <1>1, <2>1, <2>2 DEF AsyncInv, AwaitTypes
  <2> QED
    BY <2>3, <2>4, <2>5 DEF AsyncInv
<1>3. CASE AtOnce(kind) # "later"
  <2> DEFINE o == AtOnce(kind)
  <2>1. /\ PassedUp(o) /\ gen' = IF gen = "new" THEN "finished" ELSE gen
        /\ mixed' = (mixed \/ gen = "running")
    BY <1>3 DEF Ask
  <2>2. /\ o \in Ends /\ o # "value" /\ gen \in {"running", "finished", "new"}
    BY <1>1, <1>3 DEF AtOnce, Ends, AsyncInv, AwaitTypes
  <2>3. ops' = [ops EXCEPT ![t] = [ops[t] EXCEPT !.made = @ + 1]]
        /\ [ops[t] EXCEPT !.made = @ + 1] \in Operation /\ [ops[t] EXCEPT !.made = @ + 1].at = "idle"
    BY <1>1, <1>3 DEF Ask, Operation
  <2> HIDE DEF o
  <2>4. mixed \in BOOLEAN
    BY DEF AsyncInv, AwaitTypes
  <2>5. \A n \in 1..Layers :
           \/ profiles'[<<"all", n>>] = <<>>
           \/ \E how, yields : /\ profiles'[<<"all", n>>] = <<[how |-> how, yields |-> yields]>>
                               /\ ~mixed' => gen' = "finished" /\ yields = values'
    BY <1>1, <2>1, <2>2, <2>4, EndSaid
  <2>6. /\ \A u \in AsyncTasks : TaskSound(u)'
        /\ profiles' = [x \in (AsyncTasks \cup {"all"}) \X (1..Layers) |-> profiles'[x]]
        /\ values' \in Nat /\ counted' \in [1..Layers -> Nat]
        /\ \A n \in proxies : counted'[n] = values'
    BY <1>1, <2>1, PassedUpKeeps
  <2>7. GeneratorSound'
    <3>1. \A u \in AsyncTasks : ops'[u].at = "asked" <=> ops[u].at = "asked"
      BY <1>1, <2>3 DEF AsyncInv, AwaitTypes
    <3>2. gen' # "none"
      BY <2>1, <2>2
    <3>3. \A u \in AsyncTasks : ops'[u].at = "asked" => gen' = "running"
      BY <3>1, <2>1 DEF AsyncInv, GeneratorSound
    <3>4. \A u, v \in AsyncTasks : ops'[u].at = "asked" /\ ops'[v].at = "asked" => u = v
      BY <3>1 DEF AsyncInv, GeneratorSound
    <3> QED
      BY <1>1, <2>5, <2>6, <3>2, <3>3, <3>4 DEF GeneratorSound
  <2>8. AwaitTypes'
    BY <1>1, <2>1, <2>2, <2>3, <2>4, <2>6 DEF AsyncInv, AwaitTypes
  <2> QED
    BY <2>6, <2>7, <2>8 DEF AsyncInv
<1> QED
  BY <1>2, <1>3

LEMMA CancelAskedStep ==
    ASSUME AsyncInv, NEW t \in AsyncTasks, CancelAsked(t)
    PROVE  AsyncInv'
<1>1. \A u \in AsyncTasks : TaskSound(u)'
  BY CallsAlone DEF CancelAsked, coroutineSide
<1>2. \A u \in AsyncTasks : ops'[u].at = ops[u].at
  BY DEF CancelAsked, AsyncInv, AwaitTypes, Operation
<1>3. GeneratorSound'
  <2>1. /\ gen' = gen /\ proxies' = proxies /\ values' = values /\ counted' = counted
        /\ mixed' = mixed /\ profiles' = profiles
    BY DEF CancelAsked
  <2>2. \A u \in AsyncTasks : ops'[u].at = "asked" => gen' = "running"
    BY <1>2, <2>1 DEF AsyncInv, GeneratorSound
  <2>3. \A u, v \in AsyncTasks : ops'[u].at = "asked" /\ ops'[v].at = "asked" => u = v
    BY <1>2, <2>1 DEF AsyncInv, GeneratorSound
  <2> QED
    BY <2>1, <2>2, <2>3 DEF AsyncInv, GeneratorSound
<1>4. AwaitTypes'
  BY DEF CancelAsked, coroutineSide, AsyncInv, AwaitTypes, Operation
<1> QED
  BY <1>1, <1>3, <1>4 DEF AsyncInv

LEMMA GeneratorAnswersStep ==
    ASSUME AsyncInv, NEW t \in AsyncTasks, NEW a \in {"value", "ended", "errored", "cancelled"},
           GeneratorAnswers(t, a)
    PROVE  AsyncInv'
<1>1. /\ form' = form /\ hooked' = hooked /\ await' = await /\ proxies' = proxies
      /\ ops[t] \in Operation /\ gen = "running" /\ mixed \in BOOLEAN
      /\ \A u \in AsyncTasks \ {t} : ops[u].at # "asked"
  BY DEF GeneratorAnswers, coroutineSide, AsyncInv, AwaitTypes, GeneratorSound
<1>2. /\ gen' = IF a = "value" THEN "suspended" ELSE "finished"
      /\ mixed' = (mixed \/ (ops[t].kind = "aclose" /\ a = "value"))
  BY DEF GeneratorAnswers
<1>3. /\ ops' = [ops EXCEPT ![t] = [NoOp EXCEPT !.made = ops[t].made]]
      /\ [NoOp EXCEPT !.made = ops[t].made] \in Operation /\ [NoOp EXCEPT !.made = ops[t].made].at = "idle"
  BY <1>1 DEF GeneratorAnswers, NoOp, Operation
<1>4. PICK o : /\ PassedUp(o) /\ (a = "value" /\ o \in Ends => ops[t].kind = "aclose")
  BY DEF GeneratorAnswers, Ends
<1>5. \A n \in 1..Layers :
         \/ profiles'[<<"all", n>>] = <<>>
         \/ \E how, yields : /\ profiles'[<<"all", n>>] = <<[how |-> how, yields |-> yields]>>
                             /\ ~mixed' => gen' = "finished" /\ yields = values'
  BY <1>1, <1>2, <1>4, EndSaid
<1>6. /\ \A u \in AsyncTasks : TaskSound(u)'
      /\ profiles' = [x \in (AsyncTasks \cup {"all"}) \X (1..Layers) |-> profiles'[x]]
      /\ values' \in Nat /\ counted' \in [1..Layers -> Nat]
      /\ \A n \in proxies : counted'[n] = values'
  BY <1>1, <1>4, PassedUpKeeps
<1>7. GeneratorSound'
  <2>1. \A u \in AsyncTasks : ops'[u].at # "asked"
    BY <1>1, <1>3 DEF AsyncInv, AwaitTypes
  <2> QED
    BY <1>1, <1>2, <1>5, <1>6, <2>1 DEF GeneratorSound
<1>8. AwaitTypes'
  BY <1>1, <1>2, <1>3, <1>6 DEF AsyncInv, AwaitTypes
<1> QED
  BY <1>6, <1>7, <1>8 DEF AsyncInv

LEMMA AsyncInitial == AsyncInit => AsyncInv
<1> SUFFICES ASSUME AsyncInit PROVE AsyncInv
  OBVIOUS
<1>1. NoCall \in Awaiting /\ NoOp \in Operation /\ NoOp.at = "idle" /\ NoCall.at = "idle"
      /\ NoCall.out = "none" /\ NoCall.want = "none"
  BY AsyncAssumption DEF NoCall, NoOp, Awaiting, Operation
<1>2. AwaitTypes
  BY <1>1 DEF AsyncInit, AwaitTypes
<1>3. \A t \in AsyncTasks : TaskSound(t)
  BY <1>1 DEF AsyncInit, TaskSound, SoundCall, Said
<1>4. GeneratorSound
  BY <1>1 DEF AsyncInit, GeneratorSound
<1> QED
  BY <1>2, <1>3, <1>4 DEF AsyncInv

LEMMA AsyncSteps == AsyncInv /\ [AsyncNext]_asyncVars => AsyncInv'
<1> SUFFICES ASSUME AsyncInv, [AsyncNext]_asyncVars PROVE AsyncInv'
  OBVIOUS
<1>1. CASE UNCHANGED asyncVars
  <2>1. \A t \in AsyncTasks : TaskSound(t)'
    BY <1>1, CallsAlone DEF asyncVars, coroutineSide
  <2>2. GeneratorSound' /\ AwaitTypes'
    BY <1>1, GeneratorAlone DEF asyncVars, coroutineSide, generatorSide, AsyncInv, AwaitTypes
  <2> QED
    BY <2>1, <2>2 DEF AsyncInv
<1> QED
  BY <1>1, CallCoroutineStep, EnterStep, CancelStep, PassUpStep, CancelAskedStep, CoroutineEndsStep,
     AskStep, GeneratorAnswersStep, UnhookStep, MakeGeneratorStep DEF AsyncNext

\* What the calls and the generator have said is what AsyncAccounted asks.
LEMMA AsyncImplies == AsyncInv => AsyncAccounted
<1> SUFFICES ASSUME AsyncInv PROVE AsyncAccounted
  OBVIOUS
<1>1. CoroutinesAccounted
  <2> SUFFICES ASSUME NEW t \in AsyncTasks, await[t].at = "up", await[t].n = 0
               PROVE  /\ await[t].out = await[t].want \/ (await[t].out = "raised" /\ Failing # {})
                      /\ \A n \in 1..Layers : LET said == profiles[<<t, n>>] IN
                            IF n \in await[t].seen /\ await[t].want \in Caught
                            THEN Len(said) = 1 /\ ((\A m \in Failing : m <= n) => said = <<await[t].want>>)
                            ELSE said = <<>> \/ (said = <<"raised">> /\ await[t].want = "none")
    BY DEF CoroutinesAccounted
  <2>1. /\ await[t] \in Awaiting /\ SoundCall(await[t], Said(t))
        /\ \A m \in 1..Layers : Said(t)[m] = profiles[<<t, m>>]
    BY CallShape
  <2>2. await[t].out = await[t].want \/ (await[t].out = "raised" /\ Failing # {})
    BY <2>1 DEF SoundCall, Awaiting, Endings3
  <2>3. ASSUME NEW n \in 1..Layers, NEW said, said = profiles[<<t, n>>]
        PROVE  IF n \in await[t].seen /\ await[t].want \in Caught
               THEN Len(said) = 1 /\ ((\A m \in Failing : m <= n) => said = <<await[t].want>>)
               ELSE said = <<>> \/ (said = <<"raised">> /\ await[t].want = "none")
    <3>1. n > await[t].n
      BY AsyncAssumption
    <3>2. \A x : Len(<<x>>) = 1
      OBVIOUS
    <3> QED
      BY <2>1, <2>3, <3>1, <3>2, ZenonT(30) DEF SoundCall
  <2> QED
    BY <2>2, <2>3
<1>2. ProfileFinal
  <2>1. ASSUME NEW n \in 1..Layers, NEW said, said = profiles[<<"all", n>>]
        PROVE  /\ Len(said) <= 1
               /\ said # <<>> /\ ~mixed => gen = "finished" /\ said[1].yields = values
               /\ n \in proxies => counted[n] = values
    <3>1. \A x : Len(<<x>>) = 1 /\ <<x>>[1] = x
      OBVIOUS
    <3>2. Len(<<>>) = 0
      OBVIOUS
    <3>3. \/ said = <<>>
          \/ \E how, yields : /\ said = <<[how |-> how, yields |-> yields]>>
                              /\ ~mixed => gen = "finished" /\ yields = values
      BY <2>1 DEF AsyncInv, GeneratorSound
    <3>4. n \in proxies => counted[n] = values
      BY DEF AsyncInv, GeneratorSound
    <3>5. Len(said) <= 1 /\ (said # <<>> /\ ~mixed => gen = "finished" /\ said[1].yields = values)
      <4>1. CASE said = <<>>
        BY <3>2, <4>1
      <4>2. ASSUME NEW how, NEW yields, said = <<[how |-> how, yields |-> yields]>>,
                   ~mixed => gen = "finished" /\ yields = values
            PROVE  Len(said) <= 1 /\ (said # <<>> /\ ~mixed => gen = "finished" /\ said[1].yields = values)
        <5>1. Len(said) = 1 /\ said[1] = [how |-> how, yields |-> yields]
          BY <3>1, <4>2
        <5> QED
          BY <4>2, <5>1
      <4> QED
        BY <3>3, <4>1, <4>2
    <3> QED
      BY <3>4, <3>5
  <2> QED
    BY <2>1 DEF ProfileFinal
<1> QED
  BY <1>1, <1>2 DEF AsyncAccounted

THEOREM AsyncCallsAreAccounted == AsyncSpec => []AsyncAccounted
<1>1. AsyncInit => AsyncInv
  BY AsyncInitial
<1>2. AsyncInv /\ [AsyncNext]_asyncVars => AsyncInv'
  BY AsyncSteps
<1> QED
  BY <1>1, <1>2, AsyncImplies, PTL DEF AsyncSpec

-----------------------------------------------------------------------------
(* Together *)

\* What an instrumentation does to a call does not change how it ends for whoever made
\* it: calls of functions, of coroutines and async generators, calls through a slot in
\* which monitors and probes are stacked, started and stopped.
THEOREM OutcomesAreKept == OutcomeSpec => []OutcomesKept
<1>1. (CallSpec /\ AsyncSpec /\ MonitorSpec) => []OutcomesKept
  BY CallsAreTransparent, AsyncCallsAreAccounted, RepairsKeepTheBody, PTL DEF OutcomesKept
<1> QED
  BY <1>1 DEF OutcomeSpec
===============================================================================
